------------------------------ MODULE SetupProofs ------------------------------
(***************************************************************************)
(* Proofs about RemoteShims and Setup for any number of scripts, tokens,   *)
(* clients and breaks, and any commands, files, routes and interference.   *)
(* What Setup does to the account is what RemoteShims allows, so the       *)
(* theorems about the account hold of it too; what it does to the file is  *)
(* what SshConfigProofs is about, so the user's lines are kept and         *)
(* Clipport's come first, and are gone after uninstall; and setup that     *)
(* ends undisturbed has set up the file and the account.                   *)
(***************************************************************************)
EXTENDS Setup, SshConfigProofs

-----------------------------------------------------------------------------
(* The account                                                             *)


\* What can happen to one script.
Starts(s) ==
  \E first \in {"lock", "rmlinks"}, token \in Keys, rm \in BOOLEAN, waited \in BOOLEAN :
    /\ Run(s, first, token, rm, waited)
    /\ others' = others \/ (others < MaxOthers /\ others' = others + 1)
StepOf(s) == ScriptStep(s) \/ Cut(s) \/ Kill(s) \/ Collect(s) \/ Abandon(s) \/ Starts(s)

LEMMA StepCases == RemoteNext => \E s \in Scripts : StepOf(s)
<1>1. 0 \in Keys
  BY BoundsAssumption DEF Keys
<1>2. QED
  BY <1>1 DEF RemoteNext, StepOf, Starts, RunOther, RunOwn

\* A script that ends leaves the types as they are.
LEMMA EndTypes ==
  ASSUME RemoteTypeOK, NEW s \in Scripts, NEW status \in {"ok", "bad"}, End(s, status)
  PROVE  script' \in [Scripts -> Script] /\ others' = others /\ breaks' = breaks
<1>1. script[s] \in Script
  BY DEF RemoteTypeOK
<1>2. [script[s] EXCEPT !.stage = status] \in Script
  BY <1>1 DEF Script
<1>3. NoScript \in Script
  BY BoundsAssumption DEF NoScript, Script, Keys
<1>4. QED
  BY <1>2, <1>3 DEF End, RemoteTypeOK

\* The variables of the account keep their types.
THEOREM RemoteTypes == RemoteSpec => []RemoteTypeOK
<1> USE BoundsAssumption
<1>1. RemoteInit => RemoteTypeOK
  BY DEF RemoteInit, RemoteTypeOK, Account, Script, NoScript, InstallStages, UninstallStages, Keys
<1>2. RemoteTypeOK /\ [RemoteNext]_remoteVars => RemoteTypeOK'
  <2> SUFFICES ASSUME RemoteTypeOK, RemoteNext PROVE RemoteTypeOK'
    BY DEF RemoteTypeOK, remoteVars
  <2>0. PICK s \in Scripts : StepOf(s)
    BY StepCases
  <2> USE DEF Account, Script, NoScript, InstallStages, UninstallStages, RemoteTypeOK, Goto
  <2>1. CASE Acquire(s)
    BY <2>1 DEF Acquire
  <2>2. CASE Busy(s)
    BY <2>2, EndTypes DEF Busy
  <2>3. CASE Check(s)
    BY <2>3 DEF Check
  <2>4. CASE Publish(s)
    BY <2>4 DEF Publish
  <2>5. CASE Chmod(s)
    BY <2>5 DEF Chmod
  <2>6. CASE PlaceShim(s)
    BY <2>6 DEF PlaceShim, Owner, Owners
  <2>7. CASE Link(s)
    BY <2>7, ZenonT(60) DEF Link
  <2>8. CASE Cleanup(s)
    BY <2>8, EndTypes DEF Cleanup
  <2>9. CASE Unlink(s)
    BY <2>9 DEF Unlink
  <2>10. CASE RemoveShim(s)
    BY <2>10, EndTypes DEF RemoveShim
  <2>11. CASE RemoveToken(s)
    BY <2>11, EndTypes DEF RemoveToken
  <2>12. CASE Cut(s)
    BY <2>12 DEF Cut, Break, Keys
  <2>13. CASE Kill(s)
    BY <2>13 DEF Kill, Break, Keys
  <2>14. CASE Collect(s)
    BY <2>14 DEF Collect, Keys
  <2>15. CASE Abandon(s)
    <3>1. [script[s] EXCEPT !.waited = FALSE] \in Script
      BY ZenonT(60)
    <3>2. script' \in [Scripts -> Script]
      BY <2>15, <3>1 DEF Abandon
    <3>3. QED
      BY <2>15, <3>2 DEF Abandon, Break
  <2>16. CASE Starts(s)
    BY <2>16 DEF Starts, Run
  <2>17. QED
    BY <2>0, <2>1, <2>2, <2>3, <2>4, <2>5, <2>6, <2>7, <2>8, <2>9, <2>10, <2>11,
       <2>12, <2>13, <2>14, <2>15, <2>16 DEF StepOf, ScriptStep
<1>3. QED
  BY <1>1, <1>2, PTL DEF RemoteSpec

-----------------------------------------------------------------------------
\* Who has checked the token, and not yet placed the wrapper, still finds the
\* token it has checked, or none.
Checked(s) == script[s].stage \in {"token", "chmod", "shim"}
TokenChecked == \A s \in Scripts : Checked(s) => account.token \in {None, script[s].key}

\* The lock is what keeps two installs apart, and so the checked token.
ShimInv == LockOwned /\ TokenChecked

LEMMA ShimInvStep ==
  ASSUME RemoteTypeOK, ShimInv, [RemoteNext]_remoteVars
  PROVE  ShimInv'
<1> USE ScriptsAssumption DEF ShimInv, LockOwned, TokenChecked, Holds, Checked, RemoteTypeOK,
        Account, Script, InstallStages, UninstallStages, Goto, End, NoScript
<1>0. CASE UNCHANGED remoteVars
  BY <1>0 DEF remoteVars
<1>a. CASE RemoteNext
  <2>0. PICK s \in Scripts : StepOf(s)
    BY <1>a, StepCases
  <2>1. CASE Acquire(s)
    BY <2>1 DEF Acquire
  <2>2. CASE Busy(s)
    BY <2>2 DEF Busy
  <2>3. CASE Check(s)
    BY <2>3 DEF Check
  <2>4. CASE Publish(s)
    BY <2>4 DEF Publish
  <2>5. CASE Chmod(s)
    BY <2>5 DEF Chmod
  <2>6. CASE PlaceShim(s)
    BY <2>6 DEF PlaceShim
  <2>7. CASE Link(s)
    BY <2>7 DEF Link
  <2>8. CASE Cleanup(s)
    BY <2>8 DEF Cleanup
  <2>9. CASE Unlink(s)
    BY <2>9 DEF Unlink
  <2>10. CASE RemoveShim(s)
    BY <2>10 DEF RemoveShim
  <2>11. CASE RemoveToken(s)
    BY <2>11 DEF RemoveToken
  <2>12. CASE Cut(s)
    BY <2>12 DEF Cut
  <2>13. CASE Kill(s)
    BY <2>13 DEF Kill
  <2>14. CASE Collect(s)
    BY <2>14 DEF Collect
  <2>15. CASE Abandon(s)
    BY <2>15 DEF Abandon
  <2>16. CASE Starts(s)
    BY <2>16 DEF Starts, Run
  <2>17. QED
    BY <2>0, <2>1, <2>2, <2>3, <2>4, <2>5, <2>6, <2>7, <2>8, <2>9, <2>10, <2>11,
       <2>12, <2>13, <2>14, <2>15, <2>16 DEF StepOf, ScriptStep
<1>1. QED
  BY <1>0, <1>a

\* In every reachable state of the account the invariant holds.
THEOREM ShimInvariant == RemoteSpec => []ShimInv
<1>1. RemoteInit => ShimInv
  BY ScriptsAssumption DEF RemoteInit, ShimInv, LockOwned, TokenChecked, Holds, Checked, NoScript,
     InstallStages
<1>2. RemoteTypeOK /\ ShimInv /\ [RemoteNext]_remoteVars => ShimInv'
  BY ShimInvStep
<1>3. QED
  BY <1>1, <1>2, RemoteTypes, PTL DEF RemoteSpec

\* The lock is that of the one script that installs or of one that was killed
\* (shims.go:74), for any number of scripts and clients.
THEOREM LockOwnedAlways == RemoteSpec => []LockOwned
<1>1. ShimInv => LockOwned
  BY DEF ShimInv
<1>2. QED
  BY <1>1, ShimInvariant, PTL

\* No script replaces the identity of an account (shims.go:92, :107), however
\* scripts of any clients interleave, break off or are killed.
THEOREM IdentityKeptAlways == RemoteSpec => IdentityKept
<1> DEFINE Allowed == /\ account'.token # account.token => None \in {account.token, account'.token}
                      /\ account'.shim \notin {account.shim, None} =>
                           account.token = None \/ Owner(account.token) = account'.shim
<1>1. RemoteTypeOK /\ ShimInv /\ [RemoteNext]_remoteVars => [Allowed]_account
  <2> SUFFICES ASSUME RemoteTypeOK, ShimInv, RemoteNext PROVE Allowed \/ UNCHANGED account
    BY DEF remoteVars
  <2> USE DEF RemoteTypeOK, Account
  <2>0. PICK s \in Scripts : StepOf(s)
    BY StepCases
  <2>1. CASE Publish(s) \/ RemoveToken(s)
    BY <2>1 DEF Publish, RemoveToken
  <2>2. CASE PlaceShim(s)
    <3>1. account.token \in {None, script[s].key}
      BY <2>2 DEF PlaceShim, ShimInv, TokenChecked, Checked
    <3>2. account'.token = account.token /\ account'.shim = Owner(script[s].key)
      BY <2>2 DEF PlaceShim
    <3>3. QED
      BY <3>1, <3>2
  <2>3. CASE Acquire(s) \/ Link(s) \/ Cleanup(s) \/ Unlink(s) \/ Kill(s)
    BY <2>3 DEF Acquire, Link, Cleanup, Unlink, Kill
  <2>4. CASE RemoveShim(s)
    BY <2>4 DEF RemoveShim
  <2>5. CASE Busy(s) \/ Check(s) \/ Chmod(s) \/ Cut(s) \/ Collect(s) \/ Abandon(s)
    BY <2>5 DEF Busy, Check, Chmod, Cut, Collect, Abandon
  <2>6. CASE Starts(s)
    BY <2>6 DEF Starts, Run
  <2>7. QED
    BY <2>0, <2>1, <2>2, <2>3, <2>4, <2>5, <2>6 DEF StepOf, ScriptStep
<1>2. QED
  BY <1>1, ShimInvariant, RemoteTypes, PTL DEF RemoteSpec, IdentityKept

-----------------------------------------------------------------------------
(* The commands                                                            *)


\* What a command needs to run a script: a token of this Mac or none, and
\* whether to remove the remote one.
CmdInv ==
  /\ key \in Keys /\ made \in Keys
  /\ DOMAIN cmd = {"op", "todo", "purge", "stage"} /\ cmd.purge \in BOOLEAN

\* A step of a command leaves its fields as they are but for todo and stage.
LEMMA CmdKept ==
  ASSUME CmdInv, NEW again, NEW status
  PROVE  \A c \in {NextRoute(again), AfterEdit, AfterScript(status),
                   [cmd EXCEPT !.stage = again]} :
           DOMAIN c = DOMAIN cmd /\ c.purge = cmd.purge
<1>1. \A a : DOMAIN NextRoute(a) = DOMAIN cmd /\ NextRoute(a).purge = cmd.purge
  BY DEF CmdInv, NextRoute
<1>2. \A a : DOMAIN [cmd EXCEPT !.stage = a] = DOMAIN cmd /\ [cmd EXCEPT !.stage = a].purge = cmd.purge
  BY DEF CmdInv
<1>3. DOMAIN AfterEdit = DOMAIN cmd /\ AfterEdit.purge = cmd.purge
  BY <1>1, <1>2 DEF AfterEdit
<1>4. DOMAIN AfterScript(status) = DOMAIN cmd /\ AfterScript(status).purge = cmd.purge
  BY <1>1, <1>2 DEF AfterScript
<1>5. QED
  BY <1>1, <1>2, <1>3, <1>4

THEOREM CmdInvariant == Spec => []CmdInv
<1>1. Init => CmdInv
  BY BoundsAssumption DEF Init, CmdInv, Keys
<1>2. CmdInv /\ [Next]_vars => CmdInv'
  <2> SUFFICES ASSUME CmdInv, [Next]_vars PROVE CmdInv'
    OBVIOUS
  <2>1. ASSUME NEW op \in Ops, Begin(op) PROVE CmdInv'
    <3>1. PICK purge \in BOOLEAN, todo \in Todos(op) :
            cmd' = [op |-> op, todo |-> todo, purge |-> purge, stage |-> First(op)]
      BY <2>1 DEF Begin
    <3>2. cmd'.purge \in BOOLEAN /\ DOMAIN cmd' = {"op", "todo", "purge", "stage"}
      BY <3>1
    <3>3. QED
      BY <2>1, <3>2 DEF Begin, CmdInv
  <2>2. CASE ReadConfig
    <3>1. cmd' \in {[cmd EXCEPT !.stage = "failed"], AfterEdit, [cmd EXCEPT !.stage = "editing"]}
      BY <2>2 DEF ReadConfig
    <3>2. QED
      BY <2>2, <3>1, CmdKept DEF ReadConfig, CmdInv
  <2>3. CASE BackupConfig
    BY <2>3 DEF BackupConfig, setupVars, CmdInv
  <2>4. CASE WriteConfig
    BY <2>4, CmdKept DEF WriteConfig, CmdInv
  <2>5. CASE ConfigFails \/ UserSaves
    BY <2>5, CmdKept DEF ConfigFails, UserSaves, CmdInv
  <2>6. CASE LoadOrCreate
    <3>1. key' \in Keys /\ made' \in Keys
      BY <2>6, BoundsAssumption DEF LoadOrCreate, CmdInv, Keys
    <3>2. QED
      BY <2>6, <3>1, CmdKept DEF LoadOrCreate, CmdInv
  <2>7. CASE RemoveData
    BY <2>7, CmdKept, BoundsAssumption DEF RemoveData, CmdInv, Keys
  <2>8. ASSUME NEW s \in Scripts, RunScript(s) \/ Finished(s) \/ Lose(s) PROVE CmdInv'
    BY <2>8, CmdKept DEF RunScript, Finished, Lose, CmdInv
  <2>9. CASE Remote \/ Other
    BY <2>9 DEF Remote, Other, setupVars, CmdInv
  <2>10. CASE UNCHANGED vars
    BY <2>10 DEF vars, CmdInv
  <2>11. QED
    BY <2>1, <2>2, <2>3, <2>4, <2>5, <2>6, <2>7, <2>8, <2>9, <2>10 DEF Next, Clipctl
<1>3. QED
  BY <1>1, <1>2, PTL DEF Spec

-----------------------------------------------------------------------------
\* The commands use the account only as RemoteShims says: they run scripts, see
\* how they end or lose them, and leave the rest to the remote machine.
THEOREM ImplementsRemote == Spec => RemoteSpec
<1>1. Init => RemoteInit
  BY DEF Init
<1>2. CmdInv /\ [Next]_vars => [RemoteNext]_remoteVars
  <2> SUFFICES ASSUME CmdInv, [Next]_vars PROVE RemoteNext \/ UNCHANGED remoteVars
    OBVIOUS
  <2>1. ASSUME NEW s \in Scripts, RunScript(s) PROVE RemoteNext
    BY <2>1 DEF RunScript, RemoteNext, CmdInv
  <2>2. ASSUME NEW s \in Scripts, Finished(s) \/ Lose(s) PROVE RemoteNext
    BY <2>2 DEF Finished, Lose, RemoteNext
  <2>3. CASE Remote \/ Other
    BY <2>3 DEF Remote, Other, RemoteNext
  <2>4. ASSUME NEW op \in Ops, Begin(op) PROVE UNCHANGED remoteVars
    BY <2>4 DEF Begin
  <2>5. CASE ReadConfig \/ BackupConfig \/ WriteConfig \/ ConfigFails \/ UserSaves
             \/ LoadOrCreate \/ RemoveData
    BY <2>5 DEF ReadConfig, BackupConfig, WriteConfig, ConfigFails, UserSaves, LoadOrCreate, RemoveData
  <2>6. CASE UNCHANGED vars
    BY <2>6 DEF vars, remoteVars
  <2>7. QED
    BY <2>1, <2>2, <2>3, <2>4, <2>5, <2>6 DEF Next, Clipctl
<1>3. QED
  BY <1>1, <1>2, CmdInvariant, PTL DEF Spec, RemoteSpec

\* Under any commands the account's identity is kept and its lock has one owner
\* (shims.go:74, :92).
THEOREM AccountSafe == Spec => []LockOwned /\ IdentityKept
  BY ImplementsRemote, LockOwnedAlways, IdentityKeptAlways

-----------------------------------------------------------------------------
\* An edit that is about to write has its text in a backup, and so the user's
\* lines are somewhere.
EditInv ==
  /\ DOMAIN edit = {"stage", "read", "new"}
  /\ edit.stage = "write" => edit.read \in backups
  /\ Recoverable

\* Every step of Setup does one of these to the file.
FileNext ==
  \/ \E result : Read(result)
  \/ Backup \/ Write \/ EditFails \/ WriteTorn \/ Save \/ UNCHANGED fileVars

LEMMA FileSteps == [Next]_vars => FileNext
<1> SUFFICES ASSUME [Next]_vars PROVE FileNext
  OBVIOUS
<1>1. CASE ReadConfig
  BY <1>1 DEF ReadConfig, FileNext
<1>2. CASE BackupConfig \/ WriteConfig \/ ConfigFails \/ UserSaves
  BY <1>2 DEF BackupConfig, WriteConfig, ConfigFails, UserSaves, FileNext
<1>3. ASSUME NEW op \in Ops, Begin(op) PROVE UNCHANGED fileVars
  BY <1>3 DEF Begin
<1>4. ASSUME NEW s \in Scripts, RunScript(s) \/ Finished(s) \/ Lose(s) PROVE UNCHANGED fileVars
  BY <1>4 DEF RunScript, Finished, Lose
<1>5. CASE LoadOrCreate \/ RemoveData \/ Remote \/ Other
  BY <1>5 DEF LoadOrCreate, RemoveData, Remote, Other, FileNext
<1>6. CASE UNCHANGED vars
  BY <1>6 DEF vars, fileVars, FileNext
<1>7. QED
  BY <1>1, <1>2, <1>3, <1>4, <1>5, <1>6 DEF Next, Clipctl, FileNext

\* Unless an edit replaced a text it had not read, the file or a backup has all
\* lines of the user (sshsetup.go:191), whatever commands, saves and torn writes
\* there were.
THEOREM RecoverableAlways == Spec => []Recoverable
<1>1. Init => EditInv
  BY DEF Init, FileInit, EditInv, NoEdit, Recoverable
<1>2. EditInv /\ [Next]_vars => EditInv'
  <2> SUFFICES ASSUME EditInv, FileNext PROVE EditInv'
    BY FileSteps
  <2> USE DEF EditInv, Recoverable
  <2>1. ASSUME NEW result, Read(result) PROVE EditInv'
    BY <2>1 DEF Read
  <2>2. CASE Backup
    BY <2>2 DEF Backup
  <2>3. CASE Write \/ WriteTorn
    <3>1. edit.read \in backups /\ backups' = backups /\ mine' = mine /\ edit' = NoEdit
      BY <2>3 DEF Write, WriteTorn
    <3>2. ~raced' => ~raced /\ file = edit.read
      BY <2>3 DEF Write, WriteTorn
    <3>3. Recoverable'
      BY <3>1, <3>2
    <3>4. QED
      BY <3>1, <3>3 DEF NoEdit
  <2>4. CASE EditFails
    BY <2>4 DEF EditFails, NoEdit
  <2>5. CASE Save
    BY <2>5 DEF Save
  <2>6. CASE UNCHANGED fileVars
    BY <2>6 DEF fileVars
  <2>7. QED
    BY <2>1, <2>2, <2>3, <2>4, <2>5, <2>6 DEF FileNext
<1>3. EditInv => Recoverable
  BY DEF EditInv
<1>4. QED
  BY <1>1, <1>2, <1>3, PTL DEF Spec

-----------------------------------------------------------------------------
(* The commands and the file                                               *)

\* The command that works has the routes it needs: one that edits or waits for a
\* script has one to do, but uninstall, which has none, and shims does not edit.
CmdShape ==
  /\ cmd.op \in Ops /\ cmd.todo \in Seq(Aliases)
  /\ cmd.stage \in {"token", "script", "wait"} => cmd.op # "uninstall" /\ cmd.todo # <<>>
  /\ cmd.stage \in {"edit", "editing"} =>
       cmd.op # "shims" /\ (cmd.op # "uninstall" => cmd.todo # <<>>)
  /\ cmd.op = "shims" => Len(cmd.todo) <= 1

\* ssh runs the hooks that were reported installed, will run them when the edit
\* in progress is written, and the one that the edit is for.
HooksRun ==
  /\ \A a \in hooked : RunsHook(file, a)
  /\ edit.stage # "idle" =>
       /\ cmd.stage = "editing"
       /\ cmd.op # "uninstall" => \A a \in hooked : RunsHook(edit.new, a)
       /\ cmd.op = "hook" => RunsHook(edit.new, Head(cmd.todo))

ConfigInv == CmdInv /\ CmdShape /\ FileInv /\ HooksRun

\* The routes of a command.
LEMMA TodosFacts ==
  ASSUME NEW op \in Ops, NEW todo \in Todos(op)
  PROVE  /\ todo \in Seq(Aliases) /\ (op # "uninstall" => todo # <<>>)
         /\ op = "shims" => Len(todo) <= 1
<1>1. Routes \in Seq(Aliases) /\ Routes # <<>>
  BY RoutesAssumption
<1>2. CASE op = "uninstall"
  <2>1. todo = <<>>
    BY <1>2 DEF Todos
  <2> QED BY <1>2, <2>1
<1>3. CASE op \in {"shims", "forward"}
  <2>1. PICK i \in DOMAIN Routes : todo = <<Routes[i]>>
    BY <1>3 DEF Todos
  <2>2. Routes[i] \in Aliases
    BY <1>1, <2>1
  <2>3. todo \in Seq(Aliases) /\ Len(todo) = 1 /\ Len(todo) <= 1 /\ todo # <<>>
    BY <2>1, <2>2
  <2> QED BY <1>3, <2>3
<1>4. CASE op \notin {"uninstall", "shims", "forward"}
  <2>1. todo = Routes
    BY <1>4 DEF Todos
  <2> QED BY <1>1, <1>4, <2>1
<1> QED BY <1>2, <1>3, <1>4

\* A command that is done with a route has the others to do, or is done.
LEMMA NextRouteShape ==
  ASSUME CmdInv, CmdShape, cmd.todo # <<>>, NEW again \in {"edit", "script"}
  PROVE  /\ NextRoute(again).op = cmd.op
         /\ NextRoute(again).todo \in Seq(Aliases)
         /\ NextRoute(again).stage \in {"done", again}
         /\ NextRoute(again).stage = again => NextRoute(again).todo # <<>> /\ Len(cmd.todo) > 1
         /\ Len(NextRoute(again).todo) <= Len(cmd.todo)
<1>1. PICK todo \in Seq(Aliases) : todo = cmd.todo /\ todo # <<>>
  BY DEF CmdShape
<1>2. Tail(todo) \in Seq(Aliases) /\ Len(Tail(todo)) = Len(todo) - 1 /\ Len(todo) \in Nat \ {0}
  BY <1>1
<1>3. Len(todo) # 1 => Tail(todo) # <<>> /\ Len(todo) > 1
  <2>1. Len(todo) # 1 => Len(Tail(todo)) # 0 /\ Len(todo) > 1
    BY <1>2
  <2>2. Len(<<>>) = 0
    OBVIOUS
  <2> QED BY <2>1, <2>2
<1>4. /\ NextRoute(again).op = cmd.op /\ NextRoute(again).todo = Tail(todo)
      /\ NextRoute(again).stage = IF Len(todo) = 1 THEN "done" ELSE again
  BY <1>1 DEF NextRoute, CmdInv
<1>5. Len(Tail(todo)) <= Len(todo)
  BY <1>2
<1> QED BY <1>1, <1>2, <1>3, <1>4, <1>5

\* The shape of a command after an edit, ...
LEMMA AfterEditShape ==
  ASSUME CmdInv, CmdShape, cmd.stage \in {"edit", "editing"}, cmd' = AfterEdit
  PROVE  CmdShape' /\ cmd'.stage # "editing"
<1>1. cmd.op # "shims" /\ cmd.op \in Ops /\ (cmd.op # "uninstall" => cmd.todo # <<>>)
  BY DEF CmdShape
<1>2. CASE cmd.op = "hook"
  <2>1. cmd' = NextRoute("edit") /\ cmd.todo # <<>>
    BY <1>1, <1>2 DEF AfterEdit
  <2> QED BY <1>2, <2>1, NextRouteShape DEF CmdShape, Ops
<1>3. CASE cmd.op \in {"setup", "forward"}
  <2>1. cmd' = NextRoute("script") /\ cmd.todo # <<>>
    BY <1>1, <1>3 DEF AfterEdit
  <2> QED BY <1>3, <2>1, NextRouteShape DEF CmdShape, Ops
<1>4. CASE cmd.op = "unsetup"
  <2>1. cmd' = [cmd EXCEPT !.stage = "script"] /\ cmd.todo # <<>>
    BY <1>1, <1>4 DEF AfterEdit
  <2> QED BY <1>4, <2>1 DEF CmdShape, CmdInv, Ops
<1>5. CASE cmd.op = "uninstall"
  <2>1. cmd' = [cmd EXCEPT !.stage = "data"]
    BY <1>5 DEF AfterEdit
  <2> QED BY <1>5, <2>1 DEF CmdShape, CmdInv, Ops
<1> QED BY <1>1, <1>2, <1>3, <1>4, <1>5 DEF Ops

\* ... after a script, ...
LEMMA AfterScriptShape ==
  ASSUME CmdInv, CmdShape, cmd.stage = "wait", NEW status, cmd' = AfterScript(status)
  PROVE  CmdShape' /\ cmd'.stage # "editing"
<1>1. cmd.op # "uninstall" /\ cmd.todo # <<>> /\ cmd.op \in Ops
  BY DEF CmdShape
<1>2. CASE cmd' = [cmd EXCEPT !.stage = "failed"]
  BY <1>2 DEF CmdShape, CmdInv
<1>3. CASE cmd' = [cmd EXCEPT !.stage = "edit"] /\ cmd.op = "setup"
  BY <1>1, <1>3 DEF CmdShape, CmdInv
<1>4. CASE cmd' = NextRoute("edit")
  <2>1. /\ cmd'.op = cmd.op /\ cmd'.todo \in Seq(Aliases) /\ cmd'.stage \in {"done", "edit"}
        /\ cmd'.stage = "edit" => cmd'.todo # <<>> /\ Len(cmd.todo) > 1
        /\ Len(cmd'.todo) <= Len(cmd.todo)
    BY <1>1, <1>4, NextRouteShape
  <2>2. cmd.op = "shims" => Len(cmd.todo) <= 1 /\ Len(cmd.todo) \in Nat /\ Len(cmd'.todo) \in Nat
    BY <2>1 DEF CmdShape
  <2>3. cmd.op = "shims" => Len(cmd'.todo) <= 1 /\ cmd'.stage # "edit"
    BY <2>1, <2>2
  <2> QED BY <1>1, <2>1, <2>3 DEF CmdShape
<1> QED BY <1>2, <1>3, <1>4 DEF AfterScript

\* ... and whenever it goes on with the same route, or ends.
LEMMA StageShape ==
  ASSUME CmdInv, CmdShape, NEW stage, cmd' = [cmd EXCEPT !.stage = stage],
         \/ stage \in {"done", "failed"}
         \/ cmd.stage = "edit" /\ stage = "editing"
         \/ cmd.stage = "token" /\ stage = "script"
         \/ cmd.stage = "script" /\ stage = "wait"
  PROVE  CmdShape'
<1>1. cmd'.op = cmd.op /\ cmd'.todo = cmd.todo /\ cmd'.stage = stage
  BY DEF CmdInv
<1> QED BY <1>1 DEF CmdShape

\* What ReadConfig computes keeps what it read, and the hooks but for uninstall.
LEMMA ResultKeeps ==
  ASSUME CmdShape, FileInv, cmd.stage = "edit", Result.out = "write"
  PROVE  /\ Keeps(file, Result.text)
         /\ cmd.op # "uninstall" => KeepsHooks(file, Result.text)
         /\ cmd.op = "hook" => RunsHook(Result.text, Head(cmd.todo))
<1>1. cmd.op # "shims" /\ cmd.op \in Ops /\ (cmd.op # "uninstall" => cmd.todo # <<>>)
  BY DEF CmdShape
<1>2. file \in Seq(Line) /\ Sound(file)
  BY DEF FileInv
<1>3. cmd.op # "uninstall" => Head(cmd.todo) \in Patterns
  <2>1. cmd.todo \in Seq(Aliases)
    BY DEF CmdShape
  <2>2. cmd.todo # <<>> => Head(cmd.todo) \in Aliases
    BY <2>1
  <2> QED BY <1>1, <2>2 DEF Patterns
<1>4. CASE cmd.op = "hook"
  <2>1. Result = InstallSessionHook(file, Head(cmd.todo))
    BY <1>4 DEF Result
  <2> QED BY <1>2, <1>3, <1>4, <2>1, InstallHookKeeps
<1>5. CASE cmd.op \in {"setup", "forward"}
  <2>1. Result = InstallForward(file, Head(cmd.todo))
    BY <1>5 DEF Result
  <2> QED BY <1>2, <1>3, <1>5, <2>1, InstallForwardKeeps
<1>6. CASE cmd.op = "unsetup"
  <2>1. Result = RemoveForward(file, Head(cmd.todo))
    BY <1>6 DEF Result
  <2> QED BY <1>2, <1>3, <1>6, <2>1, RemoveForwardKeeps
<1>7. CASE cmd.op = "uninstall"
  <2>1. Result = RemoveAllClipportBlocks(file)
    BY <1>7 DEF Result
  <2> QED BY <1>2, <1>7, <2>1, RemoveAllKeeps
<1> QED BY <1>1, <1>4, <1>5, <1>6, <1>7 DEF Ops

-----------------------------------------------------------------------------
\* Reading the file keeps the invariant, ...
LEMMA ReadConfigStep ==
  ASSUME ConfigInv, ReadConfig
  PROVE  CmdShape' /\ FileInv' /\ HooksRun'
<1>0. CmdInv /\ CmdShape /\ FileInv /\ HooksRun /\ cmd.stage = "edit"
  BY DEF ConfigInv, ReadConfig
<1>1. edit.stage = "idle" /\ file' = file
  BY DEF ReadConfig, Read
<1>2. FileInv'
  BY <1>0, ResultKeeps, ReadStep DEF ReadConfig
<1>3. CASE Result.out = "write"
  <2>1. /\ cmd' = [cmd EXCEPT !.stage = "editing"] /\ hooked' = hooked
        /\ edit' = [stage |-> "backup", read |-> file, new |-> Result.text]
    BY <1>3 DEF ReadConfig, Read
  <2>2. CmdShape'
    BY <1>0, <2>1, StageShape
  <2>3. cmd'.op = cmd.op /\ cmd'.todo = cmd.todo /\ cmd'.stage = "editing" /\ edit'.new = Result.text
    BY <1>0, <2>1 DEF CmdInv
  <2>4. \A a \in hooked : RunsHook(file, a)
    BY <1>0 DEF HooksRun
  <2>5. cmd.op # "uninstall" => \A a \in hooked : RunsHook(Result.text, a)
    BY <1>0, <1>3, <2>4, ResultKeeps DEF KeepsHooks
  <2>6. cmd.op = "hook" => RunsHook(Result.text, Head(cmd.todo))
    BY <1>0, <1>3, ResultKeeps
  <2>7. HooksRun'
    BY <1>1, <2>1, <2>3, <2>4, <2>5, <2>6 DEF HooksRun
  <2> QED BY <1>2, <2>2, <2>7
<1>4. CASE Result.out = "same"
  <2>1. cmd' = AfterEdit /\ hooked' = HookDone /\ edit' = edit
    BY <1>4 DEF ReadConfig, Read
  <2>2. CmdShape'
    BY <1>0, <2>1, AfterEditShape
  <2>3. cmd.op = "hook" => RunsHook(file, Head(cmd.todo))
    BY <1>4, HookThere DEF Result
  <2>4. \A a \in hooked' : RunsHook(file, a)
    BY <1>0, <2>1, <2>3 DEF HooksRun, HookDone
  <2>5. HooksRun'
    BY <1>1, <2>1, <2>4 DEF HooksRun
  <2> QED BY <1>2, <2>2, <2>5
<1>5. CASE Result.out \notin {"write", "same"}
  <2>1. hooked' = hooked /\ edit' = edit
    BY <1>5 DEF ReadConfig, Read
  <2>2. cmd' \in {[cmd EXCEPT !.stage = "failed"], [cmd EXCEPT !.stage = "editing"]}
    BY <1>5 DEF ReadConfig
  <2>3. CmdShape'
    BY <1>0, <2>2, StageShape
  <2>4. HooksRun'
    BY <1>0, <1>1, <2>1 DEF HooksRun
  <2> QED BY <1>2, <2>3, <2>4
<1> QED BY <1>3, <1>4, <1>5

\* ... and so does writing it ...
LEMMA WriteConfigStep ==
  ASSUME ConfigInv, WriteConfig
  PROVE  CmdShape' /\ FileInv' /\ HooksRun'
<1>0. CmdInv /\ CmdShape /\ FileInv /\ HooksRun
  BY DEF ConfigInv
<1>1. edit.stage = "write" /\ file' = edit.new /\ edit' = NoEdit /\ cmd' = AfterEdit
  BY DEF WriteConfig, Write
<1>2. cmd.stage = "editing"
  BY <1>0, <1>1 DEF HooksRun
<1>3. CmdShape'
  BY <1>0, <1>1, <1>2, AfterEditShape
<1>4. FileInv'
  BY <1>0, FileStep DEF WriteConfig
<1>5. edit'.stage = "idle"
  BY <1>1 DEF NoEdit
<1>6. CASE cmd.op = "uninstall"
  <2>1. hooked' = {}
    BY <1>6 DEF WriteConfig
  <2> QED BY <1>3, <1>4, <1>5, <2>1 DEF HooksRun
<1>7. CASE cmd.op # "uninstall"
  <2>1. hooked' = HookDone
    BY <1>7 DEF WriteConfig
  <2>2. \A a \in hooked' : RunsHook(edit.new, a)
    BY <1>0, <1>1, <1>7, <2>1 DEF HooksRun, HookDone
  <2> QED BY <1>1, <1>3, <1>4, <1>5, <2>2 DEF HooksRun
<1> QED BY <1>6, <1>7

\* ... or failing to, and the user's editing.
LEMMA ConfigFailsStep ==
  ASSUME ConfigInv, ConfigFails \/ UserSaves \/ BackupConfig
  PROVE  CmdShape' /\ FileInv' /\ HooksRun'
<1>0. CmdInv /\ CmdShape /\ FileInv /\ HooksRun
  BY DEF ConfigInv
<1>1. CASE ConfigFails
  <2>1. CmdShape'
    BY <1>0, <1>1, StageShape DEF ConfigFails
  <2>2. FileInv'
    BY <1>0, <1>1, FileStep DEF ConfigFails
  <2>3. edit'.stage = "idle"
    BY <1>1 DEF ConfigFails, EditFails, WriteTorn, NoEdit
  <2>4. \A a \in hooked' : RunsHook(file', a)
    <3>1. CASE EditFails
      BY <1>0, <1>1, <3>1 DEF ConfigFails, EditFails, HooksRun
    <3>2. CASE WriteTorn
      BY <1>1, <3>2 DEF ConfigFails, WriteTorn
    <3> QED BY <1>1, <3>1, <3>2 DEF ConfigFails
  <2> QED BY <2>1, <2>2, <2>3, <2>4 DEF HooksRun
<1>2. CASE UserSaves
  <2>1. cmd' = cmd /\ edit' = edit /\ hooked' = {}
    BY <1>2 DEF UserSaves, Save
  <2>2. FileInv'
    BY <1>0, <1>2, FileStep DEF UserSaves
  <2> QED BY <1>0, <2>1, <2>2 DEF CmdShape, HooksRun
<1>3. CASE BackupConfig
  <2>1. cmd' = cmd /\ hooked' = hooked /\ file' = file /\ edit' = [edit EXCEPT !.stage = "write"]
        /\ edit.stage # "idle"
    BY <1>3 DEF BackupConfig, Backup, setupVars
  <2>2. FileInv'
    BY <1>0, <1>3, FileStep DEF BackupConfig
  <2>3. edit'.new = edit.new
    BY <1>0, <2>1 DEF FileInv
  <2> QED BY <1>0, <2>1, <2>2, <2>3 DEF CmdShape, HooksRun
<1> QED BY <1>1, <1>2, <1>3

\* Nothing else is possible while an edit is in progress, or touches the file.
LEMMA OtherStep ==
  ASSUME ConfigInv, UNCHANGED <<file, edit, hooked>>, FileInv',
         cmd' = cmd \/ cmd.stage # "editing", CmdShape'
  PROVE  CmdShape' /\ FileInv' /\ HooksRun'
<1>1. HooksRun
  BY DEF ConfigInv
<1>2. HooksRun'
  BY <1>1 DEF HooksRun
<1> QED BY <1>2

\* ConfigInv is inductive.
LEMMA ConfigInvStep ==
  ASSUME ConfigInv, CmdInv', [Next]_vars
  PROVE  ConfigInv'
<1>0. CmdInv /\ CmdShape /\ FileInv
  BY DEF ConfigInv
<1> SUFFICES CmdShape' /\ FileInv' /\ HooksRun'
  BY DEF ConfigInv
<1>f. UNCHANGED fileVars => FileInv' /\ UNCHANGED <<file, edit>>
  BY <1>0, FileStep DEF fileVars
<1>1. ASSUME NEW op \in Ops, Begin(op) PROVE CmdShape' /\ FileInv' /\ HooksRun'
  <2>1. PICK purge \in BOOLEAN, todo \in Todos(op) :
          cmd' = [op |-> op, todo |-> todo, purge |-> purge, stage |-> First(op)]
    BY <1>1 DEF Begin
  <2>2. cmd'.op = op /\ cmd'.todo = todo /\ cmd'.stage = First(op)
    BY <2>1
  <2>3. todo \in Seq(Aliases) /\ (op # "uninstall" => todo # <<>>) /\ (op = "shims" => Len(todo) <= 1)
    BY <2>1, TodosFacts, Zenon
  <2>4. CmdShape'
    BY <2>2, <2>3 DEF CmdShape, First
  <2>5. UNCHANGED fileVars /\ UNCHANGED hooked /\ cmd.stage # "editing"
    BY <1>1 DEF Begin
  <2> QED BY <1>f, <2>4, <2>5, OtherStep
<1>2. CASE ReadConfig
  BY <1>2, ReadConfigStep
<1>3. CASE WriteConfig
  BY <1>3, WriteConfigStep
<1>4. CASE ConfigFails \/ UserSaves \/ BackupConfig
  BY <1>4, ConfigFailsStep
<1>5. CASE LoadOrCreate
  <2>1. UNCHANGED fileVars /\ UNCHANGED hooked /\ cmd.stage = "token" /\ cmd' = [cmd EXCEPT !.stage = "script"]
    BY <1>5 DEF LoadOrCreate
  <2>2. CmdShape'
    BY <1>0, <2>1, StageShape
  <2> QED BY <1>f, <2>1, <2>2, OtherStep
<1>6. CASE RemoveData
  <2>1. UNCHANGED fileVars /\ UNCHANGED hooked /\ cmd.stage = "data"
        /\ cmd' \in {[cmd EXCEPT !.stage = "done"], [cmd EXCEPT !.stage = "failed"]}
    BY <1>6 DEF RemoveData
  <2>2. CmdShape'
    BY <1>0, <2>1, StageShape
  <2> QED BY <1>f, <2>1, <2>2, OtherStep
<1>7. ASSUME NEW s \in Scripts, RunScript(s) \/ Finished(s) \/ Lose(s)
      PROVE  CmdShape' /\ FileInv' /\ HooksRun'
  <2>1. UNCHANGED fileVars /\ UNCHANGED hooked /\ cmd.stage \in {"script", "wait"}
    BY <1>7 DEF RunScript, Finished, Lose
  <2>2. CASE RunScript(s)
    <3>1. CmdShape'
      BY <1>0, <2>2, StageShape DEF RunScript
    <3> QED BY <1>f, <2>1, <3>1, OtherStep
  <2>3. CASE Finished(s)
    <3>1. CmdShape'
      BY <1>0, <2>3, AfterScriptShape DEF Finished
    <3> QED BY <1>f, <2>1, <3>1, OtherStep
  <2>4. CASE Lose(s)
    <3>1. CmdShape'
      BY <1>0, <2>4, StageShape DEF Lose
    <3> QED BY <1>f, <2>1, <3>1, OtherStep
  <2> QED BY <1>7, <2>2, <2>3, <2>4
<1>8. CASE Remote \/ Other \/ UNCHANGED vars
  <2>1. UNCHANGED fileVars /\ UNCHANGED hooked /\ cmd' = cmd
    BY <1>8 DEF Remote, Other, setupVars, vars, fileVars
  <2>2. CmdShape'
    BY <1>0, <2>1 DEF CmdShape
  <2> QED BY <1>f, <2>1, <2>2, OtherStep
<1> QED BY <1>1, <1>2, <1>3, <1>4, <1>5, <1>6, <1>7, <1>8 DEF Next, Clipctl

\* In every reachable state the file is sound and ssh runs the hooks reported.
THEOREM ConfigInvariant == Spec => []ConfigInv
<1>1. Init => ConfigInv
  <2> SUFFICES ASSUME Init PROVE ConfigInv
    OBVIOUS
  <2>1. CmdInv
    BY BoundsAssumption DEF Init, CmdInv, Keys
  <2>2. FileInv
    BY FileStart DEF Init
  <2>3. CmdShape
    <3>1. cmd.op = "uninstall" /\ cmd.todo = <<>> /\ cmd.stage = "idle"
      BY DEF Init
    <3>2. <<>> \in Seq(Aliases)
      OBVIOUS
    <3> QED BY <3>1, <3>2 DEF CmdShape, Ops
  <2>4. HooksRun
    BY DEF Init, FileInit, NoEdit, HooksRun
  <2> QED BY <2>1, <2>2, <2>3, <2>4 DEF ConfigInv
<1>2. ConfigInv /\ CmdInv' /\ [Next]_vars => ConfigInv'
  BY ConfigInvStep
<1> QED BY <1>1, <1>2, CmdInvariant, PTL DEF Spec

\* Unless a write was torn or raced with the user's editor, the user's own lines
\* are all in the file and in their order (sshsetup_test.go:166), after any
\* number of commands, failed or not, and for any files and sections of the user.
THEOREM UserLinesKeptAlways == Spec => []UserLinesKept
<1>1. ConfigInv => UserLinesKept
  BY FileInvHolds DEF ConfigInv
<1> QED BY <1>1, ConfigInvariant, PTL

\* The forward of an alias always stands before the user's sections for it, and
\* once, also after torn and raced writes (sshsetup_test.go:86); and ssh runs
\* every hook that was reported installed (session.go:50-53).
THEOREM OursComeFirstAlways == Spec => []OursComeFirst
<1>1. ConfigInv => OursComeFirst
  BY FileInvHolds DEF ConfigInv, HooksRun, OursComeFirst
<1> QED BY <1>1, ConfigInvariant, PTL

-----------------------------------------------------------------------------
(* Setup works                                                             *)

\* The script that this Mac waits for is that of the command, with its token.
ScriptInv ==
  /\ \A s \in Scripts : script[s].waited => cmd.stage = "wait" /\ script[s].key = key
  /\ \A s, u \in Scripts : script[s].waited /\ script[u].waited => s = u
KeyInv ==
  cmd.op = "setup" =>
    /\ cmd.stage # "data"
    /\ cmd.stage \in {"script", "wait", "edit", "editing", "done"} => key # 0

\* Setup runs, and nobody interferes.
Undisturbed == cmd.op = "setup" /\ ~disturbed
NoUninstall == Undisturbed => \A s \in Scripts : script[s].stage \notin UninstallStages

\* What the account has once a script has come so far, or has succeeded.
Reached(s) ==
  /\ script[s].stage \in {"chmod", "shim", "links", "unlock", "ok"} => account.token = key
  /\ script[s].stage \in {"links", "unlock", "ok"} => account.shim = "mac"
  /\ script[s].stage \in {"unlock", "ok"} => account.links = "ours"
AccountSet == account.token = key /\ account.shim = "mac" /\ account.links = "ours"
AccountInv ==
  Undisturbed =>
    /\ cmd.stage \in {"edit", "editing", "done"} => AccountSet
    /\ \A s \in Scripts : script[s].waited => Reached(s)

\* The routes done are the first ones, and have their forwards; the route in
\* hand will have its own once the edit is written.
RoutesDone == Len(Routes) - Len(cmd.todo)
RestOfRoutes ==
  /\ RoutesDone \in Nat
  /\ \A i \in 1..Len(cmd.todo) : cmd.todo[i] = Routes[RoutesDone + i]
  /\ cmd.stage = "done" => cmd.todo = <<>>
ForwardsDone ==
  /\ \A i \in 1..RoutesDone : Forwarded(file, Routes[i])
  /\ edit.stage # "idle" => \A i \in 1..RoutesDone + 1 : Forwarded(edit.new, Routes[i])
RoutesInv ==
  Undisturbed /\ cmd.stage \notin {"idle", "failed"} => RestOfRoutes /\ ForwardsDone

SetupInv == ScriptInv /\ KeyInv /\ NoUninstall /\ AccountInv /\ RoutesInv

-----------------------------------------------------------------------------
\* A step of a script leaves what it is for, and an install is not a removal.
LEMMA RemoteStep ==
  ASSUME RemoteTypeOK, NEW s \in Scripts, ScriptStep(s) \/ Cut(s) \/ Kill(s), NEW u \in Scripts
  PROVE  /\ script'[u].waited => script[u].waited /\ script'[u].key = script[u].key
         /\ script'[u].stage \in UninstallStages => script[u].stage \in UninstallStages
         /\ u # s => script'[u] = script[u]
<1> USE DEF RemoteTypeOK, Script, InstallStages, UninstallStages, NoScript, Goto, End
<1>1. CASE Acquire(s)
  BY <1>1 DEF Acquire
<1>2. CASE Busy(s)
  BY <1>2 DEF Busy
<1>3. CASE Check(s)
  BY <1>3 DEF Check
<1>4. CASE Publish(s)
  BY <1>4 DEF Publish
<1>5. CASE Chmod(s)
  BY <1>5 DEF Chmod
<1>6. CASE PlaceShim(s)
  BY <1>6 DEF PlaceShim
<1>7. CASE Link(s)
  BY <1>7 DEF Link
<1>8. CASE Cleanup(s)
  BY <1>8 DEF Cleanup
<1>9. CASE Unlink(s)
  BY <1>9 DEF Unlink
<1>10. CASE RemoveShim(s)
  BY <1>10 DEF RemoveShim
<1>11. CASE RemoveToken(s)
  BY <1>11 DEF RemoveToken
<1>12. CASE Cut(s)
  BY <1>12 DEF Cut
<1>13. CASE Kill(s)
  BY <1>13 DEF Kill
<1> QED BY <1>1, <1>2, <1>3, <1>4, <1>5, <1>6, <1>7, <1>8, <1>9, <1>10, <1>11, <1>12, <1>13
           DEF ScriptStep

\* No install script of anybody undoes what the account has of this Mac: one
\* that has checked the token has this Mac's, or the account has none.
LEMMA AccountStable ==
  ASSUME RemoteTypeOK, TokenChecked, NEW s \in Scripts, ScriptStep(s) \/ Cut(s) \/ Kill(s),
         script[s].stage \notin UninstallStages, key \in Keys
  PROVE  /\ account.token = key => account'.token = key
         /\ account.token = key /\ key # 0 /\ account.shim = "mac" => account'.shim = "mac"
         /\ account.links = "ours" => account'.links = "ours"
<1> USE DEF RemoteTypeOK, Account
<1>0. None # key
  BY TokensAssumption
<1>1. CASE Publish(s)
  BY <1>0, <1>1 DEF Publish
<1>2. CASE PlaceShim(s)
  <2>1. account' = [account EXCEPT !.shim = Owner(script[s].key)]
    BY <1>2 DEF PlaceShim
  <2>2. account.token \in {None, script[s].key}
    BY <1>2 DEF PlaceShim, TokenChecked, Checked
  <2>3. account.token = key /\ key # 0 => Owner(script[s].key) = "mac"
    BY <1>0, <2>2 DEF Owner
  <2> QED BY <2>1, <2>3
<1>3. CASE Link(s)
  BY <1>3 DEF Link
<1>4. CASE Acquire(s) \/ Cleanup(s) \/ Kill(s)
  BY <1>4 DEF Acquire, Cleanup, Kill
<1>5. CASE Busy(s) \/ Check(s) \/ Chmod(s) \/ Cut(s)
  BY <1>5 DEF Busy, Check, Chmod, Cut
<1>6. ~Unlink(s) /\ ~RemoveShim(s) /\ ~RemoveToken(s)
  BY DEF Unlink, RemoveShim, RemoveToken, UninstallStages
<1> QED BY <1>1, <1>2, <1>3, <1>4, <1>5, <1>6 DEF ScriptStep

\* The account has what a script has come to.
LEMMA ReachedStep ==
  ASSUME RemoteTypeOK, TokenChecked, NEW s \in Scripts, ScriptStep(s) \/ Cut(s) \/ Kill(s),
         script[s].stage \notin UninstallStages, key \in Keys, key # 0, key' = key,
         NEW u \in Scripts, script[u].waited, script[u].key = key, Reached(u)
  PROVE  Reached(u)'
<1>0. /\ account.token = key => account'.token = key
      /\ account.token = key /\ account.shim = "mac" => account'.shim = "mac"
      /\ account.links = "ours" => account'.links = "ours"
  BY AccountStable
<1>1. CASE u # s
  <2>1. script'[u] = script[u]
    BY <1>1, RemoteStep
  <2> QED BY <1>0, <2>1 DEF Reached
<1>2. CASE u = s
  <2> USE <1>0, <1>2 DEF RemoteTypeOK, Account, Script, Goto, End, NoScript
  <2>1. CASE Acquire(s)
    BY <2>1 DEF Acquire, Reached
  <2>2. CASE Busy(s)
    BY <2>2 DEF Busy, Reached
  <2>3. CASE Check(s)
    BY <2>3 DEF Check, Reached
  <2>4. CASE Publish(s)
    <3>1. account.token \in {None, key}
      BY <2>4 DEF Publish, TokenChecked, Checked
    <3>2. account'.token = key
      BY <2>4, <3>1 DEF Publish
    <3>3. script'[u].stage = "chmod"
      BY <2>4 DEF Publish
    <3> QED BY <3>2, <3>3 DEF Reached
  <2>5. CASE Chmod(s)
    BY <2>5 DEF Chmod, Reached
  <2>6. CASE PlaceShim(s)
    BY <2>6 DEF PlaceShim, Reached, Owner
  <2>7. CASE Link(s)
    BY <2>7 DEF Link, Reached
  <2>8. CASE Cleanup(s)
    BY <2>8 DEF Cleanup, Reached
  <2>9. CASE Cut(s)
    BY <2>9 DEF Cut, Reached, InstallStages, UninstallStages
  <2>10. CASE Kill(s)
    BY <2>10 DEF Kill, Reached
  <2>11. ~Unlink(s) /\ ~RemoveShim(s) /\ ~RemoveToken(s)
    BY DEF Unlink, RemoveShim, RemoveToken, UninstallStages
  <2> QED BY <2>1, <2>2, <2>3, <2>4, <2>5, <2>6, <2>7, <2>8, <2>9, <2>10, <2>11 DEF ScriptStep
<1> QED BY <1>1, <1>2

-----------------------------------------------------------------------------
\* The steps of a script.
LEMMA RemoteKeepsSetup ==
  ASSUME RemoteTypeOK, TokenChecked, ConfigInv, SetupInv, Remote
  PROVE  SetupInv'
<1>0. UNCHANGED <<cmd, key, disturbed, file, edit>> /\ key \in Keys
  BY DEF Remote, setupVars, fileVars, ConfigInv, CmdInv
<1>1. PICK s \in Scripts : ScriptStep(s) \/ Cut(s) \/ Kill(s)
  BY DEF Remote
<1>2. \A u \in Scripts :
        /\ script'[u].waited => script[u].waited /\ script'[u].key = script[u].key
        /\ script'[u].stage \in UninstallStages => script[u].stage \in UninstallStages
  BY <1>1, RemoteStep
<1>3. ScriptInv' /\ KeyInv' /\ NoUninstall'
  BY <1>0, <1>2 DEF SetupInv, ScriptInv, KeyInv, NoUninstall, Undisturbed
<1>4. RoutesInv'
  BY <1>0 DEF SetupInv, RoutesInv, Undisturbed, RestOfRoutes, ForwardsDone, RoutesDone
<1>5. ASSUME Undisturbed
      PROVE  /\ cmd.stage \in {"edit", "editing", "done"} => AccountSet'
             /\ \A u \in Scripts : script'[u].waited => Reached(u)'
  <2>1. script[s].stage \notin UninstallStages
    BY <1>5 DEF SetupInv, NoUninstall
  <2>2. cmd.stage \in {"edit", "editing", "done", "wait"} => key # 0
    BY <1>5 DEF SetupInv, KeyInv, Undisturbed
  <2>3. cmd.stage \in {"edit", "editing", "done"} => AccountSet'
    BY <1>0, <1>1, <1>5, <2>1, <2>2, AccountStable DEF SetupInv, AccountInv, AccountSet
  <2>4. ASSUME NEW u \in Scripts, script'[u].waited PROVE Reached(u)'
    <3>1. script[u].waited /\ script[u].key = key /\ cmd.stage = "wait"
      BY <1>2, <2>4 DEF SetupInv, ScriptInv
    <3>2. Reached(u)
      BY <1>5, <3>1 DEF SetupInv, AccountInv
    <3> QED BY <1>0, <1>1, <2>1, <2>2, <3>1, <3>2, ReachedStep
  <2> QED BY <2>3, <2>4
<1>6. AccountInv'
  BY <1>0, <1>5 DEF AccountInv, Undisturbed
<1> QED BY <1>3, <1>4, <1>6 DEF SetupInv

\* The scripts that start and end, and those of the other client.
LEMMA ScriptsKeepSetup ==
  ASSUME RemoteTypeOK, ConfigInv, SetupInv, NEW s \in Scripts,
         RunScript(s) \/ Finished(s) \/ Lose(s) \/ Other
  PROVE  SetupInv'
<1> USE DEF RemoteTypeOK, Script
<1>0. UNCHANGED <<key, file, edit>> /\ account' = account
  BY DEF RunScript, RunOwn, Run, Finished, Collect, Lose, Abandon, Other, RunOther, fileVars
<1>0a. CmdInv /\ CmdShape /\ ScriptInv /\ KeyInv /\ NoUninstall /\ AccountInv /\ RoutesInv
  BY DEF ConfigInv, SetupInv
<1>1. CASE RunScript(s)
  <2>1. cmd.stage = "script" /\ cmd' = [cmd EXCEPT !.stage = "wait"] /\ disturbed' = disturbed
    BY <1>1 DEF RunScript
  <2>2. cmd'.op = cmd.op /\ cmd'.stage = "wait" /\ cmd'.todo = cmd.todo
    BY <1>0a, <2>1 DEF CmdInv
  <2>3. script' = [script EXCEPT ![s] = [stage |-> IF cmd.op = "unsetup" THEN "rmlinks" ELSE "lock",
                                         key |-> key, removeToken |-> cmd.purge, waited |-> TRUE]]
    BY <1>1 DEF RunScript, RunOwn, Run
  <2>4. \A u \in Scripts : ~script[u].waited
    BY <1>0a, <2>1 DEF ScriptInv
  <2>5. \A u \in Scripts : u # s => script'[u] = script[u]
    BY <2>3
  <2>6. script'[s].stage = (IF cmd.op = "unsetup" THEN "rmlinks" ELSE "lock") /\ script'[s].key = key
    BY <2>3
  <2>7. ScriptInv'
    BY <1>0, <2>2, <2>4, <2>5, <2>6 DEF ScriptInv
  <2>8. KeyInv'
    BY <1>0, <1>0a, <2>1, <2>2 DEF KeyInv
  <2>9. NoUninstall'
    BY <1>0a, <2>1, <2>2, <2>5, <2>6 DEF NoUninstall, Undisturbed, UninstallStages
  <2>10. AccountInv'
    <3>1. Undisturbed' => Reached(s)'
      BY <2>2, <2>6 DEF Undisturbed, Reached
    <3> QED BY <2>2, <2>4, <2>5, <3>1 DEF AccountInv
  <2>11. RoutesInv'
    BY <1>0, <1>0a, <2>1, <2>2 DEF RoutesInv, Undisturbed, RestOfRoutes, ForwardsDone, RoutesDone
  <2> QED BY <2>7, <2>8, <2>9, <2>10, <2>11 DEF SetupInv
<1>2. CASE Finished(s)
  <2>1. /\ cmd.stage = "wait" /\ cmd' = AfterScript(script[s].stage) /\ disturbed' = disturbed
        /\ script[s].waited /\ script[s].stage \in {"ok", "bad"}
        /\ script' = [script EXCEPT ![s] = NoScript]
    BY <1>2 DEF Finished, Collect
  <2>2. \A u \in Scripts : ~script'[u].waited
    BY <1>0a, <2>1 DEF ScriptInv, NoScript
  <2>3. cmd'.op = cmd.op
    <3>1. \A again : NextRoute(again).op = cmd.op
      BY <1>0a DEF NextRoute, CmdInv
    <3> QED BY <1>0a, <2>1, <3>1 DEF AfterScript, CmdInv
  <2>4. cmd.op = "setup" => \/ cmd' = [cmd EXCEPT !.stage = "failed"]
                            \/ (cmd' = [cmd EXCEPT !.stage = "edit"] /\ script[s].stage = "ok")
    <3>1. CASE script[s].stage = "bad"
      BY <2>1, <3>1 DEF AfterScript
    <3>2. CASE script[s].stage = "ok"
      <4>1. "ok" # "bad"
        OBVIOUS
      <4> QED BY <2>1, <3>2, <4>1 DEF AfterScript
    <3> QED BY <2>1, <3>1, <3>2
  <2>5. cmd.op = "setup" => cmd'.todo = cmd.todo /\ (\/ cmd'.stage = "failed"
                            \/ (cmd'.stage = "edit" /\ script[s].stage = "ok"))
    BY <1>0a, <2>4 DEF CmdInv
  <2>6. ScriptInv'
    BY <2>2 DEF ScriptInv
  <2>7. KeyInv'
    BY <1>0, <1>0a, <2>1, <2>3, <2>5 DEF KeyInv
  <2>8. NoUninstall'
    BY <1>0a, <2>1, <2>3 DEF NoUninstall, Undisturbed, UninstallStages, NoScript
  <2>9. AccountInv'
    <3>1. Undisturbed' => Undisturbed
      BY <2>1, <2>3 DEF Undisturbed
    <3>2. Undisturbed /\ script[s].stage = "ok" => AccountSet
      BY <1>0a, <2>1 DEF AccountInv, Reached, AccountSet
    <3>3. Undisturbed' /\ cmd'.stage \in {"edit", "editing", "done"} => AccountSet'
      BY <1>0, <2>3, <2>5, <3>1, <3>2 DEF Undisturbed, AccountSet
    <3> QED BY <2>2, <3>3 DEF AccountInv
  <2>10. RoutesInv'
    <3>1. ASSUME Undisturbed', cmd'.stage # "failed" PROVE RestOfRoutes' /\ ForwardsDone'
      <4>1. Undisturbed /\ cmd'.todo = cmd.todo /\ cmd'.stage = "edit"
        BY <2>1, <2>3, <2>5, <3>1 DEF Undisturbed
      <4>2. RestOfRoutes /\ ForwardsDone
        BY <1>0a, <2>1, <4>1 DEF RoutesInv
      <4> QED BY <1>0, <4>1, <4>2 DEF RestOfRoutes, ForwardsDone, RoutesDone
    <3> QED BY <3>1 DEF RoutesInv
  <2> QED BY <2>6, <2>7, <2>8, <2>9, <2>10 DEF SetupInv
<1>3. CASE Lose(s)
  <2>1. /\ cmd.stage = "wait" /\ cmd' = [cmd EXCEPT !.stage = "failed"] /\ disturbed' = disturbed
        /\ script[s].waited /\ script' = [script EXCEPT ![s].waited = FALSE]
    BY <1>3 DEF Lose, Abandon
  <2>2. cmd'.op = cmd.op /\ cmd'.stage = "failed"
    BY <1>0a, <2>1 DEF CmdInv
  <2>3. \A u \in Scripts : ~script'[u].waited /\ script'[u].stage = script[u].stage
    BY <1>0a, <2>1 DEF ScriptInv
  <2>4. ScriptInv' /\ KeyInv' /\ AccountInv' /\ RoutesInv'
    BY <2>2, <2>3 DEF ScriptInv, KeyInv, AccountInv, RoutesInv
  <2>5. NoUninstall'
    BY <1>0a, <2>1, <2>2, <2>3 DEF NoUninstall, Undisturbed
  <2> QED BY <2>4, <2>5 DEF SetupInv
<1>4. CASE Other
  <2>1. /\ cmd' = cmd
        /\ disturbed' = (disturbed \/ \E u \in Scripts : script'[u].stage = "rmlinks" /\ script[u].stage = "none")
    BY <1>4 DEF Other
  <2>2. PICK u \in Scripts : RunOther(u)
    BY <1>4 DEF Other
  <2>3. PICK first \in {"lock", "rmlinks"} :
          /\ script[u].stage = "none"
          /\ script' = [script EXCEPT ![u] = [stage |-> first, key |-> 0, removeToken |-> TRUE, waited |-> FALSE]]
    BY <2>2 DEF RunOther, Run
  <2>4. \A v \in Scripts : v # u => script'[v] = script[v]
    BY <2>3
  <2>5. script'[u].stage = first /\ ~script'[u].waited
    BY <2>3
  <2>6. ScriptInv'
    BY <1>0, <1>0a, <2>1, <2>4, <2>5 DEF ScriptInv
  <2>7. KeyInv'
    BY <1>0, <1>0a, <2>1 DEF KeyInv
  <2>8. NoUninstall'
    BY <1>0a, <2>1, <2>3, <2>4, <2>5 DEF NoUninstall, Undisturbed, UninstallStages
  <2>9. AccountInv'
    BY <1>0, <1>0a, <2>1, <2>4, <2>5 DEF AccountInv, Undisturbed, AccountSet, Reached
  <2>10. RoutesInv'
    BY <1>0, <1>0a, <2>1 DEF RoutesInv, Undisturbed, RestOfRoutes, ForwardsDone, RoutesDone
  <2> QED BY <2>6, <2>7, <2>8, <2>9, <2>10 DEF SetupInv
<1> QED BY <1>1, <1>2, <1>3, <1>4

-----------------------------------------------------------------------------
\* The route in hand is the one after those done.
LEMMA RouteInHand ==
  ASSUME CmdShape, RestOfRoutes, cmd.todo # <<>>
  PROVE  /\ Head(cmd.todo) = Routes[RoutesDone + 1] /\ RoutesDone \in Nat
         /\ \A i \in 1..RoutesDone + 1 : Routes[i] \in Patterns
<1>1. PICK todo \in Seq(Aliases) : todo = cmd.todo /\ todo # <<>>
  BY DEF CmdShape
<1>2. Head(todo) = todo[1] /\ Len(todo) \in Nat \ {0}
  BY <1>1
<1>3. Routes \in Seq(Aliases) /\ Len(Routes) \in Nat
  BY RoutesAssumption
<1>4. Head(cmd.todo) = Routes[RoutesDone + 1] /\ RoutesDone \in Nat
  BY <1>1, <1>2 DEF RestOfRoutes
<1>5. RoutesDone + 1 <= Len(Routes)
  BY <1>1, <1>2, <1>3 DEF RoutesDone
<1>6. \A i \in 1..RoutesDone + 1 : Routes[i] \in Patterns
  BY <1>3, <1>4, <1>5 DEF Patterns
<1> QED BY <1>4, <1>6

\* Setup goes on to the next route, or has done all.
LEMMA RoutesNext ==
  ASSUME CmdInv, CmdShape, RestOfRoutes, cmd.todo # <<>>, cmd' = NextRoute("script")
  PROVE  RestOfRoutes' /\ RoutesDone' = RoutesDone + 1
<1>1. PICK todo \in Seq(Aliases) : todo = cmd.todo /\ todo # <<>>
  BY DEF CmdShape
<1>2. PICK rest : rest = Tail(todo)
  OBVIOUS
<1>3. /\ Len(rest) = Len(todo) - 1 /\ Len(todo) \in Nat \ {0}
      /\ \A i \in 1..Len(todo) - 1 : rest[i] = todo[i + 1]
      /\ rest \in Seq(Aliases)
  BY <1>1, <1>2
<1>4. cmd'.todo = rest /\ cmd'.stage = IF Len(todo) = 1 THEN "done" ELSE "script"
  BY <1>1, <1>2 DEF NextRoute, CmdInv
<1>5. Len(Routes) \in Nat
  BY RoutesAssumption
<1>6. RoutesDone' = RoutesDone + 1
  <2>1. RoutesDone' = Len(Routes) - Len(rest) /\ RoutesDone = Len(Routes) - Len(todo)
    BY <1>1, <1>4 DEF RoutesDone
  <2> QED BY <1>3, <1>5, <2>1
<1>7. RoutesDone \in Nat /\ RoutesDone' \in Nat
  BY <1>6 DEF RestOfRoutes
<1>8. ASSUME NEW i \in 1..Len(rest) PROVE rest[i] = Routes[RoutesDone' + i]
  <2>1. i + 1 \in 1..Len(todo) /\ i \in 1..Len(todo) - 1
    BY <1>3
  <2>2. todo[i + 1] = Routes[RoutesDone + (i + 1)]
    BY <1>1, <2>1 DEF RestOfRoutes
  <2>3. RoutesDone + (i + 1) = RoutesDone' + i
    BY <1>6, <1>7
  <2> QED BY <1>3, <2>1, <2>2, <2>3
<1>9. cmd'.stage = "done" => cmd'.todo = <<>>
  <2>1. Len(todo) = 1 => Len(rest) = 0
    BY <1>3
  <2>2. Len(todo) = 1 => rest = <<>>
    BY <1>3, <2>1
  <2> QED BY <1>4, <2>2
<1>10. /\ \A i \in 1..Len(cmd'.todo) : cmd'.todo[i] = Routes[RoutesDone' + i]
       /\ RoutesDone' \in Nat
  BY <1>4, <1>7, <1>8
<1>11. Routes' = Routes
  OBVIOUS
<1> QED BY <1>6, <1>9, <1>10, <1>11 DEF RestOfRoutes

\* A command does not turn into another.
LEMMA SameOp ==
  ASSUME CmdInv, NEW stage
  PROVE  AfterEdit.op = cmd.op /\ [cmd EXCEPT !.stage = stage].op = cmd.op
<1>1. \A again : NextRoute(again).op = cmd.op /\ [cmd EXCEPT !.stage = again].op = cmd.op
  BY DEF NextRoute, CmdInv
<1> QED BY <1>1 DEF AfterEdit

\* An edit of the file leaves the account and the scripts.
LEMMA EditLeavesAccount ==
  ASSUME SetupInv, UNCHANGED <<account, script, key, disturbed>>, cmd.stage # "wait",
         cmd'.op = cmd.op,
         cmd.op = "setup" => /\ cmd.stage \in {"edit", "editing"}
                             /\ cmd'.stage \in {"failed", "editing", "script", "done"}
  PROVE  ScriptInv' /\ KeyInv' /\ NoUninstall' /\ AccountInv'
<1>0. ScriptInv /\ KeyInv /\ NoUninstall /\ AccountInv
  BY DEF SetupInv
<1>1. \A s \in Scripts : ~script'[s].waited
  BY <1>0 DEF ScriptInv
<1>2. ScriptInv'
  BY <1>1 DEF ScriptInv
<1>3. KeyInv'
  BY <1>0 DEF KeyInv
<1>4. NoUninstall'
  BY <1>0 DEF NoUninstall, Undisturbed
<1>5. AccountInv'
  BY <1>0, <1>1 DEF AccountInv, Undisturbed, AccountSet
<1> QED BY <1>2, <1>3, <1>4, <1>5

\* What ReadConfig of setup computes has the forward of the route in hand, and
\* all that were there.
LEMMA ReadForwards ==
  ASSUME ConfigInv, Undisturbed, RestOfRoutes, ForwardsDone, cmd.stage = "edit"
  PROVE  \A t : \/ Result.out = "write" /\ t = Result.text
                \/ Result.out = "same" /\ t = file
                => \A i \in 1..RoutesDone + 1 : Forwarded(t, Routes[i])
<1>0. CmdShape /\ file \in Seq(Line) /\ Sound(file)
  BY DEF ConfigInv, FileInv
<1>1. cmd.todo # <<>> /\ cmd.op = "setup"
  BY <1>0 DEF CmdShape, Undisturbed
<1>2. PICK a : a = Head(cmd.todo)
  OBVIOUS
<1>3. a = Routes[RoutesDone + 1] /\ RoutesDone \in Nat /\ \A i \in 1..RoutesDone + 1 : Routes[i] \in Patterns
  BY <1>0, <1>1, <1>2, RouteInHand
<1>4. a \in Patterns
  BY <1>3
<1>5. Result = InstallForward(file, a)
  BY <1>1, <1>2 DEF Result
<1>6. /\ Result.out = "write" => Forwarded(Result.text, a) /\ KeepsForwards(file, Result.text)
      /\ Result.out = "same" => Forwarded(file, a)
  BY <1>0, <1>4, <1>5, InstallForwarded
<1>7. \A i \in 1..RoutesDone : Forwarded(file, Routes[i])
  BY DEF ForwardsDone
<1> SUFFICES ASSUME NEW t, \/ Result.out = "write" /\ t = Result.text
                           \/ Result.out = "same" /\ t = file,
                    NEW i \in 1..RoutesDone + 1
             PROVE  Forwarded(t, Routes[i])
  OBVIOUS
<1>8. Routes[i] \in Patterns
  BY <1>3
<1>9. CASE i = RoutesDone + 1
  BY <1>3, <1>6, <1>9
<1>10. CASE i # RoutesDone + 1
  <2>1. i \in 1..RoutesDone
    BY <1>3, <1>10
  <2>2. Forwarded(file, Routes[i])
    BY <1>7, <2>1
  <2> QED BY <1>6, <1>8, <2>2 DEF KeepsForwards
<1> QED BY <1>9, <1>10

\* Setup is done with a route: its forward is there.
LEMMA RouteDone ==
  ASSUME CmdInv, CmdShape, RestOfRoutes, cmd.todo # <<>>, cmd' = NextRoute("script"),
         \A i \in 1..RoutesDone + 1 : Forwarded(file', Routes[i]), edit'.stage = "idle"
  PROVE  RestOfRoutes' /\ ForwardsDone'
<1>1. RestOfRoutes' /\ RoutesDone' = RoutesDone + 1
  BY RoutesNext
<1>2. \A i \in 1..RoutesDone' : Forwarded(file', Routes[i])
  BY <1>1
<1>3. \A i : Forwarded(file, Routes[i])' <=> Forwarded(file', Routes[i])
  BY DEF Forwarded, ForwardAt
<1> QED BY <1>1, <1>2, <1>3 DEF ForwardsDone

\* The edits, their failures, and the user's editing.
LEMMA EditKeepsSetup ==
  ASSUME ConfigInv, SetupInv,
         ReadConfig \/ BackupConfig \/ WriteConfig \/ ConfigFails \/ UserSaves
  PROVE  SetupInv'
<1>0. /\ CmdInv /\ CmdShape /\ FileInv /\ HooksRun
      /\ ScriptInv /\ KeyInv /\ NoUninstall /\ AccountInv /\ RoutesInv
  BY DEF ConfigInv, SetupInv
<1>1. UNCHANGED <<account, script, key>>
  BY DEF ReadConfig, BackupConfig, WriteConfig, ConfigFails, UserSaves, setupVars, remoteVars
<1>2. CASE ReadConfig
  <2>1. /\ cmd.stage = "edit" /\ disturbed' = disturbed /\ edit.stage = "idle" /\ file' = file
        /\ cmd' = CASE Result.out = "error" -> [cmd EXCEPT !.stage = "failed"]
                    [] Result.out = "same" -> AfterEdit
                    [] OTHER -> [cmd EXCEPT !.stage = "editing"]
    BY <1>2 DEF ReadConfig, Read
  <2>2. cmd'.op = cmd.op
    BY <1>0, <2>1, SameOp
  <2>3. cmd.op = "setup" => cmd.todo # <<>>
    BY <1>0, <2>1 DEF CmdShape
  <2>4. CASE Result.out = "write"
    <3>1. /\ cmd' = [cmd EXCEPT !.stage = "editing"]
          /\ edit' = [stage |-> "backup", read |-> file, new |-> Result.text]
      BY <1>2, <2>1, <2>4 DEF ReadConfig, Read
    <3>2. cmd'.stage = "editing" /\ cmd'.todo = cmd.todo /\ edit'.new = Result.text
      BY <1>0, <3>1 DEF CmdInv
    <3>3. ASSUME Undisturbed PROVE RestOfRoutes' /\ ForwardsDone'
      <4>1. RestOfRoutes /\ ForwardsDone
        BY <1>0, <2>1, <3>3 DEF RoutesInv
      <4>2. \A i \in 1..RoutesDone + 1 : Forwarded(Result.text, Routes[i])
        BY <2>1, <2>4, <3>3, <4>1, ReadForwards
      <4>3. RoutesDone' = RoutesDone
        BY <3>2 DEF RoutesDone
      <4>4. RestOfRoutes'
        BY <3>2, <4>1, <4>3 DEF RestOfRoutes
      <4>5. \A i \in 1..RoutesDone' : Forwarded(file', Routes[i])
        BY <2>1, <4>1, <4>3 DEF ForwardsDone
      <4>6. \A i \in 1..RoutesDone' + 1 : Forwarded(edit'.new, Routes[i])
        BY <3>2, <4>2, <4>3
      <4> QED BY <4>4, <4>5, <4>6 DEF ForwardsDone, Forwarded, ForwardAt
    <3>4. RoutesInv'
      BY <2>1, <2>2, <3>3 DEF RoutesInv, Undisturbed
    <3> QED BY <1>1, <2>1, <2>2, <3>2, <3>4, EditLeavesAccount DEF SetupInv
  <2>5. CASE Result.out = "same"
    <3>1. cmd' = AfterEdit /\ edit' = edit
      BY <1>2, <2>1, <2>5 DEF ReadConfig, Read
    <3>2. cmd.op = "setup" => cmd' = NextRoute("script")
      BY <3>1 DEF AfterEdit
    <3>3. cmd.op = "setup" => cmd'.stage \in {"script", "done"}
      BY <1>0, <2>3, <3>2, NextRouteShape
    <3>4. ASSUME Undisturbed PROVE RestOfRoutes' /\ ForwardsDone'
      <4>1. RestOfRoutes /\ ForwardsDone /\ cmd.op = "setup"
        BY <1>0, <2>1, <3>4 DEF RoutesInv, Undisturbed
      <4>2. \A i \in 1..RoutesDone + 1 : Forwarded(file', Routes[i])
        BY <2>1, <2>5, <3>4, <4>1, ReadForwards
      <4>3. edit'.stage = "idle"
        BY <2>1, <3>1
      <4> QED BY <1>0, <2>3, <3>2, <4>1, <4>2, <4>3, RouteDone
    <3>5. RoutesInv'
      BY <2>1, <2>2, <3>4 DEF RoutesInv, Undisturbed
    <3> QED BY <1>1, <2>1, <2>2, <3>3, <3>5, EditLeavesAccount DEF SetupInv
  <2>6. CASE Result.out \notin {"write", "same"}
    <3>1. cmd.op = "setup" => Result.out = "error"
      <4>1. cmd.op = "setup" => Result = InstallForward(file, Head(cmd.todo))
        BY DEF Result
      <4>2. InstallForward(file, Head(cmd.todo)).out \in {"error", "same", "write"}
        BY DEF InstallForward, Failed, Same, Updated
      <4> QED BY <2>6, <4>1, <4>2
    <3>2. cmd.op = "setup" => cmd'.stage = "failed"
      BY <1>0, <2>1, <3>1 DEF CmdInv
    <3>3. RoutesInv'
      BY <2>2, <3>2 DEF RoutesInv, Undisturbed
    <3> QED BY <1>1, <2>1, <2>2, <3>2, <3>3, EditLeavesAccount DEF SetupInv
  <2> QED BY <2>4, <2>5, <2>6
<1>3. CASE BackupConfig
  <2>1. /\ cmd' = cmd /\ disturbed' = disturbed /\ file' = file
        /\ edit' = [edit EXCEPT !.stage = "write"] /\ edit.stage = "backup"
    BY <1>3 DEF BackupConfig, Backup, setupVars
  <2>2. cmd.stage = "editing"
    BY <1>0, <2>1 DEF HooksRun
  <2>3. edit'.new = edit.new
    BY <1>0, <2>1 DEF FileInv
  <2>4. RoutesInv'
    BY <1>0, <2>1, <2>3 DEF RoutesInv, Undisturbed, RestOfRoutes, ForwardsDone, RoutesDone
  <2> QED BY <1>1, <2>1, <2>2, <2>4, EditLeavesAccount DEF SetupInv
<1>4. CASE WriteConfig
  <2>1. /\ edit.stage = "write" /\ file' = edit.new /\ edit' = NoEdit /\ cmd' = AfterEdit
        /\ disturbed' = disturbed
    BY <1>4 DEF WriteConfig, Write
  <2>2. cmd.stage = "editing" /\ edit'.stage = "idle"
    BY <1>0, <2>1 DEF HooksRun, NoEdit
  <2>3. cmd'.op = cmd.op
    BY <1>0, <2>1, SameOp
  <2>4. cmd.op = "setup" => cmd.todo # <<>> /\ cmd' = NextRoute("script")
    BY <1>0, <2>1, <2>2 DEF CmdShape, AfterEdit
  <2>5. cmd.op = "setup" => cmd'.stage \in {"script", "done"}
    BY <1>0, <2>4, NextRouteShape
  <2>6. ASSUME Undisturbed PROVE RestOfRoutes' /\ ForwardsDone'
    <3>1. RestOfRoutes /\ ForwardsDone /\ cmd.op = "setup"
      BY <1>0, <2>2, <2>6 DEF RoutesInv, Undisturbed
    <3>2. \A i \in 1..RoutesDone + 1 : Forwarded(file', Routes[i])
      BY <2>1, <3>1 DEF ForwardsDone
    <3> QED BY <1>0, <2>2, <2>4, <3>1, <3>2, RouteDone
  <2>7. RoutesInv'
    BY <2>1, <2>3, <2>6 DEF RoutesInv, Undisturbed
  <2> QED BY <1>1, <2>1, <2>2, <2>3, <2>5, <2>7, EditLeavesAccount DEF SetupInv
<1>5. CASE ConfigFails
  <2>1. cmd' = [cmd EXCEPT !.stage = "failed"] /\ disturbed' = disturbed /\ edit.stage # "idle"
    BY <1>5 DEF ConfigFails, EditFails, WriteTorn
  <2>2. cmd.stage = "editing"
    BY <1>0, <2>1 DEF HooksRun
  <2>3. cmd'.op = cmd.op /\ cmd'.stage = "failed"
    BY <1>0, <2>1 DEF CmdInv
  <2>4. RoutesInv'
    BY <2>3 DEF RoutesInv
  <2> QED BY <1>1, <2>1, <2>2, <2>3, <2>4, EditLeavesAccount DEF SetupInv
<1>6. CASE UserSaves
  <2>1. cmd' = cmd /\ disturbed' = TRUE
    BY <1>6 DEF UserSaves
  <2>2. ~Undisturbed'
    BY <2>1 DEF Undisturbed
  <2> QED BY <1>0, <1>1, <2>1, <2>2
          DEF SetupInv, ScriptInv, KeyInv, NoUninstall, AccountInv, RoutesInv
<1> QED BY <1>2, <1>3, <1>4, <1>5, <1>6

-----------------------------------------------------------------------------
\* A command that begins, its token, and the data that uninstall removes.
LEMMA CommandKeepsSetup ==
  ASSUME RemoteTypeOK, ConfigInv, SetupInv,
         (\E op \in Ops : Begin(op)) \/ LoadOrCreate \/ RemoveData
  PROVE  SetupInv'
<1>0. /\ CmdInv /\ CmdShape /\ HooksRun
      /\ ScriptInv /\ KeyInv /\ NoUninstall /\ AccountInv /\ RoutesInv
  BY DEF ConfigInv, SetupInv
<1>1. UNCHANGED <<account, script, file, edit>> /\ cmd.stage \notin {"wait", "editing"}
  BY DEF Begin, LoadOrCreate, RemoveData, remoteVars, fileVars
<1>2. (\A s \in Scripts : ~script'[s].waited) /\ edit'.stage = "idle"
  BY <1>0, <1>1 DEF ScriptInv, HooksRun
<1>3. ScriptInv'
  BY <1>2 DEF ScriptInv
<1>4. ASSUME NEW op \in Ops, Begin(op) PROVE SetupInv'
  <2>1. PICK purge \in BOOLEAN, todo \in Todos(op) :
          cmd' = [op |-> op, todo |-> todo, purge |-> purge, stage |-> First(op)]
    BY <1>4 DEF Begin
  <2>2. cmd'.op = op /\ cmd'.todo = todo /\ cmd'.stage = First(op)
    BY <2>1
  <2>3. disturbed' = \E s \in Scripts : script[s].stage \in UninstallStages
    BY <1>4 DEF Begin
  <2>4. cmd'.op = "setup" => cmd'.stage = "token" /\ cmd'.todo = Routes
    BY <2>2 DEF First, Todos
  <2>5. KeyInv'
    BY <2>4 DEF KeyInv
  <2>6. NoUninstall'
    BY <1>1, <2>3 DEF NoUninstall, Undisturbed
  <2>7. AccountInv'
    BY <1>2, <2>4 DEF AccountInv, Undisturbed
  <2>8. ASSUME cmd'.op = "setup" PROVE RestOfRoutes' /\ ForwardsDone'
    <3>1. Len(Routes) \in Nat
      BY RoutesAssumption
    <3>2. RoutesDone' = 0
      BY <2>4, <2>8, <3>1 DEF RoutesDone
    <3>3. RestOfRoutes'
      BY <2>4, <2>8, <3>1, <3>2 DEF RestOfRoutes
    <3>4. 1..RoutesDone' = {}
      BY <3>2
    <3> QED BY <1>2, <3>3, <3>4 DEF ForwardsDone
  <2>9. RoutesInv'
    BY <2>8 DEF RoutesInv, Undisturbed
  <2> QED BY <1>3, <2>5, <2>6, <2>7, <2>9 DEF SetupInv
<1>5. CASE LoadOrCreate
  <2>1. /\ cmd.stage = "token" /\ cmd' = [cmd EXCEPT !.stage = "script"] /\ disturbed' = disturbed
        /\ IF key # 0 THEN key' = key ELSE key' = made + 1
    BY <1>5 DEF LoadOrCreate
  <2>2. cmd'.op = cmd.op /\ cmd'.todo = cmd.todo /\ cmd'.stage = "script"
    BY <1>0, <2>1 DEF CmdInv
  <2>3. key' # 0
    <3>1. made \in Nat
      BY <1>0, BoundsAssumption DEF CmdInv, Keys
    <3> QED BY <2>1, <3>1
  <2>4. KeyInv'
    BY <2>2, <2>3 DEF KeyInv
  <2>5. NoUninstall'
    BY <1>0, <1>1, <2>1, <2>2 DEF NoUninstall, Undisturbed
  <2>6. AccountInv'
    BY <1>2, <2>2 DEF AccountInv
  <2>7. RoutesInv'
    BY <1>0, <1>1, <2>1, <2>2 DEF RoutesInv, Undisturbed, RestOfRoutes, ForwardsDone, RoutesDone
  <2> QED BY <1>3, <2>4, <2>5, <2>6, <2>7 DEF SetupInv
<1>6. CASE RemoveData
  <2>1. cmd.stage = "data" /\ cmd'.op = cmd.op
    BY <1>0, <1>6 DEF RemoveData, CmdInv
  <2>2. cmd'.op # "setup"
    BY <1>0, <2>1 DEF KeyInv
  <2> QED BY <1>3, <2>2 DEF SetupInv, KeyInv, NoUninstall, AccountInv, RoutesInv, Undisturbed
<1> QED BY <1>4, <1>5, <1>6

\* SetupInv is inductive.
LEMMA SetupInvStep ==
  ASSUME RemoteTypeOK, ShimInv, ConfigInv, SetupInv, [Next]_vars
  PROVE  SetupInv'
<1>0. TokenChecked
  BY DEF ShimInv
<1>1. CASE (\E op \in Ops : Begin(op)) \/ LoadOrCreate \/ RemoveData
  BY <1>1, CommandKeepsSetup
<1>2. CASE ReadConfig \/ BackupConfig \/ WriteConfig \/ ConfigFails \/ UserSaves
  BY <1>2, EditKeepsSetup
<1>3. CASE \E s \in Scripts : RunScript(s) \/ Finished(s) \/ Lose(s)
  BY <1>3, ScriptsKeepSetup
<1>4. CASE Remote
  BY <1>0, <1>4, RemoteKeepsSetup
<1>5. CASE Other
  <2>1. \E s \in Scripts : RunOther(s)
    BY <1>5 DEF Other
  <2> QED BY <1>5, <2>1, ScriptsKeepSetup
<1>6. CASE UNCHANGED vars
  BY <1>6 DEF vars, SetupInv, ScriptInv, KeyInv, NoUninstall, AccountInv, RoutesInv, Undisturbed,
     AccountSet, Reached, RestOfRoutes, ForwardsDone, RoutesDone
<1> QED BY <1>1, <1>2, <1>3, <1>4, <1>5, <1>6 DEF Next, Clipctl

\* In every reachable state of Setup the invariant holds: what setup has done so
\* far stays done while nobody interferes.
THEOREM SetupInvariant == Spec => []SetupInv
<1>1. Init => SetupInv
  <2> SUFFICES ASSUME Init PROVE SetupInv
    OBVIOUS
  <2>1. cmd.op = "uninstall" /\ \A s \in Scripts : script[s] = NoScript
    BY DEF Init, RemoteInit
  <2> QED BY <2>1 DEF SetupInv, ScriptInv, KeyInv, NoUninstall, AccountInv, RoutesInv, Undisturbed,
             NoScript
<1>2. RemoteTypeOK /\ ShimInv /\ ConfigInv /\ SetupInv /\ [Next]_vars => SetupInv'
  BY SetupInvStep
<1>3. Spec => []RemoteTypeOK /\ []ShimInv
  BY ImplementsRemote, RemoteTypes, ShimInvariant
<1> QED BY <1>1, <1>2, <1>3, ConfigInvariant, PTL DEF Spec

\* When setup has succeeded and nobody interfered, every route has its forward and
\* the account the token, wrapper and links of this Mac (ARCHITECTURE.md:254-263),
\* for any routes, commands, scripts, clients and breaks.
THEOREM SetupWorksAlways == Spec => []SetupWorks
<1>1. ConfigInv /\ SetupInv => SetupWorks
  <2> SUFFICES ASSUME ConfigInv, SetupInv, cmd.op = "setup", cmd.stage = "done", ~disturbed
               PROVE  /\ \A i \in DOMAIN Routes : HasForward(Routes[i])
                      /\ account.token = key /\ account.shim = "mac" /\ account.links = "ours"
    BY DEF SetupWorks
  <2>1. RestOfRoutes /\ ForwardsDone /\ AccountSet
    BY DEF SetupInv, RoutesInv, AccountInv, Undisturbed
  <2>2. cmd.todo = <<>> /\ file \in Seq(Line)
    BY <2>1 DEF RestOfRoutes, ConfigInv, FileInv
  <2>3. Routes \in Seq(Aliases) /\ Len(Routes) \in Nat /\ Len(<<>>) = 0
    BY RoutesAssumption
  <2>4. RoutesDone = Len(Routes)
    BY <2>2, <2>3 DEF RoutesDone
  <2>5. ASSUME NEW i \in DOMAIN Routes PROVE HasForward(Routes[i])
    <3>1. i \in 1..RoutesDone /\ Routes[i] \in Patterns
      BY <2>3, <2>4, <2>5 DEF Patterns
    <3>2. Forwarded(file, Routes[i])
      BY <2>1, <3>1 DEF ForwardsDone
    <3> QED BY <2>2, <3>1, <3>2, ForwardedLines DEF HasForward
  <2> QED BY <2>1, <2>5 DEF AccountSet
<1> QED BY <1>1, SetupInvariant, ConfigInvariant, PTL

-----------------------------------------------------------------------------
(* Uninstall cleans                                                        *)

\* The user's own file names every alias, rather than a file that it includes.
AliasesNamed ==
  \A t \in InitialFiles : \A a \in Aliases : \E i \in DOMAIN t : t[i] = Mine("host", a)

\* As long as no write was torn or raced, Clipport's lines are in whole blocks
\* after the user's sections, and none is left after uninstall; and an edit makes
\* of such a text another one.
WholeInv ==
  /\ ~broken /\ ~raced => Intact(file)
  /\ edit.stage # "idle" /\ Intact(edit.read) =>
       Intact(edit.new) /\ (cmd.op = "uninstall" => NoneOurs(edit.new))
  /\ cmd.op = "uninstall" /\ cmd.stage \in {"data", "done"} /\ ~broken /\ ~raced => NoneOurs(file)

\* What ReadConfig computes from whole blocks.
LEMMA ResultIntact ==
  ASSUME CmdShape, FileInv, cmd.stage = "edit", Intact(file)
  PROVE  /\ Result.out = "write" =>
              Intact(Result.text) /\ (cmd.op = "uninstall" => NoneOurs(Result.text))
         /\ Result.out = "same" /\ cmd.op = "uninstall" => NoneOurs(file)
<1>1. cmd.op # "shims" /\ cmd.op \in Ops /\ (cmd.op # "uninstall" => cmd.todo # <<>>)
  BY DEF CmdShape
<1>2. file \in Seq(Line) /\ Marked(file)
  BY DEF FileInv, Sound
<1>3. PICK a : a = Head(cmd.todo)
  OBVIOUS
<1>4. cmd.op # "uninstall" => a \in Aliases /\ a \in Patterns
  <2>1. cmd.todo \in Seq(Aliases)
    BY DEF CmdShape
  <2>2. cmd.todo # <<>> => Head(cmd.todo) \in Aliases
    BY <2>1
  <2> QED BY <1>1, <1>3, <2>2 DEF Patterns
<1>5. CASE cmd.op = "hook"
  <2>1. Result = InstallSessionHook(file, a)
    BY <1>3, <1>5 DEF Result
  <2> QED BY <1>2, <1>4, <1>5, <2>1, InstallHookIntact
<1>6. CASE cmd.op \in {"setup", "forward"}
  <2>1. Result = InstallForward(file, a)
    BY <1>3, <1>6 DEF Result
  <2> QED BY <1>2, <1>4, <1>6, <2>1, InstallForwardIntact
<1>7. CASE cmd.op = "unsetup"
  <2>1. Result = RemoveForward(file, a)
    BY <1>3, <1>7 DEF Result
  <2> QED BY <1>2, <1>4, <1>7, <2>1, RemoveForwardIntact
<1>8. CASE cmd.op = "uninstall"
  <2>1. Result = RemoveAllClipportBlocks(file)
    BY <1>8 DEF Result
  <2> QED BY <1>2, <2>1, RemoveAllCleans
<1> QED BY <1>1, <1>5, <1>6, <1>7, <1>8 DEF Ops

\* What the user writes leaves it so.
LEMMA SaveIntact ==
  ASSUME AliasesNamed, FileInv, WholeInv, UserSaves
  PROVE  WholeInv'
<1>1. UNCHANGED <<edit, raced, cmd>> /\ Save
  BY DEF UserSaves, Save
<1>2. ASSUME NEW section \in Sections, file' = file \o section, UNCHANGED broken
      PROVE  (Intact(file) => Intact(file')) /\ (NoneOurs(file) => NoneOurs(file'))
  <2>1. section \in Seq(UserLine)
    BY SectionsAssumption
  <2>2. section \in Seq(Line) /\ NoneOurs(section) /\ Whole(section) /\ file \in Seq(Line)
    BY <2>1, UserTexts, UserIntact DEF FileInv
  <2> QED BY <1>2, <2>2, JoinIntact
<1>3. ASSUME file' \in InitialFiles PROVE Intact(file') /\ NoneOurs(file')
  <2>1. file' \in Seq(UserLine) /\ \A a \in Aliases : \E i \in DOMAIN file' : file'[i] = Mine("host", a)
    BY <1>3, FilesAssumption DEF AliasesNamed
  <2> QED BY <2>1, UserIntact
<1> SUFFICES /\ ~broken' /\ ~raced' => Intact(file')
             /\ edit'.stage # "idle" /\ Intact(edit'.read) =>
                  Intact(edit'.new) /\ (cmd'.op = "uninstall" => NoneOurs(edit'.new))
             /\ cmd'.op = "uninstall" /\ cmd'.stage \in {"data", "done"} /\ ~broken' /\ ~raced' =>
                  NoneOurs(file')
  BY DEF WholeInv, Intact, Whole, HostFirst, InBlock, BlockAt, ForwardAt, SessionAt, NoneOurs
<1>4. CASE file' \in InitialFiles
  BY <1>1, <1>3, <1>4 DEF WholeInv
<1>5. CASE UNCHANGED broken /\ \E section \in Sections : file' = file \o section
  BY <1>1, <1>2, <1>5 DEF WholeInv
<1> QED BY <1>1, <1>4, <1>5 DEF Save

\* WholeInv is inductive.
LEMMA WholeInvStep ==
  ASSUME AliasesNamed, ConfigInv, WholeInv, [Next]_vars
  PROVE  WholeInv'
<1>0. CmdInv /\ CmdShape /\ FileInv /\ HooksRun
  BY DEF ConfigInv
<1> SUFFICES /\ ~broken' /\ ~raced' => Intact(file')
             /\ edit'.stage # "idle" /\ Intact(edit'.read) =>
                  Intact(edit'.new) /\ (cmd'.op = "uninstall" => NoneOurs(edit'.new))
             /\ cmd'.op = "uninstall" /\ cmd'.stage \in {"data", "done"} /\ ~broken' /\ ~raced' =>
                  NoneOurs(file')
  BY DEF WholeInv, Intact, Whole, HostFirst, InBlock, BlockAt, ForwardAt, SessionAt, NoneOurs
<1>1. CASE ReadConfig
  <2>1. /\ UNCHANGED <<file, broken, raced>> /\ cmd.stage = "edit" /\ edit.stage = "idle"
        /\ edit' = IF Result.out = "write"
                   THEN [stage |-> "backup", read |-> file, new |-> Result.text] ELSE edit
    BY <1>1 DEF ReadConfig, Read
  <2>2. cmd' = CASE Result.out = "error" -> [cmd EXCEPT !.stage = "failed"]
                 [] Result.out = "same" -> AfterEdit
                 [] OTHER -> [cmd EXCEPT !.stage = "editing"]
    BY <1>1 DEF ReadConfig
  <2>3. cmd'.op = cmd.op
    BY <1>0, <2>2, SameOp
  <2>4. /\ Result.out = "error" => cmd'.stage = "failed"
        /\ Result.out \notin {"error", "same"} => cmd'.stage = "editing"
    BY <1>0, <2>2 DEF CmdInv
  <2>5. edit'.stage # "idle" => Result.out = "write" /\ edit'.read = file /\ edit'.new = Result.text
    BY <2>1
  <2> QED BY <1>0, <2>1, <2>3, <2>4, <2>5, ResultIntact DEF WholeInv
<1>2. CASE BackupConfig
  <2>1. /\ UNCHANGED <<file, broken, raced, cmd>> /\ edit.stage = "backup"
        /\ edit' = [edit EXCEPT !.stage = "write"]
    BY <1>2 DEF BackupConfig, Backup, setupVars
  <2>2. edit'.read = edit.read /\ edit'.new = edit.new
    BY <1>0, <2>1 DEF FileInv
  <2> QED BY <2>1, <2>2 DEF WholeInv
<1>3. CASE WriteConfig
  <2>1. /\ edit.stage = "write" /\ file' = edit.new /\ edit' = NoEdit /\ broken' = broken
        /\ (~raced' => ~raced /\ file = edit.read) /\ cmd' = AfterEdit
    BY <1>3 DEF WriteConfig, Write
  <2>2. cmd'.op = cmd.op /\ edit'.stage = "idle"
    BY <1>0, <2>1, SameOp DEF NoEdit
  <2> QED BY <2>1, <2>2 DEF WholeInv
<1>4. CASE ConfigFails
  <2>1. cmd' = [cmd EXCEPT !.stage = "failed"] /\ edit' = NoEdit /\ (EditFails \/ WriteTorn)
    BY <1>4 DEF ConfigFails, EditFails, WriteTorn
  <2>2. cmd'.stage = "failed" /\ edit'.stage = "idle"
    BY <1>0, <2>1 DEF CmdInv, NoEdit
  <2>3. broken' \/ UNCHANGED <<file, broken, raced>>
    BY <2>1 DEF EditFails, WriteTorn
  <2> QED BY <2>2, <2>3 DEF WholeInv
<1>5. CASE UserSaves
  <2>1. WholeInv'
    BY <1>0, <1>5, SaveIntact
  <2> QED BY <2>1 DEF WholeInv, Intact, Whole, HostFirst, InBlock, BlockAt, ForwardAt, SessionAt, NoneOurs
\* Nothing else touches the file, or makes uninstall done.
<1>6. ASSUME UNCHANGED <<file, edit, broken, raced>>,
             cmd'.op = "uninstall" => /\ cmd'.stage \in {"data", "done"} => cmd.op = "uninstall"
                                                                        /\ cmd.stage \in {"data", "done"}
                                      /\ edit.stage # "idle" => cmd.op = "uninstall"
      PROVE  /\ ~broken' /\ ~raced' => Intact(file')
             /\ edit'.stage # "idle" /\ Intact(edit'.read) =>
                  Intact(edit'.new) /\ (cmd'.op = "uninstall" => NoneOurs(edit'.new))
             /\ cmd'.op = "uninstall" /\ cmd'.stage \in {"data", "done"} /\ ~broken' /\ ~raced' =>
                  NoneOurs(file')
  BY <1>6 DEF WholeInv
<1>7. ASSUME NEW op \in Ops, Begin(op)
      PROVE  /\ UNCHANGED <<file, edit, broken, raced>> /\ cmd'.stage \notin {"data", "done"}
             /\ edit.stage = "idle"
  <2>1. PICK purge \in BOOLEAN, todo \in Todos(op) :
          cmd' = [op |-> op, todo |-> todo, purge |-> purge, stage |-> First(op)]
    BY <1>7 DEF Begin
  <2>2. UNCHANGED <<file, edit, broken, raced>> /\ cmd.stage # "editing"
    BY <1>7 DEF Begin, fileVars
  <2> QED BY <1>0, <2>1, <2>2 DEF First, HooksRun
<1>8. CASE LoadOrCreate
  <2>1. UNCHANGED <<file, edit, broken, raced>> /\ cmd' = [cmd EXCEPT !.stage = "script"]
    BY <1>8 DEF LoadOrCreate, fileVars
  <2>2. cmd'.op = cmd.op /\ cmd'.stage = "script"
    BY <1>0, <2>1 DEF CmdInv
  <2> QED BY <1>6, <2>1, <2>2
<1>9. CASE RemoveData
  <2>1. UNCHANGED <<file, edit, broken, raced>> /\ cmd.stage = "data" /\ cmd'.op = cmd.op
    BY <1>0, <1>9 DEF RemoveData, fileVars, CmdInv
  <2> QED BY <1>6, <2>1
<1>10. ASSUME NEW s \in Scripts, RunScript(s) \/ Finished(s) \/ Lose(s)
       PROVE  UNCHANGED <<file, edit, broken, raced>> /\ cmd'.op # "uninstall"
  <2>1. UNCHANGED <<file, edit, broken, raced>> /\ cmd.stage \in {"script", "wait"}
    BY <1>10 DEF RunScript, Finished, Lose, fileVars
  <2>2. cmd.op # "uninstall"
    BY <1>0, <2>1 DEF CmdShape
  <2>3. cmd'.op = cmd.op
    <3>1. \A again : NextRoute(again).op = cmd.op /\ [cmd EXCEPT !.stage = again].op = cmd.op
      BY <1>0 DEF NextRoute, CmdInv
    <3>2. \A status : AfterScript(status).op = cmd.op
      BY <3>1 DEF AfterScript
    <3> QED BY <1>10, <3>1, <3>2 DEF RunScript, Finished, Lose
  <2> QED BY <2>1, <2>2, <2>3
<1>11. CASE Remote \/ Other \/ UNCHANGED vars
  <2>1. UNCHANGED <<file, edit, broken, raced, cmd>>
    BY <1>11 DEF Remote, Other, vars, fileVars, setupVars
  <2> QED BY <1>6, <2>1
<1> QED BY <1>1, <1>2, <1>3, <1>4, <1>5, <1>6, <1>7, <1>8, <1>9, <1>10, <1>11 DEF Next, Clipctl

\* In every reachable state Clipport's lines are in whole blocks, if the user's
\* file names the aliases and no write was torn or raced.
THEOREM WholeInvariant ==
  ASSUME AliasesNamed
  PROVE  Spec => []WholeInv
<1>1. Init => WholeInv
  <2> SUFFICES ASSUME Init PROVE WholeInv
    OBVIOUS
  <2>1. file \in InitialFiles /\ edit.stage = "idle" /\ cmd.stage = "idle"
    BY DEF Init, FileInit, NoEdit
  <2>2. Intact(file)
    BY <2>1, FilesAssumption, UserIntact DEF AliasesNamed
  <2> QED BY <2>1, <2>2 DEF WholeInv
<1>2. ConfigInv /\ WholeInv /\ [Next]_vars => WholeInv'
  BY WholeInvStep
<1> QED BY <1>1, <1>2, ConfigInvariant, PTL DEF Spec

\* A successful uninstall leaves no line of Clipport in ~/.ssh/config, for any
\* aliases, files, routes and commands before it, if the user's file names the
\* aliases and no write was torn or raced (sshsetup_test.go:166).
THEOREM UninstallCleansAlways ==
  ASSUME AliasesNamed
  PROVE  Spec => []UninstallCleans
<1>1. WholeInv => UninstallCleans
  BY DEF WholeInv, UninstallCleans, NoneOurs, Ours
<1> QED BY <1>1, WholeInvariant, PTL
=============================================================================
