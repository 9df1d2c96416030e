----------------------------- MODULE RemoteShims -----------------------------
(***************************************************************************)
(* What internal/shims runs over ssh on a remote account: the script that  *)
(* installs the token, the wrapper and its links, under a lock, and the    *)
(* one that removes them, which takes no lock.  Scripts of one Mac and of  *)
(* another client interleave; a script may be cut off while it is being    *)
(* sent (its trap cleans up), be killed with its machine (its lock stays), *)
(* or go on after its client has lost the connection.                      *)
(***************************************************************************)
EXTENDS Naturals

CONSTANTS
  Scripts,    \* script processes that may run at once
  MaxKeys,    \* bound on tokens this Mac generates
  None,       \* no token, no lock, no wrapper
  Stale,      \* a lock whose owner is gone
  MaxOthers,  \* bound on scripts of the other client
  MaxBreaks   \* bound on scripts cut, killed or left alone

ASSUME ScriptsAssumption == None \notin Scripts /\ Stale \notin Scripts \cup {None}
ASSUME BoundsAssumption == MaxKeys \in Nat /\ MaxOthers \in Nat /\ MaxBreaks \in Nat

\* A token: 0 is the other client's, the others are of this Mac.
Keys == 0..MaxKeys
ASSUME TokensAssumption == None \notin Keys
Owner(key) == IF key = 0 THEN "other" ELSE "mac"
Owners == {"other", "mac"}

VARIABLES
  account,  \* the files of the account
  script,   \* the scripts that run
  others, breaks  \* how many there were

remoteVars == <<account, script, others, breaks>>

Account == [lock : Scripts \cup {None, Stale}, token : Keys \cup {None},
            shim : Owners \cup {None}, links : {"none", "ours", "foreign"}]
NoScript == [stage |-> "none", key |-> 0, removeToken |-> FALSE, waited |-> FALSE]
InstallStages == {"lock", "check", "token", "chmod", "shim", "links", "unlock", "cleanup"}
UninstallStages == {"rmlinks", "rmshim", "rmtoken"}
Script == [stage : {"none", "ok", "bad"} \cup InstallStages \cup UninstallStages,
           key : Keys, removeToken : BOOLEAN, waited : BOOLEAN]

RemoteTypeOK ==
  /\ account \in Account /\ script \in [Scripts -> Script]
  /\ others \in 0..MaxOthers /\ breaks \in 0..MaxBreaks

RemoteInit ==
  /\ account \in [lock : {None}, token : {None}, shim : {None}, links : {"none", "foreign"}]
  /\ script = [s \in Scripts |-> NoScript]
  /\ others = 0 /\ breaks = 0

Goto(s, stage) ==
  /\ script' = [script EXCEPT ![s].stage = stage]
  /\ UNCHANGED <<others, breaks>>

\* How a script ends: somebody reads its status, or nobody does.
End(s, status) ==
  /\ script' = [script EXCEPT ![s] =
       IF script[s].waited THEN [script[s] EXCEPT !.stage = status] ELSE NoScript]
  /\ UNCHANGED <<others, breaks>>

\* A client runs a script; this Mac waits for it.
Run(s, first, key, removeToken, waited) ==
  /\ script[s].stage = "none"
  /\ script' = [script EXCEPT ![s] = [stage |-> first, key |-> key,
                                      removeToken |-> removeToken, waited |-> waited]]
  /\ UNCHANGED <<account, breaks>>

-----------------------------------------------------------------------------
(* renderInstallPayload                                                    *)

Acquire(s) ==
  /\ script[s].stage = "lock" /\ account.lock = None
  /\ account' = [account EXCEPT !.lock = s]
  /\ Goto(s, "check")
\* The lock stays taken for five attempts.
Busy(s) ==
  /\ script[s].stage = "lock" /\ account.lock # None
  /\ End(s, "bad") /\ UNCHANGED account

\* Mutant: the remote token is not compared.
CheckNothing(s) ==
  script[s].stage = "check" /\ Goto(s, "token") /\ UNCHANGED account
\* A token that differs or a command that is not a link of ours is an error.
Check(s) ==
  /\ script[s].stage = "check"
  /\ Goto(s, IF account.token \in {None, script[s].key} /\ account.links # "foreign"
             THEN "token" ELSE "cleanup")
  /\ UNCHANGED account

\* A token that is there by now is left alone.
Publish(s) ==
  /\ script[s].stage = "token"
  /\ account' = [account EXCEPT !.token = IF @ = None THEN script[s].key ELSE @]
  /\ Goto(s, "chmod")
Chmod(s) ==
  /\ script[s].stage = "chmod"
  /\ Goto(s, IF account.token = None THEN "cleanup" ELSE "shim")
  /\ UNCHANGED account
PlaceShim(s) ==
  /\ script[s].stage = "shim"
  /\ account' = [account EXCEPT !.shim = Owner(script[s].key)]
  /\ Goto(s, "links")
Link(s) ==
  /\ script[s].stage = "links"
  /\ account' = [account EXCEPT !.links = "ours"]
  /\ Goto(s, "unlock")

\* Mutant: an error leaves the lock.
CleanupKeepsLock(s) ==
  /\ script[s].stage \in {"unlock", "cleanup"}
  /\ account' = [account EXCEPT !.lock = IF script[s].stage = "unlock" THEN None ELSE @]
  /\ End(s, IF script[s].stage = "unlock" THEN "ok" ELSE "bad")
\* The trap on exit.
Cleanup(s) ==
  /\ script[s].stage \in {"unlock", "cleanup"}
  /\ account' = [account EXCEPT !.lock = None]
  /\ End(s, IF script[s].stage = "unlock" THEN "ok" ELSE "bad")

-----------------------------------------------------------------------------
(* renderUninstallPayload                                                  *)

Unlink(s) ==
  /\ script[s].stage = "rmlinks"
  /\ account' = [account EXCEPT !.links = IF @ = "ours" THEN "none" ELSE @]
  /\ Goto(s, "rmshim")
RemoveShim(s) ==
  /\ script[s].stage = "rmshim"
  /\ account' = [account EXCEPT !.shim = None]
  /\ IF script[s].removeToken THEN Goto(s, "rmtoken") ELSE End(s, "ok")
RemoveToken(s) ==
  /\ script[s].stage = "rmtoken"
  /\ account' = [account EXCEPT !.token = None]
  /\ End(s, "ok")

-----------------------------------------------------------------------------
(* What goes wrong on the way, and the other client                        *)

Break == breaks < MaxBreaks /\ breaks' = breaks + 1 /\ UNCHANGED others

\* The rest of a script is not sent: sh ends, through the trap of an install.
Cut(s) ==
  /\ script[s].stage \in (InstallStages \cup UninstallStages) \ {"unlock", "cleanup"}
  /\ script' = [script EXCEPT ![s] =
       IF @.stage \in InstallStages \ {"lock"} THEN [@ EXCEPT !.stage = "cleanup"]
       ELSE IF @.waited THEN [@ EXCEPT !.stage = "bad"] ELSE NoScript]
  /\ Break /\ UNCHANGED account

\* sh is killed, or its machine goes down: no trap runs.
Kill(s) ==
  /\ script[s].stage \in InstallStages
  /\ account' = [account EXCEPT !.lock = IF @ = s THEN Stale ELSE @]
  /\ script' = [script EXCEPT ![s] =
       IF @.waited THEN [@ EXCEPT !.stage = "bad"] ELSE NoScript]
  /\ Break

ScriptStep(s) ==
  \/ Acquire(s) \/ Busy(s) \/ Check(s) \/ Publish(s) \/ Chmod(s) \/ PlaceShim(s)
  \/ Link(s) \/ Cleanup(s) \/ Unlink(s) \/ RemoveShim(s) \/ RemoveToken(s)

\* The other client sets up its shims, or removes them.
RunOther(s) ==
  /\ others < MaxOthers /\ others' = others + 1
  /\ \E first \in {"lock", "rmlinks"} : Run(s, first, 0, TRUE, FALSE)

\* This Mac runs a script, sees how it ended, or loses the connection to one
\* that goes on by itself.
RunOwn(s, first, key, removeToken) ==
  Run(s, first, key, removeToken, TRUE) /\ UNCHANGED others
Collect(s) ==
  /\ script[s].waited /\ script[s].stage \in {"ok", "bad"}
  /\ script' = [script EXCEPT ![s] = NoScript]
  /\ UNCHANGED <<account, others, breaks>>
Abandon(s) ==
  /\ script[s].waited /\ script[s].stage \notin {"ok", "bad"}
  /\ script' = [script EXCEPT ![s].waited = FALSE]
  /\ Break /\ UNCHANGED account

RemoteNext ==
  \E s \in Scripts :
    \/ ScriptStep(s) \/ Cut(s) \/ Kill(s) \/ RunOther(s) \/ Collect(s) \/ Abandon(s)
    \/ \E first \in {"lock", "rmlinks"}, key \in Keys, rm \in BOOLEAN :
         RunOwn(s, first, key, rm)

\* The account as any number of commands of any clients see it.
RemoteSpec == RemoteInit /\ [][RemoteNext]_remoteVars

-----------------------------------------------------------------------------
(* Properties                                                              *)

\* The lock is that of the one script that installs, or of one that was killed:
\* no end of a script but that leaves it behind, and none takes away another's
\* (shims.go:74, "Never break an existing lock").
Holds(s) == script[s].stage \in InstallStages \ {"lock"}
LockOwned == \A s \in Scripts : Holds(s) <=> account.lock = s

\* The identity of an account is not replaced: a token goes only by removal, and
\* a wrapper is put only beside a token of its own client, or where an uninstall
\* took the token away meanwhile (install_test.go:41, TestLinuxIndependent-
\* ClientsDoNotOverwriteRemoteIdentity).
IdentityKept ==
  [][/\ account'.token # account.token => None \in {account.token, account'.token}
     /\ account'.shim \notin {account.shim, None} =>
          account.token = None \/ Owner(account.token) = account'.shim]_account
=============================================================================
