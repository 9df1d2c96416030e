-------------------------------- MODULE Paste --------------------------------
(***************************************************************************)
(* Server.Paste: one paste from the request of "clipctl paste" to its      *)
(* answer, many at once.  A paste finds out which machine its terminal     *)
(* pane belongs to, reads the clipboard of the Mac, and for an image       *)
(* uploads it to a new file of that machine over ssh, once more over       *)
(* another route when that fails; it answers with the path, with the text, *)
(* with nothing (native paste in a local pane) or with an error.           *)
(*                                                                         *)
(* Meanwhile the user moves the focus, opens and leaves ssh sessions, and  *)
(* copies something else; ssh breaks at any moment.  The store of bindings *)
(* is module SessionStore, the choice of routes RouteCache: here a binding *)
(* is a name and a route any of the machine's.                             *)
(***************************************************************************)
EXTENDS Integers, Sequences, FiniteSets

CONSTANTS
  Conns,        \* connections served at once
  Panes,        \* iTerm panes; a pane's id is its session key
  Machines,     \* names the configuration knows
  Strangers,    \* other host names: in titles, or bound before a config change
  Defaults,     \* values of default_host the daemon may start with, None for no default
  Routes,       \* routes of a machine
  None,         \* no name, no pane, no route
  RecentCap,    \* 10 in recordTransfer
  MaxTime,      \* bound on the clock that names files
  MaxEvents     \* bound on what the user does meanwhile

Local == "local shell"    \* a title such as "zsh"
Unknown == "unknown"      \* a title without a host that is not a shell's
Titles == Machines \cup Strangers \cup {Local, Unknown}
Names == Machines \cup Strangers

ASSUME NoneAssumption ==
  None \notin Names \cup Panes \cup Routes
ASSUME MachinesAssumption ==
  Machines \cap Strangers = {} /\ Defaults \subseteq Machines \cup {None}
ASSUME TitlesAssumption == {Local, Unknown} \cap (Names \cup {None}) = {}
ASSUME BoundsAssumption ==
  RecentCap \in Nat \ {0} /\ MaxTime \in Nat /\ MaxEvents \in Nat

VARIABLES
  defaultHost, \* default_host of the configuration the daemon runs with, or None
  registered,  \* the machine name bound to each pane, or None
  title,       \* what the title of each pane says
  focus,       \* the focused pane, None if iTerm has no window
  clip,        \* the clipboard: kind, and a serial of what was copied
  clock,       \* the time, as far as it tells file names apart
  files,       \* the upload directories of all machines
  recent,      \* s.recent: the last transfers
  pc, conn,    \* where each connection's paste is, and its local variables
  events,      \* what the user did so far
  told         \* ghost: per connection, the names that may decide where it goes

vars == <<defaultHost, registered, title, focus, clip, clock, files, recent, pc, conn, events,
          told>>
user == <<title, focus, clip, events>>
store == <<files, recent>>

Kinds == {"png", "text", "none"}
NoItem == [kind |-> "none", serial |-> 0]
NoConn == [pane |-> None, key |-> None, title |-> Unknown, machine |-> None,
           item |-> NoItem, route |-> None, attempt |-> 1, path |-> 0,
           reply |-> "none", moved |-> FALSE, bound |-> FALSE]
Stages == {"idle", "active", "resolve", "refocus", "again", "native", "types", "data",
           "route", "name", "create", "write", "sent", "failed", "record", "done"}
File == [machine : Machines, path : Nat, serial : Nat, whole : BOOLEAN]
Transfer == [machine : Machines, path : Nat]

TypeOK ==
  /\ defaultHost \in Machines \cup {None}
  /\ registered \in [Panes -> Names \cup {None}]
  /\ title \in [Panes -> Titles]
  /\ focus \in Panes \cup {None}
  /\ clip \in [kind : Kinds, serial : Nat]
  /\ clock \in Nat /\ events \in Nat
  /\ files \subseteq File
  /\ recent \in Seq(Transfer) /\ Len(recent) <= RecentCap
  /\ pc \in [Conns -> Stages]
  /\ conn \in [Conns ->
       [pane : Panes \cup {None}, key : Panes \cup {None}, title : Titles,
        machine : Machines \cup {None}, item : [kind : Kinds, serial : Nat],
        route : Routes \cup {None}, attempt : {1, 2}, path : Nat,
        reply : {"none", "path", "text", "nothing", "error", "unmatched"},
        moved : BOOLEAN, bound : BOOLEAN]]
  /\ told \in [Conns -> SUBSET Names]

-----------------------------------------------------------------------------
(* Names to machines                                                       *)

\* Config.ResolveHost: a configured name or alias, else the default.
ResolveHost(name) == IF name \in Machines THEN name ELSE defaultHost

\* Session.DetectedHost of a title.
DetectedHost(t) == IF t \in Names THEN t ELSE None

Bound(key) == key # None /\ registered[key] # None
Resolves(key) == Bound(key) /\ ResolveHost(registered[key]) # None

\* resolveSessionHost: the binding wins, then the detected host; without a
\* detected host there is no machine.
Resolved(key, t) ==
  IF Resolves(key) THEN ResolveHost(registered[key])
  ELSE IF DetectedHost(t) = None THEN None ELSE ResolveHost(DetectedHost(t))

\* A binding that resolves to no machine is deleted on the way.
ForgetUnresolved(key) ==
  registered' = IF Bound(key) /\ ~Resolves(key)
                THEN [registered EXCEPT ![key] = None] ELSE registered

\* Ghost: the name that decides where pastes of a pane go: the one it is bound
\* to, unless that resolves to no machine, else the one it shows.
Decides(p) == IF Resolves(p) THEN {registered[p]} ELSE {title[p]} \cap Names

-----------------------------------------------------------------------------
(* Steps of a paste                                                        *)

Goto(c, stage) == pc' = [pc EXCEPT ![c] = stage]
Answer(c, reply) ==
  /\ conn' = [conn EXCEPT ![c] = [@ EXCEPT !.reply = reply]]
  /\ Goto(c, "done")

\* handleConn, Handle, sessionFromRequest: the request names the pane by its
\* TERM_SESSION_ID, or has no key.
Arrive(c, p, key) ==
  /\ pc[c] = "idle"
  /\ conn' = [conn EXCEPT ![c] = [NoConn EXCEPT !.pane = p, !.key = key,
                                           !.moved = p # focus, !.bound = Resolves(key)]]
  /\ told' = [told EXCEPT ![c] = IF key = None THEN {} ELSE Decides(p)]
  /\ Goto(c, IF key = None THEN "active" ELSE "resolve")
  /\ UNCHANGED <<defaultHost, registered, clock>> /\ UNCHANGED user /\ UNCHANGED store

\* The focused pane becomes the session: its key, and its title of now.
TakeFocused(c) ==
  /\ focus # None
  /\ conn' = [conn EXCEPT ![c] = [@ EXCEPT !.key = focus, !.title = title[focus]]]
  /\ told' = [told EXCEPT ![c] = Decides(focus)]

\* Without a key: the focused pane is the session, if AppleScript names one.
ActiveSession(c) ==
  /\ pc[c] = "active"
  /\ \/ Answer(c, "error") /\ UNCHANGED told
     \/ TakeFocused(c) /\ Goto(c, "resolve")
  /\ UNCHANGED <<registered, clock>> /\ UNCHANGED user /\ UNCHANGED store

\* No machine: native paste in a pane whose title is a local shell's.
Unresolved(c) ==
  IF conn[c].title = Local THEN Goto(c, "native") /\ UNCHANGED conn ELSE Answer(c, "unmatched")

\* The session of the request; without a machine and a detected host, the
\* active session is asked for.
Resolve(c) ==
  LET m == Resolved(conn[c].key, conn[c].title) IN
  /\ pc[c] = "resolve"
  /\ ForgetUnresolved(conn[c].key)
  /\ \/ m # None /\ conn' = [conn EXCEPT ![c] = [@ EXCEPT !.machine = m]] /\ Goto(c, "types")
     \/ m = None /\ DetectedHost(conn[c].title) = None /\ Goto(c, "refocus") /\ UNCHANGED conn
     \/ m = None /\ DetectedHost(conn[c].title) # None /\ Unresolved(c)
  /\ UNCHANGED <<clock, told>> /\ UNCHANGED user /\ UNCHANGED store

\* Mutant: of the active session only the detected host is taken over.
RefocusTitle(c) ==
  /\ pc[c] = "refocus"
  /\ \/ Unresolved(c) /\ UNCHANGED told
     \/ /\ focus # None
        /\ conn' = [conn EXCEPT ![c] = [@ EXCEPT !.title = title[focus]]]
        /\ told' = [told EXCEPT ![c] = Decides(focus)]
        /\ Goto(c, "again")
  /\ UNCHANGED <<registered, clock>> /\ UNCHANGED user /\ UNCHANGED store

Refocus(c) ==
  /\ pc[c] = "refocus"
  /\ \/ Unresolved(c) /\ UNCHANGED told
     \/ TakeFocused(c) /\ Goto(c, "again")
  /\ UNCHANGED <<registered, clock>> /\ UNCHANGED user /\ UNCHANGED store

\* Mutant: a session that still has no machine asks for the active one again.
ResolveAgainForEver(c) ==
  LET m == Resolved(conn[c].key, conn[c].title) IN
  /\ pc[c] = "again"
  /\ ForgetUnresolved(conn[c].key)
  /\ IF m # None THEN conn' = [conn EXCEPT ![c] = [@ EXCEPT !.machine = m]] /\ Goto(c, "types")
                 ELSE Goto(c, "refocus") /\ UNCHANGED conn
  /\ UNCHANGED <<clock, told>> /\ UNCHANGED user /\ UNCHANGED store

ResolveAgain(c) ==
  LET m == Resolved(conn[c].key, conn[c].title) IN
  /\ pc[c] = "again"
  /\ ForgetUnresolved(conn[c].key)
  /\ IF m # None THEN conn' = [conn EXCEPT ![c] = [@ EXCEPT !.machine = m]] /\ Goto(c, "types")
                 ELSE Unresolved(c)
  /\ UNCHANGED <<clock, told>> /\ UNCHANGED user /\ UNCHANGED store

\* The keystroke Cmd+V goes to whatever is focused, or fails.
NativePaste(c) ==
  /\ pc[c] = "native"
  /\ \E reply \in {"nothing", "error"} : Answer(c, reply)
  /\ UNCHANGED <<registered, clock, told>> /\ UNCHANGED user /\ UNCHANGED store

\* Clipboard.Read asks for the types first (each of its tools may fail), ...
ReadTypes(c) ==
  /\ pc[c] = "types"
  /\ \/ Answer(c, "error")
     \/ /\ clip.kind # "none"
        /\ conn' = [conn EXCEPT ![c] = [@ EXCEPT !.item.kind = clip.kind]]
        /\ Goto(c, "data")
  /\ UNCHANGED <<registered, clock, told>> /\ UNCHANGED user /\ UNCHANGED store

\* ... then for the data of the kind it selected, which may be gone.
ReadData(c) ==
  /\ pc[c] = "data"
  /\ \/ Answer(c, "error")
     \/ /\ clip.kind = conn[c].item.kind
        /\ conn' = [conn EXCEPT ![c] =
             [@ EXCEPT !.item.serial = clip.serial,
                       !.reply = IF clip.kind = "text" THEN "text" ELSE "none"]]
        /\ Goto(c, IF clip.kind = "text" THEN "done" ELSE "route")
  /\ UNCHANGED <<registered, clock, told>> /\ UNCHANGED user /\ UNCHANGED store

\* BestRoute: a route of the machine, or the zero Route.
TakeRoute(c, r) ==
  /\ pc[c] = "route"
  /\ conn' = [conn EXCEPT ![c] = [@ EXCEPT !.route = r]]
  /\ Goto(c, "name")
  /\ UNCHANGED <<registered, clock, told>> /\ UNCHANGED user /\ UNCHANGED store

\* Upload: RemotePath names the file after the time.
NameFile(c) ==
  /\ pc[c] = "name"
  /\ conn' = [conn EXCEPT ![c] = [@ EXCEPT !.path = clock]]
  /\ Goto(c, "create")
  /\ UNCHANGED <<registered, clock, told>> /\ UNCHANGED user /\ UNCHANGED store

Stored(m, path) == {f \in files : f.machine = m /\ f.path = path}
Overwrite(c, whole) ==
  files' = (files \ Stored(conn[c].machine, conn[c].path))
             \cup {[machine |-> conn[c].machine, path |-> conn[c].path,
                    serial |-> conn[c].item.serial, whole |-> whole]}

\* Mutant: the script opens the file without noclobber.
CreateOrTruncate(c) ==
  /\ pc[c] = "create" /\ conn[c].route # None
  /\ Overwrite(c, FALSE) /\ Goto(c, "write")
  /\ UNCHANGED <<registered, clock, told, conn, recent>> /\ UNCHANGED user

\* The remote shell creates the file and refuses one that exists (set -C).
Create(c) ==
  /\ pc[c] = "create" /\ conn[c].route # None
  /\ IF Stored(conn[c].machine, conn[c].path) = {}
     THEN Overwrite(c, FALSE) /\ Goto(c, "write")
     ELSE UNCHANGED files /\ Goto(c, "failed")
  /\ UNCHANGED <<registered, clock, told, conn, recent>> /\ UNCHANGED user

\* cat writes the data to the end.
Write(c) ==
  /\ pc[c] = "write"
  /\ Overwrite(c, TRUE)
  /\ Goto(c, "sent")
  /\ UNCHANGED <<registered, clock, told, conn, recent>> /\ UNCHANGED user

\* ssh cannot connect, breaks while it writes, or breaks when all is written.
Break(c) ==
  /\ pc[c] \in {"create", "write", "sent"}
  /\ Goto(c, "failed")
  /\ UNCHANGED <<registered, clock, told, conn>> /\ UNCHANGED user /\ UNCHANGED store

Sent(c) ==
  /\ pc[c] = "sent"
  /\ Goto(c, "record")
  /\ UNCHANGED <<registered, clock, told, conn>> /\ UNCHANGED user /\ UNCHANGED store

\* UploadWithRetry: after the first failure InvalidateHost and BestRoute give
\* a route r; only another one is tried.
RetryOrGiveUp(c, r) ==
  /\ pc[c] = "failed"
  /\ IF conn[c].attempt = 2 \/ r \in {None, conn[c].route} THEN Answer(c, "error")
     ELSE conn' = [conn EXCEPT ![c] = [@ EXCEPT !.route = r, !.attempt = 2]] /\ Goto(c, "name")
  /\ UNCHANGED <<registered, clock, told>> /\ UNCHANGED user /\ UNCHANGED store

\* Mutant: the list of transfers is not cut.
RecordUncapped(c) ==
  /\ pc[c] = "record"
  /\ recent' = <<[machine |-> conn[c].machine, path |-> conn[c].path]>> \o recent
  /\ Answer(c, "path")
  /\ UNCHANGED <<registered, clock, told, files>> /\ UNCHANGED user

\* recordTransfer, then the answer.
Record(c) ==
  /\ pc[c] = "record"
  /\ LET all == <<[machine |-> conn[c].machine, path |-> conn[c].path]>> \o recent
     IN recent' = SubSeq(all, 1, IF Len(all) > RecentCap THEN RecentCap ELSE Len(all))
  /\ Answer(c, "path")
  /\ UNCHANGED <<registered, clock, told, files>> /\ UNCHANGED user

\* The answer is sent, the connection closed.
Close(c) ==
  /\ pc[c] = "done"
  /\ Goto(c, "idle")
  /\ conn' = [conn EXCEPT ![c] = NoConn]
  /\ told' = [told EXCEPT ![c] = {}]
  /\ UNCHANGED <<registered, clock>> /\ UNCHANGED user /\ UNCHANGED store

-----------------------------------------------------------------------------
(* The user and the clock                                                  *)

Event == events < MaxEvents /\ events' = events + 1

\* Ghost: what opens in the pane of its session is noted for every paste.
Note(p, name) ==
  told' = [c \in Conns |-> IF conn[c].key = p THEN told[c] \cup {name} ELSE told[c]]

\* ssh starts in a pane: the LocalCommand hook registers it, or it has none.
OpenSSH(p, name, hook) ==
  /\ Event
  /\ title' = [title EXCEPT ![p] = name]
  /\ hook => name \in Machines
  /\ registered' = IF hook THEN [registered EXCEPT ![p] = name] ELSE registered
  /\ Note(p, name)
  /\ UNCHANGED <<focus, clip, clock, pc, conn>> /\ UNCHANGED store

\* ssh ends: the title is the shell's again; nothing is unregistered.
LeaveSSH(p, t) ==
  /\ Event
  /\ title[p] \notin {Local, Unknown}
  /\ title' = [title EXCEPT ![p] = t]
  /\ UNCHANGED <<registered, focus, clip, clock, pc, conn, told>> /\ UNCHANGED store

MoveFocus(p) ==
  /\ Event
  /\ focus' = p /\ p # focus
  /\ conn' = [c \in Conns |-> IF pc[c] # "idle" THEN [conn[c] EXCEPT !.moved = TRUE] ELSE conn[c]]
  /\ UNCHANGED <<registered, title, clip, clock, pc, told>> /\ UNCHANGED store

Copy(kind) ==
  /\ Event
  /\ clip' = [kind |-> kind, serial |-> clip.serial + 1]
  /\ UNCHANGED <<registered, title, focus, clock, pc, conn, told>> /\ UNCHANGED store

Tick ==
  /\ clock < MaxTime
  /\ clock' = clock + 1
  /\ UNCHANGED <<defaultHost, registered, pc, conn, told>> /\ UNCHANGED user /\ UNCHANGED store

-----------------------------------------------------------------------------
\* The daemon starts with the bindings of the store; some may name machines the
\* configuration no longer has.
Init ==
  /\ defaultHost \in Defaults
  /\ registered \in [Panes -> Names \cup {None}]
  /\ title \in [Panes -> Titles]
  /\ focus \in Panes \cup {None}
  /\ clip \in [kind : Kinds, serial : {1}]
  /\ clock = 0 /\ events = 0
  /\ files = {} /\ recent = <<>>
  /\ pc = [c \in Conns |-> "idle"]
  /\ conn = [c \in Conns |-> NoConn]
  /\ told = [c \in Conns |-> {}]

Serve(c) ==
  /\ UNCHANGED defaultHost
  /\ \/ ActiveSession(c) \/ Resolve(c) \/ Refocus(c) \/ ResolveAgain(c) \/ NativePaste(c)
     \/ ReadTypes(c) \/ ReadData(c)
     \/ \E r \in Routes \cup {None} : TakeRoute(c, r) \/ RetryOrGiveUp(c, r)
     \/ NameFile(c) \/ Create(c) \/ Write(c) \/ Break(c) \/ Sent(c) \/ Record(c) \/ Close(c)

User ==
  /\ UNCHANGED defaultHost
  /\ \/ \E p \in Panes, name \in Names, hook \in BOOLEAN : OpenSSH(p, name, hook)
     \/ \E p \in Panes, t \in {Local, Unknown} : LeaveSSH(p, t)
     \/ \E p \in Panes \cup {None} : MoveFocus(p)
     \/ \E kind \in Kinds : Copy(kind)

Next ==
  \/ \E c \in Conns, p \in Panes : \E key \in {p, None} : Arrive(c, p, key)
  \/ \E c \in Conns : Serve(c)
  \/ User \/ Tick

Spec == Init /\ [][Next]_vars

\* A connection's goroutine runs, and what it calls returns: an upload notices a
\* dead peer by ServerAliveInterval.  (The route measurement in BestRoute has no
\* such limit; one that hangs is left out.)
Fairness == \A c \in Conns : WF_vars(Serve(c))

FairSpec == Spec /\ Fairness

-----------------------------------------------------------------------------
(* Properties                                                              *)

Uploading(c) == pc[c] \in {"route", "name", "create", "write", "sent", "failed", "record"}

\* A path that is answered or listed as a transfer names a file that holds the
\* whole image the paste read, whatever other pastes, broken connections and
\* retries left in the same directory; no transfer is listed twice.
AnsweredPathHoldsImage ==
  /\ \A c \in Conns :
       pc[c] = "record" \/ conn[c].reply = "path" =>
         [machine |-> conn[c].machine, path |-> conn[c].path,
          serial |-> conn[c].item.serial, whole |-> TRUE] \in files
  /\ \A i \in DOMAIN recent :
       /\ \E f \in files : f.machine = recent[i].machine /\ f.path = recent[i].path /\ f.whole
       /\ \A j \in DOMAIN recent : recent[i] = recent[j] => i = j

\* Where an image goes is decided by one pane: by the name it was bound to when
\* the paste took it for its session, or showed, if that binding named no
\* machine of the configuration (an unknown name is the default host, if there
\* is one); or by a name that was opened in this pane since.  This is the pane
\* the request came from unless the focus was elsewhere meanwhile, and always
\* so if the request named it and its binding resolved.  A paste is refused
\* for want of a machine only if its session shows none of the configuration:
\* a stale binding never stands in the way of the host that is shown.
PasteGoesToItsPane ==
  \A c \in Conns :
    /\ Uploading(c) => /\ conn[c].machine \in {ResolveHost(name) : name \in told[c]}
                       /\ conn[c].key # conn[c].pane => conn[c].moved /\ ~conn[c].bound
    /\ pc[c] = "native" \/ conn[c].reply = "unmatched" => ~conn[c].bound
    /\ conn[c].reply = "unmatched" /\ conn[c].title \in Names => ResolveHost(conn[c].title) = None

\* Every paste is answered.
EveryPasteAnswered == \A c \in Conns : pc[c] # "idle" ~> pc[c] = "idle"
=============================================================================
