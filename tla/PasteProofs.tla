------------------------------ MODULE PasteProofs ------------------------------
(***************************************************************************)
(* Proofs about Paste: an answered path always holds the image, and an     *)
(* image goes where its own pane says.                                     *)
(***************************************************************************)
EXTENDS Paste, TLAPS

Replies == {"none", "path", "text", "nothing", "error", "unmatched"}
Item == [kind : Kinds, serial : Nat]
Conn == [pane : Panes \cup {None}, key : Panes \cup {None}, title : Titles,
         machine : Machines \cup {None}, item : Item,
         route : Routes \cup {None}, attempt : {1, 2}, path : Nat,
         reply : Replies, moved : BOOLEAN, bound : BOOLEAN]

(* The assignments to the local variables of a connection keep their types. *)
LEMMA ConnUpdates ==
  ASSUME NEW q \in Conn
  PROVE  /\ \A r \in Replies :
              [q EXCEPT !.reply = r] \in Conn
         /\ \A k \in Panes, t \in Titles : [q EXCEPT !.key = k, !.title = t] \in Conn
         /\ \A m \in Machines \cup {None} : [q EXCEPT !.machine = m] \in Conn
         /\ \A k \in Kinds : [q EXCEPT !.item.kind = k] \in Conn
         /\ \A n \in Nat, r \in {"none", "text"} :
              [q EXCEPT !.item.serial = n, !.reply = r] \in Conn
         /\ \A r \in Routes \cup {None} : [q EXCEPT !.route = r] \in Conn
         /\ \A r \in Routes \cup {None} : [q EXCEPT !.route = r, !.attempt = 2] \in Conn
         /\ \A n \in Nat : [q EXCEPT !.path = n] \in Conn
         /\ [q EXCEPT !.moved = TRUE] \in Conn
<1>1. \A i \in Item : [q EXCEPT !.item = i] \in Conn
  BY DEF Conn
<1>2. \A i \in Item, r \in {"none", "text"} : [q EXCEPT !.item = i, !.reply = r] \in Conn
  BY DEF Conn, Replies
<1>3. q.item \in Item
  BY DEF Conn
<1>4. /\ \A i \in Item, k \in Kinds : [i EXCEPT !.kind = k] \in Item
      /\ \A i \in Item, n \in Nat : [i EXCEPT !.serial = n] \in Item
  BY DEF Item
<1>5. ASSUME NEW k \in Kinds PROVE [q EXCEPT !.item.kind = k] \in Conn
  <2>1. [q EXCEPT !.item.kind = k] = [q EXCEPT !.item = [q.item EXCEPT !.kind = k]]
    BY DEF Conn
  <2> QED
    BY <1>1, <1>3, <1>4, <2>1
<1>6. ASSUME NEW n \in Nat, NEW r \in {"none", "text"}
      PROVE  [q EXCEPT !.item.serial = n, !.reply = r] \in Conn
  <2>1. [q EXCEPT !.item.serial = n, !.reply = r]
          = [q EXCEPT !.item = [q.item EXCEPT !.serial = n], !.reply = r]
    BY DEF Conn
  <2> QED
    BY <1>2, <1>3, <1>4, <2>1
<1>7. \A r \in Replies : [q EXCEPT !.reply = r] \in Conn
  BY DEF Conn
<1>8. \A k \in Panes, t \in Titles : [q EXCEPT !.key = k, !.title = t] \in Conn
  BY DEF Conn
<1>9. \A m \in Machines \cup {None} : [q EXCEPT !.machine = m] \in Conn
  BY DEF Conn
<1>10. \A r \in Routes \cup {None} : [q EXCEPT !.route = r] \in Conn
  BY DEF Conn
<1>11. \A r \in Routes \cup {None} : [q EXCEPT !.route = r, !.attempt = 2] \in Conn
  BY DEF Conn
<1>12. \A n \in Nat : [q EXCEPT !.path = n] \in Conn
  BY DEF Conn
<1>13. [q EXCEPT !.moved = TRUE] \in Conn
  BY DEF Conn
<1> QED
  BY <1>5, <1>6, <1>7, <1>8, <1>9, <1>10, <1>11, <1>12, <1>13

(* A connection starts with a request of some pane.                         *)
LEMMA NoConnTypes ==
  /\ NoConn \in Conn
  /\ \A p \in Panes, k \in Panes \cup {None}, m, b \in BOOLEAN :
       [NoConn EXCEPT !.pane = p, !.key = k, !.moved = m, !.bound = b] \in Conn
<1>1. NoItem \in Item
  BY DEF NoItem, Item, Kinds
<1>2. NoConn \in Conn
  BY <1>1 DEF NoConn, Conn, Titles, Replies
<1>3. ASSUME NEW p \in Panes, NEW k \in Panes \cup {None}, NEW m \in BOOLEAN, NEW b \in BOOLEAN
      PROVE  [NoConn EXCEPT !.pane = p, !.key = k, !.moved = m, !.bound = b] \in Conn
  BY <1>2 DEF Conn
<1> QED
  BY <1>2, <1>3

-----------------------------------------------------------------------------
(* Resolution answers with a configured machine or none.                    *)
LEMMA ResolvedTypes ==
  ASSUME defaultHost \in Machines \cup {None}, NEW key, NEW t
  PROVE  Resolved(key, t) \in Machines \cup {None}
<1>1. \A name : ResolveHost(name) \in Machines \cup {None}
  BY DEF ResolveHost
<1> QED
  BY <1>1 DEF Resolved

(* The list of transfers is cut at its cap.                                 *)
LEMMA CutTypes ==
  ASSUME NEW s \in Seq(Transfer), NEW t \in Transfer
  PROVE  LET all == <<t>> \o s
             cut == SubSeq(all, 1, IF Len(all) > RecentCap THEN RecentCap ELSE Len(all))
         IN cut \in Seq(Transfer) /\ Len(cut) <= RecentCap
<1> DEFINE all == <<t>> \o s
<1> DEFINE n == IF Len(all) > RecentCap THEN RecentCap ELSE Len(all)
<1>1. all \in Seq(Transfer) /\ Len(all) \in Nat
  OBVIOUS
<1>2. n \in Nat /\ n <= Len(all) /\ n <= RecentCap
  BY <1>1, BoundsAssumption
<1> HIDE DEF all, n
<1>3. SubSeq(all, 1, n) \in Seq(Transfer) /\ Len(SubSeq(all, 1, n)) = n
  BY <1>1, <1>2
<1> QED
  BY <1>2, <1>3 DEF all, n

(* A file that is created or written to the end has the type of a file.     *)
LEMMA FileTypes ==
  ASSUME TypeOK, NEW c \in Conns, conn[c].machine # None, NEW w \in BOOLEAN, Overwrite(c, w)
  PROVE  files' \subseteq File
<1>1. conn[c] \in Conn
  BY DEF TypeOK, Conn, Item, Replies
<1>2. [machine |-> conn[c].machine, path |-> conn[c].path,
       serial |-> conn[c].item.serial, whole |-> w] \in File
  BY <1>1 DEF Conn, Item, File
<1> QED
  BY <1>2 DEF Overwrite, TypeOK

(* A paste that uploads has a machine.                                      *)
HasMachine ==
  \A c \in Conns : Uploading(c) \/ pc[c] \in {"types", "data"} => conn[c].machine # None

Rest == /\ defaultHost \in Machines \cup {None}
        /\ registered \in [Panes -> Names \cup {None}]
        /\ title \in [Panes -> Titles]
        /\ focus \in Panes \cup {None}
        /\ clip \in Item
        /\ clock \in Nat /\ events \in Nat
        /\ files \subseteq File
        /\ recent \in Seq(Transfer) /\ Len(recent) <= RecentCap
        /\ told \in [Conns -> SUBSET Names]
Typed == pc \in [Conns -> Stages] /\ conn \in [Conns -> Conn] /\ Rest

(* TypeOK, in three parts.                                                  *)
LEMMA TypeSplit == TypeOK <=> Typed
  BY DEF TypeOK, Conn, Item, Replies, Rest, Typed

-----------------------------------------------------------------------------
(* The types hold initially.                                                *)
LEMMA TypedInit == Init => Typed /\ HasMachine
<1> SUFFICES ASSUME Init PROVE Typed /\ HasMachine
  OBVIOUS
<1> USE DEF Init
<1>1. pc \in [Conns -> Stages]
  BY DEF Stages
<1>2. conn \in [Conns -> Conn]
  BY NoConnTypes
<1>3. clip \in Item
  BY DEF Item
<1>4. recent \in Seq(Transfer) /\ Len(recent) <= RecentCap
  BY BoundsAssumption
<1>5. HasMachine
  BY DEF HasMachine, Uploading
<1> QED
  BY <1>1, <1>2, <1>3, <1>4, <1>5, MachinesAssumption DEF Typed, Rest

(* A step of a paste keeps the types.                                       *)
LEMMA ServeTyped ==
  ASSUME TypeOK, Typed, HasMachine, NEW c \in Conns, Serve(c)
  PROVE  Typed'
<1> USE DEF Typed
<1>0. conn[c] \in Conn
  OBVIOUS
<1>a. ASSUME NEW q \in Conn, conn' = [conn EXCEPT ![c] = q] PROVE conn' \in [Conns -> Conn]
  BY <1>a
<1>b. ASSUME NEW reply \in Replies, Answer(c, reply) PROVE conn' \in [Conns -> Conn]
  BY <1>0, <1>a, <1>b, ConnUpdates DEF Answer
<1>c. UNCHANGED defaultHost
  BY DEF Serve
<1>d. ASSUME TakeFocused(c) PROVE conn' \in [Conns -> Conn] /\ told' \in [Conns -> SUBSET Names]
  <2>1. focus \in Panes /\ title[focus] \in Titles
    BY <1>d DEF TakeFocused, Rest
  <2>2. Decides(focus) \subseteq Names
    BY <2>1 DEF Decides, Resolves, Bound, Rest
  <2> QED
    BY <1>0, <1>a, <1>d, <2>1, <2>2, ConnUpdates DEF TakeFocused, Rest
<1>1. ASSUME ActiveSession(c) PROVE Typed'
  <2>1. conn' \in [Conns -> Conn]
    BY <1>b, <1>d, <1>1 DEF ActiveSession, Replies
  <2>2. pc' \in [Conns -> Stages]
    BY <1>1 DEF ActiveSession, TakeFocused, Answer, Goto, Stages
  <2>3. Rest'
    BY <1>c, <1>d, <1>1 DEF ActiveSession, Answer, Goto, Rest, user, store
  <2> QED
    BY <2>1, <2>2, <2>3
<1>2. ASSUME Resolve(c) PROVE Typed'
  <2>1. conn' \in [Conns -> Conn]
    BY <1>0, <1>a, <1>b, <1>2, ConnUpdates, ResolvedTypes DEF Resolve, Unresolved, ForgetUnresolved, Rest, Replies
  <2>2. pc' \in [Conns -> Stages]
    BY <1>2 DEF Resolve, Answer, Goto, Unresolved, ForgetUnresolved, Stages
  <2>3. Rest'
    BY <1>c, <1>2 DEF Resolve, Answer, Goto, Unresolved, ForgetUnresolved, Rest, user, store
  <2> QED
    BY <2>1, <2>2, <2>3
<1>3. ASSUME Refocus(c) PROVE Typed'
  <2>1. conn' \in [Conns -> Conn]
    BY <1>b, <1>d, <1>3 DEF Refocus, Unresolved, Replies
  <2>2. pc' \in [Conns -> Stages]
    BY <1>3 DEF Refocus, Answer, Goto, Unresolved, Stages
  <2>3. Rest'
    BY <1>c, <1>d, <1>3 DEF Refocus, Answer, Goto, Unresolved, Rest, user, store
  <2> QED
    BY <2>1, <2>2, <2>3
<1>4. ASSUME ResolveAgain(c) PROVE Typed'
  <2>1. conn' \in [Conns -> Conn]
    BY <1>0, <1>a, <1>b, <1>4, ConnUpdates, ResolvedTypes DEF ResolveAgain, Unresolved, ForgetUnresolved, Rest, Replies
  <2>2. pc' \in [Conns -> Stages]
    BY <1>4 DEF ResolveAgain, Answer, Goto, Unresolved, ForgetUnresolved, Stages
  <2>3. Rest'
    BY <1>c, <1>4 DEF ResolveAgain, Answer, Goto, Unresolved, ForgetUnresolved, Rest, user, store
  <2> QED
    BY <2>1, <2>2, <2>3
<1>5. ASSUME NativePaste(c) PROVE Typed'
  <2>1. conn' \in [Conns -> Conn]
    BY <1>0, <1>a, <1>b, <1>5, ConnUpdates DEF NativePaste, Rest, Replies
  <2>2. pc' \in [Conns -> Stages]
    BY <1>5 DEF NativePaste, Answer, Goto, Stages
  <2>3. Rest'
    BY <1>c, <1>5 DEF NativePaste, Answer, Goto, Rest, user, store
  <2> QED
    BY <2>1, <2>2, <2>3
<1>6. ASSUME ReadTypes(c) PROVE Typed'
  <2>4. clip.kind \in Kinds
    BY DEF Rest, Item
  <2>5. [conn[c] EXCEPT !.item.kind = clip.kind] \in Conn
    BY <1>0, <2>4, ConnUpdates
  <2>1. conn' \in [Conns -> Conn]
    BY <1>a, <1>b, <1>6, <2>5 DEF ReadTypes, Replies
  <2>2. pc' \in [Conns -> Stages]
    BY <1>6 DEF ReadTypes, Answer, Goto, Stages
  <2>3. Rest'
    BY <1>c, <1>6 DEF ReadTypes, Answer, Goto, Rest, user, store
  <2> QED
    BY <2>1, <2>2, <2>3
<1>7. ASSUME ReadData(c) PROVE Typed'
  <2>4. clip.serial \in Nat
    BY DEF Rest, Item
  <2> DEFINE r == IF clip.kind = "text" THEN "text" ELSE "none"
  <2>5. [conn[c] EXCEPT !.item.serial = clip.serial, !.reply = r] \in Conn
    BY <1>0, <2>4, ConnUpdates
  <2>6. Answer(c, "error") \/ conn' = [conn EXCEPT ![c] =
          [conn[c] EXCEPT !.item.serial = clip.serial, !.reply = r]]
    BY <1>7 DEF ReadData
  <2>1. conn' \in [Conns -> Conn]
    BY <1>a, <1>b, <2>5, <2>6 DEF Replies
  <2>2. pc' \in [Conns -> Stages]
    BY <1>7 DEF ReadData, Answer, Goto, Stages
  <2>3. Rest'
    BY <1>c, <1>7 DEF ReadData, Answer, Goto, Rest, user, store
  <2> QED
    BY <2>1, <2>2, <2>3
<1>8. ASSUME NEW r \in Routes \cup {None}, TakeRoute(c, r) PROVE Typed'
  <2>1. conn' \in [Conns -> Conn]
    BY <1>0, <1>a, <1>b, <1>8, ConnUpdates DEF TakeRoute, Rest
  <2>2. pc' \in [Conns -> Stages]
    BY <1>8 DEF TakeRoute, Answer, Goto, Stages
  <2>3. Rest'
    BY <1>c, <1>8 DEF TakeRoute, Answer, Goto, Rest, user, store
  <2> QED
    BY <2>1, <2>2, <2>3
<1>9. ASSUME NEW r \in Routes \cup {None}, RetryOrGiveUp(c, r) PROVE Typed'
  <2>1. conn' \in [Conns -> Conn]
    BY <1>0, <1>a, <1>b, <1>9, ConnUpdates DEF RetryOrGiveUp, Rest, Replies
  <2>2. pc' \in [Conns -> Stages]
    BY <1>9 DEF RetryOrGiveUp, Answer, Goto, Stages
  <2>3. Rest'
    BY <1>c, <1>9 DEF RetryOrGiveUp, Answer, Goto, Rest, user, store
  <2> QED
    BY <2>1, <2>2, <2>3
<1>10. ASSUME NameFile(c) PROVE Typed'
  <2>1. conn' \in [Conns -> Conn]
    BY <1>0, <1>a, <1>b, <1>10, ConnUpdates DEF NameFile, Rest
  <2>2. pc' \in [Conns -> Stages]
    BY <1>10 DEF NameFile, Answer, Goto, Stages
  <2>3. Rest'
    BY <1>c, <1>10 DEF NameFile, Answer, Goto, Rest, user, store
  <2> QED
    BY <2>1, <2>2, <2>3
<1>11. ASSUME Create(c) PROVE Typed'
  <2>1. conn' \in [Conns -> Conn]
    BY <1>0, <1>a, <1>b, <1>11, ConnUpdates DEF Create, Rest
  <2>2. pc' \in [Conns -> Stages]
    BY <1>11 DEF Create, Answer, Goto, Stages
  <2>4. conn[c].machine # None
    BY <1>11 DEF Create, HasMachine, Uploading
  <2>5. files' \subseteq File
    BY <1>11, <2>4, FileTypes DEF Create, Rest
  <2>3. Rest'
    BY <1>c, <1>11, <2>5 DEF Create, Rest, user
  <2> QED
    BY <2>1, <2>2, <2>3
<1>12. ASSUME Write(c) PROVE Typed'
  <2>1. conn' \in [Conns -> Conn]
    BY <1>0, <1>a, <1>b, <1>12, ConnUpdates DEF Write, Rest
  <2>2. pc' \in [Conns -> Stages]
    BY <1>12 DEF Write, Answer, Goto, Stages
  <2>4. conn[c].machine # None
    BY <1>12 DEF Write, HasMachine, Uploading
  <2>5. files' \subseteq File
    BY <1>12, <2>4, FileTypes DEF Write, Rest
  <2>3. Rest'
    BY <1>c, <1>12, <2>5 DEF Write, Rest, user
  <2> QED
    BY <2>1, <2>2, <2>3
<1>13. ASSUME Break(c) PROVE Typed'
  <2>1. conn' \in [Conns -> Conn]
    BY <1>0, <1>a, <1>b, <1>13, ConnUpdates DEF Break, Rest
  <2>2. pc' \in [Conns -> Stages]
    BY <1>13 DEF Break, Answer, Goto, Stages
  <2>3. Rest'
    BY <1>c, <1>13 DEF Break, Answer, Goto, Rest, user, store
  <2> QED
    BY <2>1, <2>2, <2>3
<1>14. ASSUME Sent(c) PROVE Typed'
  <2>1. conn' \in [Conns -> Conn]
    BY <1>0, <1>a, <1>b, <1>14, ConnUpdates DEF Sent, Rest
  <2>2. pc' \in [Conns -> Stages]
    BY <1>14 DEF Sent, Answer, Goto, Stages
  <2>3. Rest'
    BY <1>c, <1>14 DEF Sent, Answer, Goto, Rest, user, store
  <2> QED
    BY <2>1, <2>2, <2>3
<1>15. ASSUME Record(c) PROVE Typed'
  <2>1. conn' \in [Conns -> Conn]
    BY <1>0, <1>a, <1>b, <1>15, ConnUpdates DEF Record, Rest, Replies
  <2>2. pc' \in [Conns -> Stages]
    BY <1>15 DEF Record, Answer, Goto, Stages
  <2> DEFINE t == [machine |-> conn[c].machine, path |-> conn[c].path]
  <2>4. t \in Transfer
    BY <1>0, <1>15 DEF Record, HasMachine, Uploading, Conn, Transfer
  <2>5. recent \in Seq(Transfer)
    BY DEF Rest
  <2> HIDE DEF t
  <2>6. recent' \in Seq(Transfer) /\ Len(recent') <= RecentCap
    BY <1>15, <2>4, <2>5, CutTypes DEF Record, t
  <2>3. Rest'
    BY <1>c, <1>15, <2>6 DEF Record, Rest, user
  <2> QED
    BY <2>1, <2>2, <2>3
<1>16. ASSUME Close(c) PROVE Typed'
  <2>1. conn' \in [Conns -> Conn]
    BY <1>0, <1>a, <1>b, <1>16, ConnUpdates, NoConnTypes DEF Close, Rest
  <2>2. pc' \in [Conns -> Stages]
    BY <1>16 DEF Close, Answer, Goto, Stages
  <2>3. Rest'
    BY <1>c, <1>16 DEF Close, Answer, Goto, Rest, user, store
  <2> QED
    BY <2>1, <2>2, <2>3
<1> QED
  BY <1>1, <1>2, <1>3, <1>4, <1>5, <1>6, <1>7, <1>8, <1>9, <1>10, <1>11, <1>12, <1>13, <1>14, <1>15, <1>16 DEF Serve

(* The user and the clock keep the types.                                   *)
LEMMA UserTyped ==
  ASSUME Typed, User \/ Tick
  PROVE  Typed'
<1> USE DEF Typed, Rest
<1>1. \A c \in Conns : [conn[c] EXCEPT !.moved = TRUE] \in Conn
  BY ConnUpdates
<1>0. UNCHANGED defaultHost
  BY DEF User, Tick
<1>2. ASSUME NEW p \in Panes, NEW name \in Names, NEW hook \in BOOLEAN, OpenSSH(p, name, hook)
      PROVE  Typed'
  BY <1>0, <1>2 DEF OpenSSH, Event, Note, Titles, Names, store
<1>3. ASSUME NEW p \in Panes, NEW t \in {Local, Unknown}, LeaveSSH(p, t) PROVE Typed'
  BY <1>0, <1>3 DEF LeaveSSH, Event, Titles, store
<1>4. ASSUME NEW p \in Panes \cup {None}, MoveFocus(p) PROVE Typed'
  BY <1>0, <1>1, <1>4 DEF MoveFocus, Event, store
<1>5. ASSUME NEW kind \in Kinds, Copy(kind) PROVE Typed'
  BY <1>0, <1>5 DEF Copy, Event, store, Item
<1>6. CASE Tick
  BY <1>0, <1>6 DEF Tick, user, store
<1> QED
  BY <1>2, <1>3, <1>4, <1>5, <1>6 DEF User

(* A request keeps the types.                                               *)
LEMMA ArriveTyped ==
  ASSUME Typed, NEW c \in Conns, NEW p \in Panes, NEW key \in {p, None}, Arrive(c, p, key)
  PROVE  Typed'
<1> USE DEF Typed, Rest
<1>1. [NoConn EXCEPT !.pane = p, !.key = key, !.moved = p # focus, !.bound = Resolves(key)] \in Conn
  <2>1. (p # focus) \in BOOLEAN /\ Resolves(key) \in BOOLEAN
    BY DEF Resolves, Bound
  <2> QED
    BY <2>1, NoConnTypes
<1>2. Decides(p) \subseteq Names
  BY DEF Decides, Resolves, Bound
<1> QED
  BY <1>1, <1>2 DEF Arrive, Goto, Stages, user, store

-----------------------------------------------------------------------------
(* A paste's step touches no other paste.                                   *)
Others(c) == \A d \in Conns \ {c} : conn'[d] = conn[d] /\ pc'[d] = pc[d]

\* Answering ends one paste and touches no other.
LEMMA AnswerLocal ==
  ASSUME Typed, NEW c \in Conns, NEW reply, Answer(c, reply)
  PROVE  /\ Others(c)
         /\ pc'[c] = "done"
         /\ conn'[c] = [conn[c] EXCEPT !.reply = reply]
  BY DEF Typed, Answer, Goto, Others

(* A step of a paste changes no other paste.                                *)
LEMMA ServeLocal ==
  ASSUME Typed, NEW c \in Conns, Serve(c)
  PROVE  Others(c)
<1> USE DEF Typed
<1>1. ASSUME NEW reply, Answer(c, reply) PROVE Others(c)
  BY <1>1, AnswerLocal
<1>2. ASSUME NEW stage, Goto(c, stage), conn' = conn \/ \E q : conn' = [conn EXCEPT ![c] = q]
      PROVE  Others(c)
  BY <1>2 DEF Others, Goto
<1>3. CASE ActiveSession(c)
  BY <1>1, <1>2, <1>3 DEF ActiveSession, TakeFocused
<1>4. ASSUME Unresolved(c) PROVE Others(c)
  BY <1>1, <1>2, <1>4 DEF Unresolved
<1>5. CASE Resolve(c)
  BY <1>2, <1>4, <1>5 DEF Resolve
<1>6. CASE Refocus(c)
  BY <1>2, <1>4, <1>6 DEF Refocus, TakeFocused
<1>7. CASE ResolveAgain(c)
  BY <1>2, <1>4, <1>7 DEF ResolveAgain
<1>8. CASE NativePaste(c)
  BY <1>1, <1>8 DEF NativePaste
<1>9. CASE ReadTypes(c)
  BY <1>1, <1>2, <1>9 DEF ReadTypes
<1>10. CASE ReadData(c)
  BY <1>1, <1>2, <1>10 DEF ReadData
<1>11. CASE \E r \in Routes \cup {None} : TakeRoute(c, r)
  BY <1>2, <1>11 DEF TakeRoute
<1>12. CASE \E r \in Routes \cup {None} : RetryOrGiveUp(c, r)
  BY <1>1, <1>2, <1>12 DEF RetryOrGiveUp
<1>13. CASE NameFile(c)
  BY <1>2, <1>13 DEF NameFile
<1>14. CASE Create(c)
  BY <1>2, <1>14 DEF Create
<1>15. CASE Write(c)
  BY <1>2, <1>15 DEF Write
<1>16. CASE Break(c)
  BY <1>2, <1>16 DEF Break
<1>17. CASE Sent(c)
  BY <1>2, <1>17 DEF Sent
<1>18. CASE Record(c)
  BY <1>1, <1>18 DEF Record
<1>19. CASE Close(c)
  BY <1>2, <1>19 DEF Close
<1> QED
  BY <1>3, <1>5, <1>6, <1>7, <1>8, <1>9, <1>10, <1>11, <1>12, <1>13, <1>14, <1>15, <1>16,
     <1>17, <1>18, <1>19 DEF Serve

(* The machine of a paste is known before the clipboard is read.            *)
Needs == {"types", "data", "route", "name", "create", "write", "sent", "failed", "record"}

\* A step of a paste keeps the machine known.
LEMMA ServeMachine ==
  ASSUME Typed, HasMachine, NEW c \in Conns, Serve(c)
  PROVE  HasMachine'
<1> USE DEF Typed, Needs
<1>1. \A d \in Conns : pc[d] \in Needs => conn[d].machine # None
  BY DEF HasMachine, Uploading
<1>2. SUFFICES pc'[c] \in Needs => conn'[c].machine # None
  BY <1>1, ServeLocal DEF HasMachine, Uploading, Others
<1>0. conn[c] \in Conn
  OBVIOUS
<1>3. ASSUME NEW reply, Answer(c, reply) PROVE pc'[c] \notin Needs
  BY <1>3, AnswerLocal
<1>4. ASSUME Unresolved(c) PROVE pc'[c] \notin Needs
  BY <1>3, <1>4 DEF Unresolved, Goto
<1>5. ASSUME NEW key, NEW t, NEW m, m = Resolved(key, t), m # None,
             conn' = [conn EXCEPT ![c] = [@ EXCEPT !.machine = m]]
      PROVE  conn'[c].machine # None
  BY <1>0, <1>5 DEF Conn
<1>6. CASE ActiveSession(c)
  BY <1>3, <1>6 DEF ActiveSession, Goto
<1>7. CASE Resolve(c)
  BY <1>4, <1>5, <1>7 DEF Resolve, Goto
<1>8. CASE Refocus(c)
  BY <1>4, <1>8 DEF Refocus, Goto
<1>9. CASE ResolveAgain(c)
  BY <1>4, <1>5, <1>9 DEF ResolveAgain, Goto
<1>10. CASE NativePaste(c)
  BY <1>3, <1>10 DEF NativePaste
<1>11. CASE ReadTypes(c)
  <2>1. pc[c] \in Needs
    BY <1>11 DEF ReadTypes
  <2>2. CASE Answer(c, "error")
    BY <1>3, <2>2
  <2>3. CASE ~Answer(c, "error")
    BY <1>0, <1>1, <1>11, <2>1, <2>3 DEF ReadTypes, Conn
  <2> QED
    BY <2>2, <2>3
<1>12. CASE ReadData(c)
  <2>1. pc[c] \in Needs
    BY <1>12 DEF ReadData
  <2>2. CASE Answer(c, "error")
    BY <1>3, <2>2
  <2>3. CASE ~Answer(c, "error")
    BY <1>0, <1>1, <1>12, <2>1, <2>3, ZenonT(60) DEF ReadData, Conn
  <2> QED
    BY <2>2, <2>3
<1>13. CASE \E r \in Routes \cup {None} : TakeRoute(c, r)
  BY <1>0, <1>1, <1>13 DEF TakeRoute, Conn
<1>14. ASSUME NEW r \in Routes \cup {None}, RetryOrGiveUp(c, r)
       PROVE  pc'[c] \in Needs => conn'[c].machine # None
  <2>1. conn[c].machine # None
    BY <1>1, <1>14 DEF RetryOrGiveUp
  <2>2. CASE Answer(c, "error")
    BY <1>3, <2>2
  <2>3. CASE conn' = [conn EXCEPT ![c] = [@ EXCEPT !.route = r, !.attempt = 2]]
    BY <1>0, <2>1, <2>3 DEF Conn
  <2> QED
    BY <1>14, <2>2, <2>3 DEF RetryOrGiveUp
<1>15. CASE NameFile(c)
  BY <1>0, <1>1, <1>15 DEF NameFile, Conn
<1>16. CASE Create(c) \/ Write(c) \/ Break(c) \/ Sent(c)
  BY <1>1, <1>16 DEF Create, Write, Break, Sent
<1>17. CASE Record(c)
  BY <1>3, <1>17 DEF Record
<1>18. CASE Close(c)
  BY <1>18 DEF Close, Goto
<1> QED
  BY <1>6, <1>7, <1>8, <1>9, <1>10, <1>11, <1>12, <1>13, <1>14, <1>15, <1>16, <1>17, <1>18
     DEF Serve

(* The user and the clock leave every machine alone; a request has none yet. *)
LEMMA UserMachine ==
  ASSUME Typed, HasMachine, User \/ Tick
  PROVE  HasMachine'
<1>1. pc' = pc
  BY DEF User, OpenSSH, LeaveSSH, MoveFocus, Copy, Tick
<1>2. conn' = conn \/ \E p \in Panes \cup {None} : MoveFocus(p)
  BY DEF User, OpenSSH, LeaveSSH, Copy, Tick
<1>3. \A c \in Conns : conn'[c].machine = conn[c].machine
  BY <1>2 DEF MoveFocus, Typed, Conn
<1> QED
  BY <1>1, <1>3 DEF HasMachine, Uploading

(* A request starts without a machine.                                      *)
LEMMA ArriveMachine ==
  ASSUME Typed, HasMachine, NEW c \in Conns, NEW p \in Panes, NEW key \in {p, None},
         Arrive(c, p, key)
  PROVE  HasMachine'
<1>1. pc'[c] \in {"active", "resolve"}
  BY DEF Arrive, Goto, Typed
<1>2. Others(c)
  BY DEF Arrive, Goto, Others, Typed
<1> QED
  BY <1>1, <1>2 DEF HasMachine, Uploading, Others

(* The types and the machines are inductive.                                *)
LEMMA TypedStep ==
  ASSUME Typed, HasMachine, [Next]_vars
  PROVE  Typed' /\ HasMachine'
<1>1. CASE \E c \in Conns, p \in Panes : \E key \in {p, None} : Arrive(c, p, key)
  BY <1>1, ArriveTyped, ArriveMachine
<1>2. CASE \E c \in Conns : Serve(c)
  BY <1>2, TypeSplit, ServeTyped, ServeMachine
<1>3. CASE User \/ Tick
  BY <1>3, UserTyped, UserMachine
<1>4. CASE UNCHANGED vars
  BY <1>4 DEF vars, Typed, Rest, HasMachine, Uploading
<1> QED
  BY <1>1, <1>2, <1>3, <1>4 DEF Next

(* Every variable always has its type, and the list of transfers its cap.   *)
THEOREM TypeCorrect == Spec => []TypeOK
<1>1. Typed /\ HasMachine /\ [Next]_vars => Typed' /\ HasMachine'
  BY TypedStep
<1> QED
  BY <1>1, TypedInit, TypeSplit, PTL DEF Spec

-----------------------------------------------------------------------------
(* An answered path holds the image.  A paste owns the file it created from *)
(* then until its answer is gone; no two pastes own the same file, because  *)
(* Create refuses a file that exists.                                       *)
Owns(c) == pc[c] \in {"write", "sent", "record"} \/ conn[c].reply = "path"
Image(c, w) == [machine |-> conn[c].machine, path |-> conn[c].path,
                serial |-> conn[c].item.serial, whole |-> w]

RepliesLast == \A c \in Conns : conn[c].reply = "path" => pc[c] = "done"
FilesKept == \A c \in Conns : Owns(c) => Image(c, pc[c] # "write") \in files
FilesApart ==
  \A c \in Conns, d \in Conns :
    c # d /\ Owns(c) /\ Owns(d) =>
      conn[c].machine # conn[d].machine \/ conn[c].path # conn[d].path
FilesInv == RepliesLast /\ FilesKept /\ FilesApart

(* What a step of a paste can do to its file: nothing it owns afterwards,   *)
(* create it, write it to the end, or carry it on to the answer.            *)
Drops(c) == files' = files /\ pc'[c] \notin {"write", "sent", "record"} /\ conn'[c].reply # "path"
Creates(c) == /\ Stored(conn[c].machine, conn[c].path) = {} /\ Overwrite(c, FALSE)
              /\ pc[c] = "create" /\ pc'[c] = "write" /\ conn'[c] = conn[c]
Writes(c) == /\ Overwrite(c, TRUE)
             /\ pc[c] = "write" /\ pc'[c] = "sent" /\ conn'[c] = conn[c]
Carries(c) == /\ files' = files /\ pc[c] \in {"sent", "record"}
              /\ conn'[c].machine = conn[c].machine /\ conn'[c].path = conn[c].path
              /\ conn'[c].item = conn[c].item
              /\ \/ pc'[c] = "record" /\ conn'[c].reply = conn[c].reply
                 \/ pc'[c] = "done"

(* Every step of a paste does one of these.                                 *)
LEMMA ServeFiles ==
  ASSUME Typed, RepliesLast, NEW c \in Conns, Serve(c)
  PROVE  Drops(c) \/ Creates(c) \/ Writes(c) \/ Carries(c)
<1> USE DEF Typed
<1>0. conn[c] \in Conn /\ (pc[c] # "done" => conn[c].reply # "path")
  BY DEF RepliesLast
<1>1. ASSUME NEW reply \in {"text", "nothing", "error", "unmatched"}, Answer(c, reply), files' = files
      PROVE  Drops(c)
  <2>1. conn'[c] = [conn[c] EXCEPT !.reply = reply] /\ pc'[c] = "done"
    BY <1>1, AnswerLocal
  <2>2. conn'[c].reply = reply
    BY <1>0, <2>1 DEF Conn
  <2> QED
    BY <1>1, <2>1, <2>2 DEF Drops
<1>2. ASSUME NEW stage \in Stages \ {"write", "sent", "record"}, Goto(c, stage), files' = files,
             pc[c] # "done",
             conn'[c].reply # "path"
      PROVE  Drops(c)
  BY <1>2 DEF Drops, Goto
<1>3. ASSUME Unresolved(c), files' = files, pc[c] # "done" PROVE Drops(c)
  BY <1>0, <1>1, <1>2, <1>3 DEF Unresolved, Stages
<1>4. CASE ActiveSession(c)
  <2>1. CASE Answer(c, "error")
    BY <1>1, <1>4, <2>1 DEF ActiveSession, store
  <2>2. CASE ~Answer(c, "error")
    BY <1>0, <1>2, <1>4, <2>2, ZenonT(60) DEF ActiveSession, TakeFocused, store, Conn, Stages
  <2> QED
    BY <2>1, <2>2
<1>5. CASE Resolve(c)
  <2>1. files' = files /\ pc[c] # "done"
    BY <1>5 DEF Resolve, store
  <2>2. CASE Unresolved(c)
    BY <1>3, <2>1, <2>2
  <2>3. CASE ~Unresolved(c)
    BY <1>0, <1>2, <1>5, <2>1, <2>3 DEF Resolve, Conn, Stages
  <2> QED
    BY <2>2, <2>3
<1>6. CASE Refocus(c)
  <2>1. files' = files /\ pc[c] # "done"
    BY <1>6 DEF Refocus, store
  <2>2. CASE Unresolved(c)
    BY <1>3, <2>1, <2>2
  <2>3. CASE TakeFocused(c) /\ Goto(c, "again")
    <3>1. conn'[c] = [conn[c] EXCEPT !.key = focus, !.title = title[focus]]
      BY <1>0, <2>3 DEF TakeFocused
    <3>2. conn'[c].reply = conn[c].reply
      BY <1>0, <3>1 DEF Conn
    <3> QED
      BY <1>0, <1>2, <2>1, <2>3, <3>2 DEF Stages
  <2> QED
    BY <1>6, <2>2, <2>3 DEF Refocus
<1>7. CASE ResolveAgain(c)
  <2>1. files' = files /\ pc[c] # "done"
    BY <1>7 DEF ResolveAgain, store
  <2>2. CASE Unresolved(c)
    BY <1>3, <2>1, <2>2
  <2>3. CASE ~Unresolved(c)
    BY <1>0, <1>2, <1>7, <2>1, <2>3 DEF ResolveAgain, Conn, Stages
  <2> QED
    BY <2>2, <2>3
<1>8. CASE NativePaste(c)
  BY <1>1, <1>8 DEF NativePaste, store
<1>9. CASE ReadTypes(c)
  <2>1. files' = files /\ pc[c] # "done"
    BY <1>9 DEF ReadTypes, store
  <2>2. CASE Answer(c, "error")
    BY <1>1, <2>1, <2>2
  <2>3. CASE ~Answer(c, "error")
    BY <1>0, <1>2, <1>9, <2>1, <2>3 DEF ReadTypes, Conn, Stages
  <2> QED
    BY <2>2, <2>3
<1>10. CASE ReadData(c)
  <2> DEFINE r == IF clip.kind = "text" THEN "text" ELSE "none"
  <2> DEFINE q == [conn[c] EXCEPT !.item.serial = clip.serial, !.reply = r]
  <2>1. files' = files /\ pc[c] # "done"
    BY <1>10 DEF ReadData, store
  <2>2. CASE Answer(c, "error")
    BY <1>1, <2>1, <2>2
  <2>3. q.reply = r
    BY <1>0 DEF Conn
  <2>4. CASE conn' = [conn EXCEPT ![c] = q]
             /\ Goto(c, IF clip.kind = "text" THEN "done" ELSE "route")
    <3>1. conn'[c] = q
      BY <2>4
    <3> QED
      BY <1>2, <2>1, <2>3, <2>4, <3>1 DEF Stages
  <2> QED
    BY <1>10, <2>2, <2>4 DEF ReadData
<1>11. ASSUME NEW r \in Routes \cup {None}, TakeRoute(c, r) PROVE Drops(c)
  BY <1>0, <1>2, <1>11 DEF TakeRoute, store, Conn, Stages
<1>12. ASSUME NEW r \in Routes \cup {None}, RetryOrGiveUp(c, r) PROVE Drops(c)
  <2>1. files' = files /\ pc[c] # "done"
    BY <1>12 DEF RetryOrGiveUp, store
  <2>2. CASE Answer(c, "error")
    BY <1>1, <2>1, <2>2
  <2>3. CASE conn' = [conn EXCEPT ![c] = [@ EXCEPT !.route = r, !.attempt = 2]] /\ Goto(c, "name")
    BY <1>0, <1>2, <2>1, <2>3 DEF Conn, Stages
  <2> QED
    BY <1>12, <2>2, <2>3 DEF RetryOrGiveUp
<1>13. CASE NameFile(c)
  BY <1>0, <1>2, <1>13 DEF NameFile, store, Conn, Stages
<1>14. CASE Create(c)
  BY <1>0, <1>14 DEF Create, Drops, Creates, Goto
<1>15. CASE Write(c)
  BY <1>15 DEF Write, Writes, Goto
<1>16. CASE Break(c)
  BY <1>0, <1>16 DEF Break, Drops, Goto, store
<1>17. CASE Sent(c)
  BY <1>17 DEF Sent, Carries, Goto, store
<1>18. CASE Record(c)
  BY <1>0, <1>18, AnswerLocal DEF Record, Carries, Conn
<1>19. CASE Close(c)
  BY <1>19 DEF Close, Drops, Goto, NoConn, store
<1> QED
  BY <1>4, <1>5, <1>6, <1>7, <1>8, <1>9, <1>10, <1>11, <1>12, <1>13, <1>14, <1>15, <1>16,
     <1>17, <1>18, <1>19 DEF Serve

(* Owned files stay as they are: no step of a paste disturbs another's.     *)
LEMMA ServeKeepsFiles ==
  ASSUME Typed, FilesInv, NEW c \in Conns, Serve(c)
  PROVE  FilesInv'
<1> USE DEF Typed
<1>0. conn[c] \in Conn /\ RepliesLast /\ FilesKept /\ FilesApart /\ Others(c)
  BY ServeLocal DEF FilesInv
<1>1. \A d \in Conns \ {c} :
        /\ Owns(d)' = Owns(d)
        /\ conn'[d] = conn[d] /\ pc'[d] = pc[d]
  BY <1>0 DEF Others, Owns
<1>2. CASE Drops(c)
  <2>1. ~Owns(c)'
    BY <1>2 DEF Drops, Owns
  <2>2. RepliesLast'
    BY <1>0, <1>1, <1>2 DEF RepliesLast, Drops
  <2>3. FilesKept'
    BY <1>0, <1>1, <1>2, <2>1 DEF FilesKept, Drops, Image
  <2>4. FilesApart'
    BY <1>0, <1>1, <2>1 DEF FilesApart
  <2> QED
    BY <2>2, <2>3, <2>4 DEF FilesInv
<1>3. CASE Creates(c)
  <2>1. ASSUME NEW d \in Conns \ {c}, Owns(d)
        PROVE  /\ Image(d, pc[d] # "write") \in files
               /\ conn[c].machine # conn[d].machine \/ conn[c].path # conn[d].path
    BY <1>0, <1>3, <2>1 DEF FilesKept, Creates, Stored, Image
  <2>2. RepliesLast'
    BY <1>0, <1>1, <1>3 DEF RepliesLast, Creates
  <2>3. ASSUME NEW d \in Conns \ {c}, Owns(d)' PROVE (Image(d, pc[d] # "write") \in files)'
    BY <1>1, <1>3, <2>1, <2>3 DEF Creates, Overwrite, Stored, Image
  <2>4. (Image(c, pc[c] # "write") \in files)'
    BY <1>3 DEF Creates, Overwrite, Image
  <2>5. FilesKept'
    BY <2>3, <2>4 DEF FilesKept
  <2>6. FilesApart'
    BY <1>0, <1>1, <1>3, <2>1 DEF FilesApart, Creates
  <2> QED
    BY <2>2, <2>5, <2>6 DEF FilesInv
<1>4. CASE Writes(c)
  <2>1. Owns(c)
    BY <1>4 DEF Writes, Owns
  <2>2. RepliesLast'
    BY <1>0, <1>1, <1>4 DEF RepliesLast, Writes
  <2>3. ASSUME NEW d \in Conns \ {c}, Owns(d)' PROVE (Image(d, pc[d] # "write") \in files)'
    <3>1. Owns(d) /\ Image(d, pc[d] # "write") \in files
      BY <1>0, <1>1, <2>3 DEF FilesKept
    <3>2. conn[c].machine # conn[d].machine \/ conn[c].path # conn[d].path
      BY <1>0, <2>1, <3>1 DEF FilesApart
    <3> QED
      BY <1>1, <1>4, <3>1, <3>2 DEF Writes, Overwrite, Stored, Image
  <2>4. (Image(c, pc[c] # "write") \in files)'
    BY <1>4 DEF Writes, Overwrite, Image
  <2>5. FilesKept'
    BY <2>3, <2>4 DEF FilesKept
  <2>6. FilesApart'
    BY <1>0, <1>1, <1>4, <2>1 DEF FilesApart, Writes
  <2> QED
    BY <2>2, <2>5, <2>6 DEF FilesInv
<1>5. CASE Carries(c)
  <2>1. Owns(c) /\ pc[c] # "write" /\ pc'[c] # "write"
    BY <1>5 DEF Carries, Owns
  <2>2. RepliesLast'
    BY <1>0, <1>1, <1>5 DEF RepliesLast, Carries
  <2>3. FilesKept'
    BY <1>0, <1>1, <1>5, <2>1 DEF FilesKept, Carries, Image
  <2>4. FilesApart'
    BY <1>0, <1>1, <1>5, <2>1 DEF FilesApart, Carries
  <2> QED
    BY <2>2, <2>3, <2>4 DEF FilesInv
<1> QED
  BY <1>0, <1>2, <1>3, <1>4, <1>5, ServeFiles

(* Requests, the user and the clock leave the files alone.                  *)
LEMMA RestKeepsFiles ==
  ASSUME Typed, FilesInv,
         \/ User \/ Tick \/ UNCHANGED vars
         \/ \E c \in Conns, p \in Panes : \E key \in {p, None} : Arrive(c, p, key)
  PROVE  FilesInv'
<1> DEFINE Same(d) == /\ pc'[d] = pc[d] /\ conn'[d].machine = conn[d].machine
                      /\ conn'[d].path = conn[d].path /\ conn'[d].item = conn[d].item
                      /\ conn'[d].reply = conn[d].reply
<1>1. ASSUME files' = files,
             \A d \in Conns : Same(d) \/ (~Owns(d)' /\ conn'[d].reply # "path")
      PROVE  FilesInv'
  BY <1>1 DEF FilesInv, RepliesLast, FilesKept, FilesApart, Owns, Image
<1>2. ASSUME NEW c \in Conns, NEW p \in Panes, NEW key \in {p, None}, Arrive(c, p, key)
      PROVE  FilesInv'
  <2>1. conn'[c] = [NoConn EXCEPT !.pane = p, !.key = key, !.moved = p # focus, !.bound = Resolves(key)]
    BY <1>2 DEF Arrive, Typed
  <2>2. conn'[c].reply # "path"
    BY <2>1 DEF NoConn
  <2>3. pc'[c] \in {"active", "resolve"} /\ files' = files
    BY <1>2 DEF Arrive, Goto, store, Typed
  <2>4. \A d \in Conns \ {c} : Same(d)
    BY <1>2 DEF Arrive, Goto, Typed
  <2> QED
    BY <1>1, <2>2, <2>3, <2>4 DEF Owns
<1>3. CASE User \/ Tick \/ UNCHANGED vars
  <2>1. files' = files /\ pc' = pc
    BY <1>3 DEF User, OpenSSH, LeaveSSH, MoveFocus, Copy, Tick, store, vars
  <2>2. conn' = conn \/ \E p \in Panes \cup {None} : MoveFocus(p)
    BY <1>3 DEF User, OpenSSH, LeaveSSH, Copy, Tick, vars
  <2>3. \A d \in Conns : Same(d)
    BY <2>1, <2>2 DEF MoveFocus, Typed, Conn
  <2> QED
    BY <1>1, <2>1, <2>3
<1> QED
  BY <1>2, <1>3

(* What is listed: files that are there in full, each once, none of a paste *)
(* that is still to be listed.                                              *)
Line(c) == [machine |-> conn[c].machine, path |-> conn[c].path]
Listed == \A i \in DOMAIN recent :
  \E f \in files : f.machine = recent[i].machine /\ f.path = recent[i].path /\ f.whole
ListedOnce == \A i, j \in DOMAIN recent : recent[i] = recent[j] => i = j
NotYetListed == \A c \in Conns :
  pc[c] \in {"write", "sent", "record"} => \A i \in DOMAIN recent : recent[i] # Line(c)
ListInv == Listed /\ ListedOnce /\ NotYetListed

(* A step of a paste keeps the list: a new file has no line yet, and        *)
(* recordTransfer puts the line of a file that is there in front.           *)
LEMMA ServeKeepsList ==
  ASSUME Typed, FilesInv, ListInv, NEW c \in Conns, Serve(c)
  PROVE  ListInv'
<1>0. Others(c) /\ conn[c] \in Conn /\ conn \in [Conns -> Conn] /\ recent \in Seq(Transfer)
  BY ServeLocal DEF Typed, Rest
<1>1. \A d \in Conns \ {c} : Line(d)' = Line(d) /\ pc'[d] = pc[d]
  BY <1>0 DEF Others, Line
<1>2. CASE Record(c)
  <2> DEFINE all == <<Line(c)>> \o recent
             n == IF Len(all) > RecentCap THEN RecentCap ELSE Len(all)
  <2>1. recent' = SubSeq(all, 1, n) /\ files' = files /\ pc[c] = "record" /\ pc'[c] = "done"
    BY <1>0, <1>2, AnswerLocal DEF Record, Line, Typed
  <2>2. /\ Line(c) \in Transfer
        /\ Len(all) = Len(recent) + 1 /\ n \in Nat /\ n <= Len(all)
    <3>1. conn[c].machine \in Machines
      <4>1. Image(c, TRUE) \in files
        BY <2>1 DEF FilesInv, FilesKept, Owns
      <4> QED BY <4>1 DEF Typed, Rest, File, Image
    <3>2. Line(c) \in Transfer
      BY <1>0, <3>1 DEF Line, Transfer, Conn
    <3> QED BY <1>0, <3>2, BoundsAssumption
  <2>3. all \in Seq(Transfer) /\ all[1] = Line(c) /\ \A i \in 2..Len(all) : all[i] = recent[i - 1]
    BY <1>0, <2>2
  <2>4. DOMAIN recent' = 1..n /\ \A i \in 1..n : recent'[i] = all[i]
    BY <2>1, <2>2, <2>3
  <2>5. \A i \in DOMAIN recent' : \/ i = 1 /\ recent'[i] = Line(c)
                                  \/ i > 1 /\ i - 1 \in DOMAIN recent /\ recent'[i] = recent[i - 1]
    BY <1>0, <2>2, <2>3, <2>4
  <2>6. \A i \in DOMAIN recent : recent[i] # Line(c)
    BY <2>1 DEF ListInv, NotYetListed
  <2>7. Listed'
    <3>1. Image(c, TRUE) \in files
      BY <2>1 DEF FilesInv, FilesKept, Owns
    <3>2. \E f \in files : f.machine = Line(c).machine /\ f.path = Line(c).path /\ f.whole
      BY <3>1 DEF Image, Line
    <3>3. ASSUME NEW i \in DOMAIN recent'
          PROVE  \E f \in files : f.machine = recent'[i].machine /\ f.path = recent'[i].path /\ f.whole
      <4>1. CASE recent'[i] = Line(c)
        BY <3>2, <4>1
      <4>2. CASE i - 1 \in DOMAIN recent /\ recent'[i] = recent[i - 1]
        BY <4>2 DEF ListInv, Listed
      <4> QED BY <2>5, <4>1, <4>2
    <3> QED BY <2>1, <3>3 DEF Listed
  <2>8. ListedOnce'
    BY <2>2, <2>4, <2>5, <2>6 DEF ListInv, ListedOnce
  <2>9. ASSUME NEW d \in Conns \ {c}, pc[d] \in {"write", "sent", "record"}
        PROVE  Line(d) # Line(c)
    BY <2>1, <2>9 DEF FilesInv, FilesApart, Owns, Line
  <2>10. NotYetListed'
    <3>1. ASSUME NEW d \in Conns, pc'[d] \in {"write", "sent", "record"}, NEW i \in DOMAIN recent'
          PROVE  recent'[i] # Line(d)'
      <4>1. d # c /\ pc[d] \in {"write", "sent", "record"} /\ Line(d)' = Line(d)
        BY <1>1, <2>1, <3>1
      <4>2. Line(d) # Line(c) /\ \A j \in DOMAIN recent : recent[j] # Line(d)
        BY <2>9, <4>1 DEF ListInv, NotYetListed
      <4> QED BY <2>5, <4>1, <4>2
    <3> QED BY <3>1 DEF NotYetListed
  <2> QED BY <2>7, <2>8, <2>10 DEF ListInv
<1>3. CASE recent' = recent
  <2>1. CASE Drops(c) \/ Carries(c)
    <3>1. files' = files
      BY <2>1 DEF Drops, Carries
    <3>2. pc'[c] \in {"write", "sent", "record"} => pc[c] \in {"sent", "record"} /\ Line(c)' = Line(c)
      BY <2>1 DEF Drops, Carries, Line
    <3> QED BY <1>1, <1>3, <3>1, <3>2 DEF ListInv, Listed, ListedOnce, NotYetListed
  <2>2. CASE Creates(c)
    <3>1. files \subseteq files' /\ Line(c)' = Line(c)
      BY <2>2 DEF Creates, Overwrite, Line
    <3>2. \A i \in DOMAIN recent : recent[i] # Line(c)
      BY <2>2 DEF Creates, Stored, ListInv, Listed, Line
    <3> QED BY <1>1, <1>3, <3>1, <3>2 DEF ListInv, Listed, ListedOnce, NotYetListed
  <2>3. CASE Writes(c)
    <3>1. pc[c] = "write" /\ Line(c)' = Line(c)
      BY <2>3 DEF Writes, Line
    <3>2. \A f \in files : f \in files' \/ (Image(c, TRUE) \in files'
                             /\ f.machine = Image(c, TRUE).machine /\ f.path = Image(c, TRUE).path)
      BY <2>3 DEF Writes, Overwrite, Stored, Image
    <3>3. Image(c, TRUE).whole
      BY DEF Image
    <3>4. Listed'
      BY <1>3, <3>2, <3>3 DEF ListInv, Listed
    <3> QED BY <1>1, <1>3, <3>1, <3>4 DEF ListInv, ListedOnce, NotYetListed
  <2> QED BY <2>1, <2>2, <2>3, ServeFiles DEF FilesInv
<1>4. recent' = recent \/ Record(c)
  BY DEF Serve, ActiveSession, Resolve, Refocus, ResolveAgain, NativePaste, ReadTypes, ReadData,
     TakeRoute, RetryOrGiveUp, NameFile, Create, Write, Break, Sent, Close, store
<1> QED BY <1>2, <1>3, <1>4

(* Requests, the user and the clock leave the list alone.                   *)
LEMMA RestKeepsList ==
  ASSUME Typed, ListInv,
         \/ User \/ Tick \/ UNCHANGED vars
         \/ \E c \in Conns, p \in Panes : \E key \in {p, None} : Arrive(c, p, key)
  PROVE  ListInv'
<1>1. files' = files /\ recent' = recent
  BY DEF User, OpenSSH, LeaveSSH, MoveFocus, Copy, Tick, Arrive, store, vars
<1>2. ASSUME NEW d \in Conns, pc'[d] \in {"write", "sent", "record"}
      PROVE  pc'[d] = pc[d] /\ Line(d)' = Line(d)
  <2>1. CASE \E c \in Conns, p \in Panes : \E key \in {p, None} : Arrive(c, p, key)
    BY <1>2, <2>1 DEF Arrive, Goto, Typed, Line
  <2>2. CASE User \/ Tick \/ UNCHANGED vars
    <3>1. pc' = pc /\ (conn' = conn \/ \E p \in Panes \cup {None} : MoveFocus(p))
      BY <2>2 DEF User, OpenSSH, LeaveSSH, MoveFocus, Copy, Tick, vars
    <3> QED BY <3>1 DEF MoveFocus, Typed, Conn, Line
  <2> QED BY <2>1, <2>2
<1> QED BY <1>1, <1>2 DEF ListInv, Listed, ListedOnce, NotYetListed

(* A path that is answered or listed names a file that holds the whole      *)
(* image the paste read, and none is listed twice.                          *)
THEOREM AnsweredPathHoldsImageAlways == Spec => []AnsweredPathHoldsImage
<1>1. Init => FilesInv /\ ListInv
  BY DEF Init, NoConn, FilesInv, RepliesLast, FilesKept, FilesApart, Owns,
     ListInv, Listed, ListedOnce, NotYetListed
<1>2. Typed /\ FilesInv /\ ListInv /\ [Next]_vars => FilesInv' /\ ListInv'
  BY ServeKeepsFiles, RestKeepsFiles, ServeKeepsList, RestKeepsList DEF Next
<1>3. FilesInv /\ ListInv => AnsweredPathHoldsImage
  <2> SUFFICES ASSUME FilesInv, ListInv PROVE AnsweredPathHoldsImage
    OBVIOUS
  <2>1. ASSUME NEW c \in Conns, pc[c] = "record" \/ conn[c].reply = "path"
        PROVE  Image(c, TRUE) \in files
    <3>1. Owns(c) /\ pc[c] # "write"
      BY <2>1 DEF Owns, FilesInv, RepliesLast
    <3> QED
      BY <3>1 DEF FilesInv, FilesKept
  <2> QED
    BY <2>1 DEF AnsweredPathHoldsImage, Image, ListInv, Listed, ListedOnce
<1>4. Typed /\ HasMachine /\ [Next]_vars => Typed' /\ HasMachine'
  BY TypedStep
<1> QED
  BY <1>1, <1>2, <1>3, <1>4, TypedInit, PTL DEF Spec

-----------------------------------------------------------------------------
(* An image goes where one pane says.  What decides for the pane a paste    *)
(* has taken for its session has been noted: its binding if that resolves,  *)
(* else the host in the title the paste keeps.                              *)
Chosen(c) == conn[c].machine \in {ResolveHost(name) : name \in told[c]}
Decided(c) ==
  /\ Resolves(conn[c].key) => registered[conn[c].key] \in told[c]
  /\ conn[c].key # None /\ ~Resolves(conn[c].key) =>
       DetectedHost(conn[c].title) \in told[c] \cup {None}
  /\ conn[c].key = None => DetectedHost(conn[c].title) = None /\ pc[c] \notin Needs
  /\ pc[c] \in Needs => Chosen(c)

(* The session is the pane the request came from unless the focus was       *)
(* elsewhere, and a pane that was named and bound is never given up.        *)
OwnPane(c) ==
  /\ ~conn[c].moved => focus = conn[c].pane
  /\ conn[c].key \notin {None, conn[c].pane} => conn[c].moved
  /\ conn[c].bound => /\ conn[c].key = conn[c].pane /\ Resolves(conn[c].key)
                      /\ pc[c] \in {"resolve", "done"} \cup Needs
                      /\ conn[c].reply # "unmatched"

(* Only a session that shows no machine is refused.                         *)
NoneShown(c) == DetectedHost(conn[c].title) = None \/ ResolveHost(DetectedHost(conn[c].title)) = None
Refusal(c) ==
  /\ pc[c] = "refocus" => NoneShown(c)
  /\ conn[c].reply = "unmatched" => pc[c] = "done" /\ NoneShown(c)

PaneInv ==
  \A c \in Conns : IF pc[c] = "idle" THEN conn[c].reply # "unmatched"
                   ELSE Decided(c) /\ OwnPane(c) /\ Refusal(c)

(* What a step of a paste leaves alone.                                     *)
Calm == /\ defaultHost' = defaultHost /\ focus' = focus
        /\ registered' = registered \/ \E key \in Panes \cup {None} : ForgetUnresolved(key)
Ghosts(c) == /\ conn'[c].pane = conn[c].pane /\ conn'[c].moved = conn[c].moved
             /\ conn'[c].bound = conn[c].bound
Keeps(c) == Ghosts(c) /\ conn'[c].key = conn[c].key /\ conn'[c].title = conn[c].title
Quiet(c) == conn'[c].reply \in {conn[c].reply, "error", "path", "text", "nothing", "none"}

(* The focused pane becomes the session.                                    *)
Turns(c) ==
  /\ pc[c] \in {"active", "refocus"} /\ pc'[c] \in {"resolve", "again"}
  /\ Ghosts(c) /\ Quiet(c) /\ registered' = registered
  /\ focus # None /\ conn'[c].key = focus /\ conn'[c].title = title[focus]
  /\ told' = [told EXCEPT ![c] = Decides(focus)]

(* The machine is found; it is used; the paste is over.                     *)
Finds(c) == /\ pc[c] \in {"resolve", "again"} /\ pc'[c] = "types" /\ Quiet(c)
            /\ conn'[c].machine = Resolved(conn[c].key, conn[c].title)
            /\ Resolved(conn[c].key, conn[c].title) # None
Uses(c) == /\ pc[c] \in Needs /\ pc'[c] \in Needs /\ Quiet(c)
           /\ conn'[c].machine = conn[c].machine
Ends(c) == pc[c] \in Needs \cup {"active", "native"} /\ pc'[c] = "done" /\ Quiet(c)

(* No machine is found: the paste asks for the active session or is refused. *)
Misses(c) ==
  /\ pc[c] \in {"resolve", "refocus", "again"}
  /\ pc[c] # "refocus" => ~Resolves(conn[c].key) /\ NoneShown(c)
  /\ \/ pc[c] = "resolve" /\ pc'[c] = "refocus" /\ Quiet(c)
     \/ pc'[c] = "native" /\ Quiet(c)
     \/ pc'[c] = "done"

Looks(c) ==
  /\ Calm
  /\ \/ Turns(c)
     \/ Keeps(c) /\ told' = told /\ (Finds(c) \/ Uses(c) \/ Ends(c) \/ Misses(c))

(* An assignment to another local variable leaves what a paste looks at.    *)
LEMMA SameUpdates ==
  ASSUME NEW q \in Conn
  PROVE  LET Ghost(x) == x.pane = q.pane /\ x.moved = q.moved /\ x.bound = q.bound
             Same(x) == Ghost(x) /\ x.key = q.key /\ x.title = q.title
         IN  /\ \A r : LET x == [q EXCEPT !.reply = r]
                       IN Same(x) /\ x.machine = q.machine /\ x.reply = r
             /\ \A m : LET x == [q EXCEPT !.machine = m]
                       IN Same(x) /\ x.machine = m /\ x.reply = q.reply
             /\ \A k : LET x == [q EXCEPT !.item.kind = k]
                       IN Same(x) /\ x.machine = q.machine /\ x.reply = q.reply
             /\ \A n, r : LET x == [q EXCEPT !.item.serial = n, !.reply = r]
                          IN Same(x) /\ x.machine = q.machine /\ x.reply = r
             /\ \A r : LET x == [q EXCEPT !.route = r]
                       IN Same(x) /\ x.machine = q.machine /\ x.reply = q.reply
             /\ \A r, n : LET x == [q EXCEPT !.route = r, !.attempt = n]
                          IN Same(x) /\ x.machine = q.machine /\ x.reply = q.reply
             /\ \A n : LET x == [q EXCEPT !.path = n]
                       IN Same(x) /\ x.machine = q.machine /\ x.reply = q.reply
             /\ \A k, t : LET x == [q EXCEPT !.key = k, !.title = t]
                          IN Ghost(x) /\ x.key = k /\ x.title = t /\ x.reply = q.reply
  BY DEF Conn

(* Every step of a paste but the last only looks so.                        *)
LEMMA ServeLooks ==
  ASSUME Typed, NEW c \in Conns, Serve(c), pc'[c] # "idle"
  PROVE  Looks(c)
<1> USE DEF Typed
<1> DEFINE Idles == told' = told /\ focus' = focus /\ registered' = registered
<1> DEFINE Still == Keeps(c) /\ conn'[c].machine = conn[c].machine /\ Quiet(c)
<1> DEFINE Forgets == told' = told /\ focus' = focus /\ ForgetUnresolved(conn[c].key)
<1>0. conn[c] \in Conn /\ defaultHost' = defaultHost /\ conn[c].key \in Panes \cup {None}
  BY DEF Serve, Conn
<1>1. ASSUME Idles \/ Forgets PROVE Calm /\ told' = told
  BY <1>0, <1>1 DEF Calm
<1>2. ASSUME Idles, Still,
             pc[c] \in Needs,
             pc'[c] \in Needs \cup {"done"}
      PROVE  Looks(c)
  BY <1>1, <1>2 DEF Looks, Uses, Ends
<1>3. ASSUME NEW reply, Answer(c, reply)
      PROVE  Keeps(c) /\ pc'[c] = "done" /\ conn'[c].reply = reply
             /\ conn'[c].machine = conn[c].machine
  <2>1. conn'[c] = [conn[c] EXCEPT !.reply = reply] /\ pc'[c] = "done"
    BY <1>3, AnswerLocal
  <2> QED
    BY <1>0, <2>1, SameUpdates DEF Keeps, Ghosts
<1>4. ASSUME NEW reply \in {"error", "path", "nothing"}, Answer(c, reply), Idles,
             pc[c] \in Needs \cup {"active", "native"}
      PROVE  Looks(c)
  BY <1>1, <1>3, <1>4 DEF Looks, Ends, Quiet
<1>5. ASSUME Unresolved(c) PROVE Keeps(c) /\ (pc'[c] = "done" \/ (pc'[c] = "native" /\ Quiet(c)))
  <2>1. CASE Answer(c, "unmatched")
    BY <1>3, <2>1
  <2>2. CASE Goto(c, "native") /\ UNCHANGED conn
    BY <2>2 DEF Goto, Keeps, Ghosts, Quiet
  <2> QED
    BY <1>5, <2>1, <2>2 DEF Unresolved
<1>6. ASSUME TakeFocused(c), focus' = focus, registered' = registered,
             pc[c] \in {"active", "refocus"}, pc'[c] \in {"resolve", "again"}
      PROVE  Looks(c)
  <2>1. conn'[c] = [conn[c] EXCEPT !.key = focus, !.title = title[focus]]
    BY <1>0, <1>6 DEF TakeFocused
  <2>2. /\ Ghosts(c) /\ conn'[c].key = focus /\ conn'[c].title = title[focus]
        /\ conn'[c].reply = conn[c].reply
    BY <1>0, <2>1, SameUpdates DEF Ghosts
  <2>3. Turns(c)
    BY <1>6, <2>2 DEF Turns, TakeFocused, Quiet
  <2> QED
    BY <1>0, <1>6, <2>3 DEF Looks, Calm
<1>7. ASSUME Forgets, pc[c] \in {"resolve", "again"}, pc'[c] = "types",
             conn' = [conn EXCEPT ![c] = [@ EXCEPT !.machine = Resolved(conn[c].key, conn[c].title)]],
             Resolved(conn[c].key, conn[c].title) # None
      PROVE  Looks(c)
  <2> DEFINE m == Resolved(conn[c].key, conn[c].title)
  <2>1. conn'[c] = [conn[c] EXCEPT !.machine = m]
    BY <1>0, <1>7
  <2> HIDE DEF m
  <2>2. Keeps(c) /\ conn'[c].machine = m /\ Quiet(c)
    BY <1>0, <2>1, SameUpdates DEF Keeps, Ghosts, Quiet
  <2>3. Finds(c)
    BY <1>7, <2>2 DEF Finds, m
  <2> QED
    BY <1>1, <1>7, <2>2, <2>3 DEF Looks
<1>8. ASSUME Resolved(conn[c].key, conn[c].title) = None
      PROVE  ~Resolves(conn[c].key) /\ NoneShown(c)
  BY <1>8 DEF Resolved, Resolves, NoneShown
<1>9. CASE ActiveSession(c)
  <2>1. CASE Answer(c, "error") /\ UNCHANGED told
    BY <1>4, <1>9, <2>1 DEF ActiveSession, user
  <2>2. CASE TakeFocused(c) /\ Goto(c, "resolve")
    BY <1>6, <1>9, <2>2 DEF ActiveSession, Goto, user
  <2> QED
    BY <1>9, <2>1, <2>2 DEF ActiveSession
<1>10. CASE Resolve(c)
  <2> DEFINE m == Resolved(conn[c].key, conn[c].title)
  <2>1. Forgets /\ pc[c] = "resolve"
    BY <1>10 DEF Resolve, user
  <2>2. CASE m # None /\ conn' = [conn EXCEPT ![c] = [@ EXCEPT !.machine = m]] /\ Goto(c, "types")
    BY <1>7, <2>1, <2>2 DEF Goto
  <2>3. CASE m = None /\ DetectedHost(conn[c].title) = None /\ Goto(c, "refocus") /\ UNCHANGED conn
    <3>1. Keeps(c) /\ Quiet(c) /\ pc'[c] = "refocus"
      BY <2>3 DEF Goto, Keeps, Ghosts, Quiet
    <3> QED
      BY <1>1, <1>8, <2>1, <2>3, <3>1 DEF Looks, Misses
  <2>4. CASE m = None /\ Unresolved(c)
    BY <1>1, <1>5, <1>8, <2>1, <2>4 DEF Looks, Misses
  <2> QED
    BY <1>10, <2>2, <2>3, <2>4 DEF Resolve
<1>11. CASE Refocus(c)
  <2>1. CASE Unresolved(c) /\ UNCHANGED told
    <3>1. Idles /\ pc[c] = "refocus"
      BY <1>11, <2>1 DEF Refocus, user
    <3> QED
      BY <1>1, <1>5, <2>1, <3>1 DEF Looks, Misses
  <2>2. CASE TakeFocused(c) /\ Goto(c, "again")
    BY <1>6, <1>11, <2>2 DEF Refocus, Goto, user
  <2> QED
    BY <1>11, <2>1, <2>2 DEF Refocus
<1>12. CASE ResolveAgain(c)
  <2> DEFINE m == Resolved(conn[c].key, conn[c].title)
  <2>1. Forgets /\ pc[c] = "again"
    BY <1>12 DEF ResolveAgain, user
  <2>2. CASE m # None
    BY <1>7, <1>12, <2>1, <2>2 DEF ResolveAgain, Goto
  <2>3. CASE m = None
    <3>1. Unresolved(c)
      BY <1>12, <2>3 DEF ResolveAgain
    <3> QED
      BY <1>1, <1>5, <1>8, <2>1, <2>3, <3>1 DEF Looks, Misses
  <2> QED
    BY <2>2, <2>3
<1>13. CASE NativePaste(c)
  BY <1>4, <1>13 DEF NativePaste, user
<1>14. CASE ReadTypes(c)
  <2>1. Idles /\ pc[c] \in Needs
    BY <1>14 DEF ReadTypes, user, Needs
  <2>2. CASE Answer(c, "error")
    BY <1>4, <2>1, <2>2
  <2>3. CASE conn' = [conn EXCEPT ![c] = [@ EXCEPT !.item.kind = clip.kind]] /\ Goto(c, "data")
    <3>1. conn'[c] = [conn[c] EXCEPT !.item.kind = clip.kind] /\ pc'[c] \in Needs
      BY <1>0, <2>3 DEF Goto, Needs
    <3>2. Still
      BY <1>0, <3>1, SameUpdates DEF Keeps, Ghosts, Quiet
    <3> QED
      BY <1>2, <2>1, <3>1, <3>2
  <2> QED
    BY <1>14, <2>2, <2>3 DEF ReadTypes
<1>15. CASE ReadData(c)
  <2>1. Idles /\ pc[c] \in Needs
    BY <1>15 DEF ReadData, user, Needs
  <2> DEFINE r == IF clip.kind = "text" THEN "text" ELSE "none"
  <2>2. CASE Answer(c, "error")
    BY <1>4, <2>1, <2>2
  <2>3. CASE /\ conn' = [conn EXCEPT ![c] = [@ EXCEPT !.item.serial = clip.serial, !.reply = r]]
             /\ Goto(c, IF clip.kind = "text" THEN "done" ELSE "route")
    <3>1. conn'[c] = [conn[c] EXCEPT !.item.serial = clip.serial, !.reply = r]
      BY <1>0, <2>3
    <3>2. pc'[c] \in Needs \cup {"done"} /\ r \in {"text", "none"}
      BY <2>3 DEF Goto, Needs
    <3> HIDE DEF r
    <3>3. Still
      BY <1>0, <3>1, <3>2, SameUpdates DEF Keeps, Ghosts, Quiet
    <3> QED
      BY <1>2, <2>1, <3>2, <3>3
  <2> QED
    BY <1>15, <2>2, <2>3 DEF ReadData
<1>16. ASSUME NEW r \in Routes \cup {None}, TakeRoute(c, r) PROVE Looks(c)
  <2>1. Idles /\ pc[c] \in Needs /\ pc'[c] \in Needs
    BY <1>16 DEF TakeRoute, user, Needs, Goto
  <2>2. conn'[c] = [conn[c] EXCEPT !.route = r]
    BY <1>0, <1>16 DEF TakeRoute
  <2>3. Still
    BY <1>0, <2>2, SameUpdates DEF Keeps, Ghosts, Quiet
  <2> QED
    BY <1>2, <2>1, <2>3
<1>17. ASSUME NEW r \in Routes \cup {None}, RetryOrGiveUp(c, r) PROVE Looks(c)
  <2>1. Idles /\ pc[c] \in Needs
    BY <1>17 DEF RetryOrGiveUp, user, Needs
  <2>2. CASE Answer(c, "error")
    BY <1>4, <2>1, <2>2
  <2>3. CASE conn' = [conn EXCEPT ![c] = [@ EXCEPT !.route = r, !.attempt = 2]] /\ Goto(c, "name")
    <3>1. conn'[c] = [conn[c] EXCEPT !.route = r, !.attempt = 2] /\ pc'[c] \in Needs
      BY <1>0, <2>3 DEF Goto, Needs
    <3>2. Still
      BY <1>0, <3>1, SameUpdates DEF Keeps, Ghosts, Quiet
    <3> QED
      BY <1>2, <2>1, <3>1, <3>2
  <2> QED
    BY <1>17, <2>2, <2>3 DEF RetryOrGiveUp
<1>18. CASE NameFile(c)
  <2>1. Idles /\ pc[c] \in Needs /\ pc'[c] \in Needs
    BY <1>18 DEF NameFile, user, Needs, Goto
  <2>2. conn'[c] = [conn[c] EXCEPT !.path = clock]
    BY <1>0, <1>18 DEF NameFile
  <2>3. Still
    BY <1>0, <2>2, SameUpdates DEF Keeps, Ghosts, Quiet
  <2> QED
    BY <1>2, <2>1, <2>3
<1>19. CASE Create(c) \/ Write(c) \/ Break(c) \/ Sent(c)
  <2>1. Idles /\ pc[c] \in Needs /\ pc'[c] \in Needs /\ conn' = conn
    BY <1>19 DEF Create, Write, Break, Sent, user, Needs, Goto
  <2>2. Still
    BY <2>1 DEF Keeps, Ghosts, Quiet
  <2> QED
    BY <1>2, <2>1, <2>2
<1>20. CASE Record(c)
  <2>1. Idles /\ pc[c] \in Needs /\ Answer(c, "path")
    BY <1>20 DEF Record, user, Needs
  <2> QED
    BY <1>4, <2>1
<1>21. CASE Close(c)
  BY <1>21 DEF Close, Goto
<1> QED
  BY <1>9, <1>10, <1>11, <1>12, <1>13, <1>14, <1>15, <1>16, <1>17, <1>18, <1>19, <1>20, <1>21
     DEF Serve

(* Forgetting a binding changes no pane whose binding resolves.             *)
StillResolves(k) == k # None /\ registered'[k] # None /\ ResolveHost(registered'[k]) # None

\* What resolves before a calm step resolves after it, and to the same.
LEMMA CalmResolves ==
  ASSUME Typed, Calm
  PROVE  /\ \A name : ResolveHost(name)' = ResolveHost(name)
         /\ \A c \in Conns : Resolves(conn[c].key)' <=> StillResolves(conn'[c].key)
         /\ \A k \in Panes \cup {None} :
              /\ StillResolves(k) <=> Resolves(k)
              /\ Resolves(k) => registered'[k] = registered[k]
<1> USE DEF Typed, Rest
<1>1. \A name : ResolveHost(name)' = ResolveHost(name)
  BY DEF Calm, ResolveHost
<1>2. ASSUME NEW k \in Panes \cup {None}
      PROVE  /\ StillResolves(k) <=> Resolves(k)
             /\ Resolves(k) => registered'[k] = registered[k]
  <2>1. CASE registered' = registered
    BY <1>1, <2>1 DEF StillResolves, Resolves, Bound
  <2>2. ASSUME NEW key \in Panes \cup {None}, ForgetUnresolved(key)
        PROVE  /\ StillResolves(k) <=> Resolves(k)
               /\ Resolves(k) => registered'[k] = registered[k]
    <3>1. CASE Bound(key) /\ ~Resolves(key)
      <4>1. registered' = [registered EXCEPT ![key] = None] /\ key \in Panes
        BY <2>2, <3>1 DEF ForgetUnresolved, Bound
      <4>2. CASE k = key
        BY <3>1, <4>1, <4>2 DEF StillResolves, Resolves, Bound
      <4>3. CASE k # key
        BY <1>1, <4>1, <4>3, NoneAssumption DEF StillResolves, Resolves, Bound
      <4> QED
        BY <4>2, <4>3
    <3>2. CASE ~(Bound(key) /\ ~Resolves(key))
      BY <2>1, <2>2, <3>2 DEF ForgetUnresolved
    <3> QED
      BY <3>1, <3>2
  <2> QED
    BY <2>1, <2>2 DEF Calm
<1>3. \A c \in Conns : Resolves(conn[c].key)' <=> StillResolves(conn'[c].key)
  BY DEF Calm, StillResolves, Resolves, Bound, ResolveHost
<1> QED
  BY <1>1, <1>2, <1>3

(* What a paste resolves to comes from a name that was noted.               *)
LEMMA DecidedResolves ==
  ASSUME Typed, NEW c \in Conns, Decided(c), Resolved(conn[c].key, conn[c].title) # None
  PROVE  /\ Resolved(conn[c].key, conn[c].title) \in {ResolveHost(name) : name \in told[c]}
         /\ conn[c].key # None
<1>1. CASE Resolves(conn[c].key)
  BY <1>1 DEF Resolved, Decided, Resolves, Bound
<1>2. CASE ~Resolves(conn[c].key)
  <2>1. DetectedHost(conn[c].title) # None
    BY <1>2 DEF Resolved
  <2>2. conn[c].key # None /\ DetectedHost(conn[c].title) \in told[c]
    BY <1>2, <2>1 DEF Decided
  <2> QED
    BY <1>2, <2>1, <2>2 DEF Resolved
<1> QED
  BY <1>1, <1>2

(* A paste that another one's step leaves alone stays as it is.             *)
LEMMA OtherKept ==
  ASSUME Typed, PaneInv, Calm, NEW d \in Conns,
         conn'[d] = conn[d], pc'[d] = pc[d], told'[d] = told[d]
  PROVE  IF pc'[d] = "idle" THEN conn'[d].reply # "unmatched"
         ELSE Decided(d)' /\ OwnPane(d)' /\ Refusal(d)'
<1>1. CASE pc[d] = "idle"
  BY <1>1 DEF PaneInv
<1>2. CASE pc[d] # "idle"
  <2>1. Decided(d) /\ OwnPane(d) /\ Refusal(d) /\ conn[d].key \in Panes \cup {None}
    BY <1>2 DEF PaneInv, Typed, Conn
  <2>2. Decided(d)'
    BY <2>1, CalmResolves DEF Decided, Chosen, DetectedHost
  <2>3. OwnPane(d)'
    BY <2>1, CalmResolves DEF OwnPane, Calm
  <2>4. Refusal(d)'
    BY <2>1, CalmResolves DEF Refusal, NoneShown, DetectedHost
  <2> QED
    BY <1>2, <2>2, <2>3, <2>4
<1> QED
  BY <1>1, <1>2

(* A paste that takes the focused pane for its session is decided by it.    *)
LEMMA TurnsKeeps ==
  ASSUME Typed, PaneInv, NEW c \in Conns, Calm, Turns(c)
  PROVE  Decided(c)' /\ OwnPane(c)' /\ Refusal(c)'
<1>1. Decided(c) /\ OwnPane(c) /\ Refusal(c)
  BY DEF PaneInv, Turns
<1>2. focus \in Panes /\ told'[c] = Decides(focus) /\ pc'[c] \notin Needs
  BY DEF Turns, Typed, Rest, Needs
<1>3. Decided(c)'
  <2>1. registered' = registered /\ conn'[c].key = focus /\ conn'[c].title = title[focus] /\ focus # None
    BY DEF Turns
  <2>2. Resolves(conn[c].key)' <=> Resolves(focus)
    BY <1>2, <2>1, CalmResolves
  <2>3. Resolves(focus) => registered[focus] \in Decides(focus)
    BY DEF Decides
  <2>4. ~Resolves(focus) => DetectedHost(title[focus]) \in Decides(focus) \cup {None}
    BY DEF Decides, DetectedHost
  <2>5. DetectedHost(conn[c].title)' = DetectedHost(title[focus])
    BY <2>1 DEF DetectedHost
  <2> QED
    BY <1>2, <2>1, <2>2, <2>3, <2>4, <2>5 DEF Decided
<1>4. OwnPane(c)'
  BY <1>1 DEF OwnPane, Turns, Ghosts, Calm, Needs
<1>5. Refusal(c)'
  BY <1>1 DEF Refusal, Turns, Quiet
<1> QED
  BY <1>3, <1>4, <1>5

(* So is one that keeps its session.                                        *)
LEMMA KeepsKeeps ==
  ASSUME Typed, PaneInv, NEW c \in Conns, Calm, Keeps(c), told' = told,
         Finds(c) \/ Uses(c) \/ Ends(c) \/ Misses(c)
  PROVE  Decided(c)' /\ OwnPane(c)' /\ Refusal(c)'
<1>1. Decided(c) /\ OwnPane(c) /\ Refusal(c) /\ conn[c].key \in Panes \cup {None}
  BY DEF PaneInv, Finds, Uses, Ends, Misses, Needs, Typed, Conn
<1>2. /\ conn'[c].key = conn[c].key /\ conn'[c].title = conn[c].title
      /\ conn'[c].pane = conn[c].pane /\ conn'[c].moved = conn[c].moved
      /\ conn'[c].bound = conn[c].bound
  BY DEF Keeps, Ghosts
<1>3. /\ Resolves(conn[c].key)' <=> Resolves(conn[c].key)
      /\ Resolves(conn[c].key) => registered'[conn'[c].key] = registered[conn[c].key]
      /\ DetectedHost(conn[c].title)' = DetectedHost(conn[c].title)
      /\ NoneShown(c)' <=> NoneShown(c)
  <2>1. DetectedHost(conn[c].title)' = DetectedHost(conn[c].title)
    BY <1>2 DEF DetectedHost
  <2>2. Resolves(conn[c].key)' <=> Resolves(conn[c].key)
    BY <1>1, <1>2, CalmResolves
  <2>3. NoneShown(c)' <=> NoneShown(c)
    BY <2>1, CalmResolves DEF NoneShown, ResolveHost
  <2> QED
    BY <1>1, <1>2, <2>1, <2>2, <2>3, CalmResolves
<1>4. pc'[c] \in Needs => Chosen(c)' /\ conn[c].key # None
  <2>1. CASE Uses(c)
    BY <1>1, <2>1, CalmResolves DEF Uses, Decided, Chosen, ResolveHost, Calm
  <2>2. CASE Finds(c)
    BY <1>1, <2>2, CalmResolves, DecidedResolves DEF Finds, Chosen, ResolveHost, Calm
  <2>3. CASE Ends(c) \/ Misses(c)
    BY <2>3 DEF Ends, Misses, Needs
  <2> QED
    BY <2>1, <2>2, <2>3
<1>5. Decided(c)'
  BY <1>1, <1>2, <1>3, <1>4 DEF Decided
<1>6. OwnPane(c)'
  <2>1. /\ conn[c].bound => /\ pc'[c] \in {"resolve", "done"} \cup Needs
                            /\ conn'[c].reply # "unmatched"
    <3> SUFFICES ASSUME conn[c].bound
                 PROVE  /\ pc'[c] \in {"resolve", "done"} \cup Needs
                        /\ conn'[c].reply # "unmatched"
      OBVIOUS
    <3>1. /\ Resolves(conn[c].key) /\ pc[c] \in {"resolve", "done"} \cup Needs
          /\ conn[c].reply # "unmatched"
      BY <1>1 DEF OwnPane
    <3>2. ~Misses(c)
      BY <3>1 DEF Misses, Needs
    <3> QED
      BY <3>1, <3>2 DEF Finds, Uses, Ends, Quiet, Needs
  <2> QED
    BY <1>1, <1>2, <1>3, <2>1 DEF OwnPane, Calm
<1>7. Refusal(c)'
  <2>1. CASE Misses(c)
    BY <1>1, <1>3, <2>1 DEF Misses, Refusal, Quiet
  <2>2. CASE Finds(c) \/ Uses(c) \/ Ends(c)
    BY <1>1, <1>3, <2>2 DEF Finds, Uses, Ends, Refusal, Quiet, Needs
  <2> QED
    BY <2>1, <2>2
<1> QED
  BY <1>5, <1>6, <1>7

(* A step of a paste keeps every paste with its pane.                       *)
LEMMA ServePanes ==
  ASSUME Typed, PaneInv, NEW c \in Conns, Serve(c)
  PROVE  PaneInv'
<1>0. Others(c)
  BY ServeLocal
<1>1. CASE pc'[c] # "idle"
  <2>1. Looks(c)
    BY <1>1, ServeLooks
  <2>2. Decided(c)' /\ OwnPane(c)' /\ Refusal(c)'
    BY <2>1, TurnsKeeps, KeepsKeeps DEF Looks
  <2>3. ASSUME NEW d \in Conns \ {c}
        PROVE  IF pc'[d] = "idle" THEN conn'[d].reply # "unmatched"
               ELSE Decided(d)' /\ OwnPane(d)' /\ Refusal(d)'
    <3>1. Calm /\ conn'[d] = conn[d] /\ pc'[d] = pc[d] /\ told'[d] = told[d]
      BY <1>0, <2>1 DEF Others, Looks, Turns, Typed, Rest
    <3> QED
      BY <3>1, OtherKept
  <2> QED
    BY <1>1, <2>2, <2>3 DEF PaneInv
<1>2. CASE pc'[c] = "idle"
  <2>1. Close(c)
    <3>1. \A stage : Goto(c, stage) => pc'[c] = stage
      BY DEF Goto, Typed
    <3>2. \A reply : ~Answer(c, reply)
      BY <1>2, <3>1 DEF Answer
    <3>3. ~Unresolved(c)
      BY <1>2, <3>1, <3>2 DEF Unresolved
    <3> QED
      BY <1>2, <3>1, <3>2, <3>3
         DEF Serve, ActiveSession, Resolve, Refocus, ResolveAgain, NativePaste, ReadTypes, ReadData,
             TakeRoute, RetryOrGiveUp, NameFile, Create, Write, Break, Sent, Record
  <2>2. conn'[c].reply # "unmatched"
    BY <2>1 DEF Close, NoConn, Typed
  <2>3. Calm
    BY <2>1 DEF Calm, Close, Serve, user
  <2>4. ASSUME NEW d \in Conns \ {c}
        PROVE  IF pc'[d] = "idle" THEN conn'[d].reply # "unmatched"
               ELSE Decided(d)' /\ OwnPane(d)' /\ Refusal(d)'
    <3>1. conn'[d] = conn[d] /\ pc'[d] = pc[d] /\ told'[d] = told[d]
      BY <1>0, <2>1 DEF Others, Close, Typed, Rest
    <3> QED
      BY <2>3, <3>1, OtherKept
  <2> QED
    BY <1>2, <2>2, <2>4 DEF PaneInv
<1> QED
  BY <1>1, <1>2

(* What the user does is noted, or takes the focus away.                    *)
LEMMA UserPanes ==
  ASSUME Typed, PaneInv, User \/ Tick \/ UNCHANGED vars
  PROVE  PaneInv'
<1>0. defaultHost' = defaultHost
  BY DEF User, Tick, vars
<1>1. ASSUME UNCHANGED <<registered, focus, pc, conn, told>> PROVE PaneInv'
  <2>1. Calm
    BY <1>0, <1>1 DEF Calm
  <2> QED
    BY <1>1, <2>1, OtherKept DEF PaneInv
<1>2. ASSUME NEW p \in Panes, NEW name \in Names, NEW hook \in BOOLEAN, OpenSSH(p, name, hook)
      PROVE  PaneInv'
  <2> SUFFICES ASSUME NEW c \in Conns
               PROVE  IF pc'[c] = "idle" THEN conn'[c].reply # "unmatched"
                      ELSE Decided(c)' /\ OwnPane(c)' /\ Refusal(c)'
    BY DEF PaneInv
  <2>1. pc' = pc /\ conn' = conn /\ focus' = focus
    BY <1>2 DEF OpenSSH
  <2>2. CASE pc[c] = "idle"
    BY <2>1, <2>2 DEF PaneInv
  <2>3. CASE pc[c] # "idle"
    <3> DEFINE k == conn[c].key
    <3>1. Decided(c) /\ OwnPane(c) /\ Refusal(c) /\ k \in Panes \cup {None}
      BY <2>3 DEF PaneInv, Typed, Conn
    <3>2. \A n : ResolveHost(n)' = ResolveHost(n)
      BY <1>0 DEF ResolveHost
    <3>3. told[c] \subseteq told'[c] /\ (k = p => name \in told'[c])
      BY <1>2 DEF OpenSSH, Note
    <3>4. k # None => registered'[k] = registered[k] \/ (k = p /\ registered'[k] = name /\ name \in Machines)
      BY <1>2, <3>1 DEF OpenSSH, Typed, Rest
    <3>5. name \in Machines => name # None /\ ResolveHost(name) = name
      BY NoneAssumption DEF ResolveHost, Names
    <3>6. /\ Resolves(k) => Resolves(conn[c].key)'
          /\ Resolves(conn[c].key)' => registered'[k] \in told'[c]
      <4>1. CASE k = None
        BY <2>1, <4>1 DEF Resolves, Bound
      <4>2. CASE k # None /\ registered'[k] = registered[k]
        <5>1. Resolves(conn[c].key)' <=> Resolves(k)
          BY <2>1, <3>2, <4>2 DEF Resolves, Bound, ResolveHost
        <5> QED
          BY <3>1, <3>3, <4>2, <5>1 DEF Decided
      <4>3. CASE k # None /\ k = p /\ registered'[k] = name /\ name \in Machines
        BY <2>1, <3>2, <3>3, <3>5, <4>3 DEF Resolves, Bound, ResolveHost
      <4> QED
        BY <3>4, <4>1, <4>2, <4>3
    <3>7. Decided(c)'
      BY <2>1, <3>1, <3>2, <3>3, <3>6 DEF Decided, Chosen, DetectedHost
    <3>8. OwnPane(c)'
      BY <2>1, <3>1, <3>6 DEF OwnPane
    <3>9. Refusal(c)'
      BY <2>1, <3>1, <3>2 DEF Refusal, NoneShown, DetectedHost
    <3> QED
      BY <2>1, <2>3, <3>7, <3>8, <3>9
  <2> QED
    BY <2>2, <2>3
<1>3. ASSUME NEW p \in Panes, NEW t \in {Local, Unknown}, LeaveSSH(p, t) PROVE PaneInv'
  BY <1>1, <1>3 DEF LeaveSSH
<1>4. ASSUME NEW p \in Panes \cup {None}, MoveFocus(p) PROVE PaneInv'
  <2> SUFFICES ASSUME NEW c \in Conns
               PROVE  IF pc'[c] = "idle" THEN conn'[c].reply # "unmatched"
                      ELSE Decided(c)' /\ OwnPane(c)' /\ Refusal(c)'
    BY DEF PaneInv
  <2>1. pc' = pc /\ told' = told /\ registered' = registered
    BY <1>4 DEF MoveFocus
  <2>2. CASE pc[c] = "idle"
    BY <1>4, <2>1, <2>2 DEF PaneInv, MoveFocus
  <2>3. CASE pc[c] # "idle"
    <3>1. Decided(c) /\ OwnPane(c) /\ Refusal(c) /\ conn[c] \in Conn
      BY <2>3 DEF PaneInv, Typed
    <3>2. conn'[c] = [conn[c] EXCEPT !.moved = TRUE]
      BY <1>4, <2>3 DEF MoveFocus
    <3>3. /\ conn'[c].moved /\ conn'[c].pane = conn[c].pane /\ conn'[c].key = conn[c].key
          /\ conn'[c].title = conn[c].title /\ conn'[c].bound = conn[c].bound
          /\ conn'[c].machine = conn[c].machine /\ conn'[c].reply = conn[c].reply
      BY <3>1, <3>2 DEF Conn
    <3>4. \A n : ResolveHost(n)' = ResolveHost(n)
      BY <1>0 DEF ResolveHost
    <3>5. Resolves(conn[c].key)' <=> Resolves(conn[c].key)
      BY <1>0, <2>1, <3>3 DEF Resolves, Bound, ResolveHost
    <3>6. Decided(c)'
      BY <2>1, <3>1, <3>3, <3>4, <3>5 DEF Decided, Chosen, DetectedHost
    <3>7. OwnPane(c)'
      BY <2>1, <3>1, <3>3, <3>5 DEF OwnPane
    <3>8. Refusal(c)'
      BY <2>1, <3>1, <3>3, <3>4 DEF Refusal, NoneShown, DetectedHost
    <3> QED
      BY <2>1, <2>3, <3>6, <3>7, <3>8
  <2> QED
    BY <2>2, <2>3
<1>5. CASE (\E kind \in Kinds : Copy(kind)) \/ Tick \/ UNCHANGED vars
  BY <1>1, <1>5 DEF Copy, Tick, user, vars
<1> QED
  BY <1>2, <1>3, <1>4, <1>5 DEF User

(* A request starts with its own pane or with none.                         *)
LEMMA ArrivePanes ==
  ASSUME Typed, PaneInv, NEW c \in Conns, NEW p \in Panes, NEW key \in {p, None},
         Arrive(c, p, key)
  PROVE  PaneInv'
<1>1. /\ UNCHANGED <<defaultHost, registered, focus>>
      /\ \A d \in Conns \ {c} : conn'[d] = conn[d] /\ pc'[d] = pc[d] /\ told'[d] = told[d]
      /\ pc'[c] = IF key = None THEN "active" ELSE "resolve"
      /\ told'[c] = IF key = None THEN {} ELSE Decides(p)
  BY DEF Arrive, user, Goto, Typed, Rest
<1>2. conn'[c] = [NoConn EXCEPT !.pane = p, !.key = key, !.moved = p # focus, !.bound = Resolves(key)]
  BY DEF Arrive, Typed
<1>3. /\ conn'[c].pane = p /\ conn'[c].key = key /\ conn'[c].title = Unknown
      /\ conn'[c].moved = (p # focus) /\ conn'[c].bound = Resolves(key) /\ conn'[c].reply = "none"
  BY <1>2 DEF NoConn
<1>4. DetectedHost(conn[c].title)' = None
  BY <1>3, TitlesAssumption DEF DetectedHost
<1>5. Resolves(conn[c].key)' <=> Resolves(key)
  BY <1>1, <1>3 DEF Resolves, Bound, ResolveHost
<1>6. Resolves(key) => key = p /\ key # None
  BY DEF Resolves, Bound
<1>7. pc'[c] \notin Needs /\ pc'[c] \in {"active", "resolve"}
  BY <1>1 DEF Needs
<1>8. Decided(c)'
  BY <1>1, <1>3, <1>4, <1>5, <1>6, <1>7 DEF Decided, Decides
<1>9. OwnPane(c)'
  BY <1>1, <1>3, <1>5, <1>6 DEF OwnPane
<1>10. Refusal(c)'
  BY <1>3, <1>7 DEF Refusal
<1>11. Calm
  BY <1>1 DEF Calm
<1> QED
  BY <1>1, <1>7, <1>8, <1>9, <1>10, <1>11, OtherKept DEF PaneInv

(* An image goes to a machine that one pane decides on, by its binding or,  *)
(* where that names no machine, by what it shows; that pane is the one the  *)
(* request came from unless the focus was elsewhere, and always if it was   *)
(* named and bound; and no paste is refused whose session shows a machine.  *)
THEOREM PasteGoesToItsPaneAlways == Spec => []PasteGoesToItsPane
<1>1. Init => PaneInv
  BY DEF Init, NoConn, PaneInv
<1>2. Typed /\ PaneInv /\ [Next]_vars => PaneInv'
  BY ServePanes, UserPanes, ArrivePanes DEF Next
<1>3. PaneInv => PasteGoesToItsPane
  <2> SUFFICES ASSUME PaneInv, NEW c \in Conns
               PROVE  /\ Uploading(c) => /\ Chosen(c)
                                         /\ conn[c].key # conn[c].pane => conn[c].moved /\ ~conn[c].bound
                      /\ pc[c] = "native" \/ conn[c].reply = "unmatched" => ~conn[c].bound
                      /\ conn[c].reply = "unmatched" /\ conn[c].title \in Names =>
                           ResolveHost(conn[c].title) = None
    BY DEF PasteGoesToItsPane, Chosen
  <2>1. CASE pc[c] = "idle"
    BY <2>1 DEF PaneInv, Uploading
  <2>2. CASE pc[c] # "idle"
    <3>1. Decided(c) /\ OwnPane(c) /\ Refusal(c)
      BY <2>2 DEF PaneInv
    <3>2. Uploading(c) => pc[c] \in Needs /\ conn[c].key # None /\ Chosen(c)
      BY <3>1 DEF Uploading, Needs, Decided
    <3>3. conn[c].reply = "unmatched" /\ conn[c].title \in Names => ResolveHost(conn[c].title) = None
      BY <3>1, NoneAssumption DEF Refusal, NoneShown, DetectedHost
    <3>4. pc[c] = "native" => ~conn[c].bound
      BY <3>1 DEF OwnPane, Needs
    <3> QED
      BY <3>1, <3>2, <3>3, <3>4 DEF OwnPane
  <2> QED
    BY <2>1, <2>2
<1>4. Typed /\ HasMachine /\ [Next]_vars => Typed' /\ HasMachine'
  BY TypedStep
<1> QED
  BY <1>1, <1>2, <1>3, <1>4, TypedInit, PTL DEF Spec
=============================================================================
