-------------------------- MODULE SessionStoreProofs --------------------------
(***************************************************************************)
(* Proofs about SessionStore, for any number of goroutines, sessions,      *)
(* machines, registrations and restarts: type correctness, durability of   *)
(* answered registrations, that no save puts an older registration over a  *)
(* newer one, and that the list status shows agrees with the table.        *)
(***************************************************************************)
EXTENDS SessionStore, FiniteSetTheorems, TLAPS

-----------------------------------------------------------------------------
(* Typing of the helpers                                                   *)

\* The zero binding and the pruned table are a binding and a table.
LEMMA UnboundType == Unbound \in Binding
BY ZonesAssumption DEF Unbound, Binding

\* Marking a binding as used changes nothing else in it.
LEMMA TouchType ==
  ASSUME TypeOK, NEW b \in Binding
  PROVE  /\ [b EXCEPT !.lastUsed = clock, !.zone = zone] \in Binding
         /\ [b EXCEPT !.lastUsed = clock, !.zone = zone].created = b.created
BY DEF TypeOK, Binding

\* Pruning a table gives a table.
LEMMA PruneType ==
  ASSUME NEW D, NEW t \in [D -> Binding]
  PROVE  /\ Prune(t) \in [D -> Binding]
         /\ \A z : PruneRows(t, z) \in [D -> Binding]
BY UnboundType DEF Prune, PruneRows

\* A list of recent bindings is a sequence of entries, at most RecentCap long.
LEMMA RecentOfType ==
  ASSUME NEW t \in [Keys -> Binding], NEW r \in RecentOf(t)
  PROVE  r \in Seq(RecentEntry) /\ Len(r) <= RecentCap
<1> DEFINE n == IF Cardinality(Bound(t)) > RecentCap
                THEN RecentCap ELSE Cardinality(Bound(t))
<1>1. n \in Nat /\ n <= RecentCap
  <2>1. IsFiniteSet(Bound(t))
    BY KeysFinite, FS_Subset DEF Bound
  <2>2. Cardinality(Bound(t)) \in Nat
    BY <2>1, FS_CardinalityType
  <2>3. QED BY <2>2, NumbersAssumption
<1>2. PICK o \in [1..n -> Bound(t)] : r = [i \in 1..n |-> Entry(o[i], t[o[i]])]
  BY DEF RecentOf
<1>3. \A i \in 1..n : Entry(o[i], t[o[i]]) \in RecentEntry
  BY <1>2 DEF Bound, Entry, RecentEntry, Binding
<1> HIDE DEF n
<1>4. QED BY <1>1, <1>2, <1>3

\* Prepending an entry keeps a list of recent bindings one.
LEMMA PrependType ==
  ASSUME NEW l \in Seq(RecentEntry), NEW e \in RecentEntry
  PROVE  Prepend(l, e) \in Seq(RecentEntry) /\ Len(Prepend(l, e)) <= RecentCap
<1>1. WithoutKey(l, e.key) \in Seq(RecentEntry)
  BY DEF WithoutKey
<1>2. <<e>> \o WithoutKey(l, e.key) \in Seq(RecentEntry)
  BY <1>1
<1>3. QED BY <1>2, NumbersAssumption DEF Prepend

\* What a start finds in the rows is a table.
LEMMA LoadType ==
  ASSUME NEW rows \in [Spellings -> Binding], NEW t \in LoadChoices(rows)
  PROVE  t \in [Keys -> Binding]
BY UnboundType DEF LoadChoices

\* Forgetting adds registrations to what was forgotten.
LEMMA ForgetType ==
  ASSUME TypeOK, NEW t
  PROVE  Forget(registered, t) \in [Keys -> SUBSET Nat]
BY DEF Forget, TypeOK, Binding

\* Noting the rows a start leaves out keeps the ghost a set of registrations.
LEMMA ForgetRowsType ==
  ASSUME TypeOK, NEW gone \in SUBSET Spellings
  PROVE  ForgetRows(gone) \in [Keys -> SUBSET Nat]
BY DEF ForgetRows, TypeOK, Binding

\* A connection that serves nothing has a request of the right type.
LEMMA IdleType == Idle \in Requests
BY DEF Requests

-----------------------------------------------------------------------------
(* Type correctness: the table, the list, the rows and the requests keep    *)
(* their types through every handler, save, crash and start.                *)
THEOREM TypeCorrect == Spec => []TypeOK
<1>1. Init => TypeOK
  <2> SUFFICES ASSUME Init PROVE TypeOK
    OBVIOUS
  <2>1. NoTable \in [Keys -> Binding]
    BY UnboundType DEF NoTable
  <2>2. \A w \in Workers : Idle \in Requests
    BY IdleType
  <2>3. <<>> \in Seq(RecentEntry) /\ Len(<<>>) <= RecentCap
    BY NumbersAssumption
  <2>4. /\ up \in BOOLEAN /\ config \in Config
        /\ registered \in [Keys -> Binding]
        /\ storeMu \in Workers \cup {NoWorker}
        /\ db \in [Spellings -> Binding]
        /\ clock \in Nat /\ serial \in Nat
    BY <2>1, StoresAssumption, NumbersAssumption DEF Init
  <2>5. /\ pc \in [Workers -> Stages]
        /\ request \in [Workers -> Requests]
        /\ snapshot \in [Workers -> [Keys -> Binding]]
        /\ acked \in [Keys -> Nat]
        /\ forgotten \in [Keys -> SUBSET Nat]
    BY <2>1, <2>2 DEF Init, Stages
  <2>6. QED
    BY <2>3, <2>4, <2>5 DEF Init, TypeOK
<1>2. TypeOK /\ [Next]_vars => TypeOK'
  <2> SUFFICES ASSUME TypeOK, [Next]_vars PROVE TypeOK'
    OBVIOUS
  <2>1. ASSUME NEW w \in Workers, NEW s \in Spellings, NEW m \in Machines,
               Register(w, s, m)
        PROVE  TypeOK'
    <3> DEFINE k == Norm[s]
               b == [machine |-> m, created |-> serial + 1, lastUsed |-> clock, zone |-> zone]
    <3>1. k \in Keys
      BY NormAssumption
    <3>2. b \in Binding
      BY DEF TypeOK, Binding
    <3>3. Entry(k, b) \in RecentEntry
      BY <3>1, <3>2 DEF Entry, RecentEntry, Binding
    <3>4. recentBinds' \in Seq(RecentEntry) /\ Len(recentBinds') <= RecentCap
      BY <2>1, <3>3, PrependType DEF Register, TypeOK
    <3>5. request' \in [Workers -> Requests]
      BY <2>1, <3>1 DEF Register, TypeOK, Requests
    <3>6. registered' \in [Keys -> Binding]
      BY <2>1, <3>1, <3>2 DEF Register, TypeOK
    <3>7. QED
      BY <2>1, <3>4, <3>5, <3>6 DEF Register, TypeOK, Goto, Stages
  <2>2. ASSUME NEW w \in Workers, NEW s \in Spellings, ResolveBound(w, s)
        PROVE  TypeOK'
    <3>1. registered' \in [Keys -> Binding]
      <4>1. registered[Norm[s]] \in Binding
        BY NormAssumption DEF TypeOK
      <4>2. [registered[Norm[s]] EXCEPT !.lastUsed = clock, !.zone = zone] \in Binding
        BY <4>1, TouchType
      <4>3. QED
        BY <2>2, <4>2, NormAssumption DEF ResolveBound, TypeOK
    <3>2. QED
      BY <2>2, <3>1 DEF ResolveBound, TypeOK, Goto, Stages, ghosts
  <2>3. ASSUME NEW w \in Workers, NEW s \in Spellings, ResolveUnbound(w, s)
        PROVE  TypeOK'
    <3>1. registered' \in [Keys -> Binding]
      BY <2>3, UnboundType DEF ResolveUnbound, TypeOK
    <3>2. forgotten' \in [Keys -> SUBSET Nat]
      BY <2>3, ForgetType DEF ResolveUnbound
    <3>3. pc' \in [Workers -> Stages]
      BY <2>3 DEF ResolveUnbound, TypeOK, Goto, Stages
    <3>4. QED
      BY <2>3, <3>1, <3>2, <3>3 DEF ResolveUnbound, TypeOK
  <2>4. ASSUME NEW w \in Workers, FinishPaste(w)
        PROVE  TypeOK'
    BY <2>4 DEF FinishPaste, TypeOK, Goto, Stages
  <2>5. ASSUME NEW w \in Workers, LockStore(w)
        PROVE  TypeOK'
    BY <2>5 DEF LockStore, TypeOK, Goto, Stages
  <2>6. ASSUME NEW w \in Workers, TakeSnapshot(w)
        PROVE  TypeOK'
    <3>1. registered' \in [Keys -> Binding]
      BY <2>6, PruneType DEF TakeSnapshot, TypeOK
    <3>2. recentBinds' \in Seq(RecentEntry) /\ Len(recentBinds') <= RecentCap
      BY <2>6, <3>1, RecentOfType DEF TakeSnapshot
    <3>3. forgotten' \in [Keys -> SUBSET Nat]
      BY <2>6, ForgetType DEF TakeSnapshot
    <3>4. QED
      BY <2>6, <3>1, <3>2, <3>3 DEF TakeSnapshot, TypeOK, Goto, Stages
  <2>7. ASSUME NEW w \in Workers, NEW ok \in BOOLEAN, Unlock(w, ok)
        PROVE  /\ storeMu' \in Workers \cup {NoWorker}
               /\ snapshot' \in [Workers -> [Keys -> Binding]]
               /\ pc' \in [Workers -> Stages]
               /\ request' \in [Workers -> Requests]
    BY <2>7, IdleType, UnboundType DEF Unlock, TypeOK, Goto, Drop, Stages, NoTable
  <2>8. ASSUME NEW w \in Workers, Commit(w)
        PROVE  TypeOK'
    <3>1. db' \in [Spellings -> Binding]
      BY <2>8, UnboundType DEF Commit, Rows, TypeOK
    <3>2. Unlock(w, TRUE)
      BY <2>8 DEF Commit
    <3>3. QED
      BY <2>7, <2>8, <3>1, <3>2 DEF Commit, TypeOK
  <2>9. ASSUME NEW w \in Workers, SaveFails(w)
        PROVE  TypeOK'
    <3>1. Unlock(w, FALSE)
      BY <2>9 DEF SaveFails
    <3>2. QED
      BY <2>7, <2>9, <3>1 DEF SaveFails, TypeOK
  <2>10. ASSUME NEW w \in Workers, Reply(w)
         PROVE  TypeOK'
    <3>1. request[w].created \in Nat
      BY DEF TypeOK, Requests, Idle
    <3>2. \A k \in Keys : Later(acked[k], request[w].created) \in Nat
      BY <3>1 DEF TypeOK, Later
    <3>3. acked' \in [Keys -> Nat]
      BY <2>10, <3>2 DEF Reply, TypeOK
    <3>4. QED
      BY <2>10, <3>3, IdleType DEF Reply, TypeOK, Goto, Drop, Stages
  <2>11. CASE Crash
    <3>1. NoTable \in [Keys -> Binding]
      BY UnboundType DEF NoTable
    <3>2. <<>> \in Seq(RecentEntry) /\ Len(<<>>) <= RecentCap
      BY NumbersAssumption
    <3>3. /\ registered' \in [Keys -> Binding]
          /\ recentBinds' \in Seq(RecentEntry) /\ Len(recentBinds') <= RecentCap
          /\ request' \in [Workers -> Requests]
          /\ snapshot' \in [Workers -> [Keys -> Binding]]
      BY <2>11, <3>1, <3>2, IdleType DEF Crash
    <3>4. pc' \in [Workers -> Stages]
      BY <2>11 DEF Crash, Stages
    <3>5. QED
      BY <2>11, <3>3, <3>4 DEF Crash, TypeOK
  <2>12. CASE Start
    <3>1. db' \in [Spellings -> Binding]
      BY <2>12, PruneType DEF Start, TypeOK
    <3>2. registered' \in [Keys -> Binding]
      BY <2>12, <3>1, LoadType DEF Start
    <3>3. recentBinds' \in Seq(RecentEntry) /\ Len(recentBinds') <= RecentCap
      BY <2>12, <3>2, RecentOfType DEF Start
    <3>4. forgotten' \in [Keys -> SUBSET Nat]
      BY <2>12, ForgetRowsType DEF Start
    <3>5. QED
      BY <2>12, <3>1, <3>2, <3>3, <3>4, StoresAssumption DEF Start, TypeOK
  <2>13. CASE StartWithoutLoad
    <3>1. db' \in [Spellings -> Binding]
      <4>1. db' = db \/ db' = PruneRows(db, zone')
        BY <2>13 DEF StartWithoutLoad
      <4>2. db \in [Spellings -> Binding]
        BY DEF TypeOK
      <4>3. PruneRows(db, zone') \in [Spellings -> Binding]
        BY <4>2, PruneType
      <4> QED BY <4>1, <4>2, <4>3
    <3>2. forgotten' \in [Keys -> SUBSET Nat]
      BY <2>13, ForgetRowsType DEF StartWithoutLoad
    <3>3. QED
      BY <2>13, <3>1, <3>2, StoresAssumption DEF StartWithoutLoad, TypeOK
  <2>14. CASE Tick
    BY <2>14 DEF Tick, TypeOK
  <2>15. CASE UNCHANGED vars
    BY <2>15 DEF vars, TypeOK
  <2>16. QED
    BY <2>1, <2>2, <2>3, <2>4, <2>5, <2>6, <2>8, <2>9, <2>10, <2>11, <2>12,
       <2>13, <2>14, <2>15 DEF Next, Step
<1>3. QED BY <1>1, <1>2, PTL DEF Spec

-----------------------------------------------------------------------------
(* Covering.  In the proofs about steps CoversIn stays folded: what a step  *)
(* does to it is said by three facts, that memory goes on covering what it  *)
(* covered, that forgetting more covers more, and the types of the numbers. *)

\* A registration in flight names a session and has a number.
LEMMA InFlightType ==
  ASSUME TypeOK, NEW w \in Workers, InFlight(w)
  PROVE  request[w].key \in Keys /\ request[w].created \in Nat
BY DEF TypeOK, InFlight, Requests

\* A binding that keeps its CreatedAt, or gets a later one, covers as before.
LEMMA CoversLater ==
  ASSUME NEW F, NEW b, NEW d, NEW c \in Nat, b.created \in Nat, d.created \in Nat,
         d.created >= b.created, CoversIn(F, b, c)
  PROVE  CoversIn(F, d, c)
BY DEF CoversIn

\* A Forget of the entries that t drops makes t cover what memory covered,
\* and loses no other covering.
LEMMA ForgetCovers ==
  ASSUME TypeOK, NEW t, NEW k \in Keys, NEW c \in Nat, Covers(k, registered[k], c)
  PROVE  CoversIn(Forget(registered, t)[k], t[k], c)
BY DEF Covers, CoversIn, Forget, TypeOK, Binding

\* Noting dropped registrations on purpose keeps what the table covers.
LEMMA ForgetKeeps ==
  ASSUME NEW t, NEW k \in Keys, NEW b, NEW c, Covers(k, b, c)
  PROVE  CoversIn(Forget(registered, t)[k], b, c)
BY DEF Covers, CoversIn, Forget

-----------------------------------------------------------------------------
(* One lemma per step.                                                     *)

\* The numbers of rows, entries and requests are natural numbers.
LEMMA NumberTypes ==
  ASSUME TypeOK
  PROVE  /\ serial \in Nat
         /\ \A k \in Keys : acked[k] \in Nat /\ registered[k].created \in Nat
         /\ \A s \in Spellings : db[s].created \in Nat
         /\ \A w \in Workers : request[w].created \in Nat
         /\ \A w \in Workers, k \in Keys : snapshot[w][k].created \in Nat
<1>1. \A b \in Binding : b.created \in Nat
  BY DEF Binding
<1>2. \A w \in Workers, k \in Keys : snapshot[w][k] \in Binding
  BY DEF TypeOK
<1>3. \A w \in Workers : request[w].created \in Nat
  BY DEF TypeOK, Requests, Idle
<1>4. QED
  BY <1>1, <1>2, <1>3 DEF TypeOK

\* Zero, the number of what was not registered here, is always covered.
LEMMA CoversZero == ASSUME NEW F, NEW b, b.created \in Nat PROVE CoversIn(F, b, 0)
BY DEF CoversIn

\* A registration is newer than all there is, so memory covers what it did.
LEMMA RegisterKeeps ==
  ASSUME TypeOK, StoreInv, NEW w \in Workers, NEW s \in Spellings,
         NEW m \in Machines, Register(w, s, m)
  PROVE  StoreInv'
<1> USE NumberTypes, NormAssumption, NamesAssumption DEF StoreInv
<1>1. \A k \in Keys, c \in Nat :
        c <= serial /\ Covers(k, registered[k], c) => Covers(k, registered'[k], c)
  BY DEF Register, TypeOK, Covers, CoversIn
<1>2. \A v \in Workers : InFlight(v) => request[v].key \in Keys
  BY InFlightType
<1>3. registered'[Norm[s]].created = serial + 1
  BY DEF Register, TypeOK
<1>4. request' = [request EXCEPT ![w] = [key |-> Norm[s], created |-> serial + 1]]
  BY DEF Register
<1>5. Norm[s] \in Keys
  OBVIOUS
<1>6. OneWriter'
  BY DEF OneWriter, Register, Goto, TypeOK
<1>7. KnownSerials'
  <2>1. \A k \in Keys : registered'[k].created <= serial + 1
    BY DEF KnownSerials, Register, TypeOK
  <2>2. \A v \in Workers : request'[v].created <= serial + 1
    BY <1>4 DEF KnownSerials, TypeOK
  <2>3. QED
    BY <2>1, <2>2 DEF KnownSerials, Register
<1>8. StagesMatch'
  BY <1>4 DEF StagesMatch, InFlight, Register, Goto, TypeOK, Idle
<1>9. MemoryCovers'
  <2>1. CoversIn(forgotten[Norm[s]], registered'[Norm[s]], serial + 1)
    BY <1>3 DEF CoversIn
  <2>2. QED
    BY <1>1, <1>2, <1>4, <1>5, <2>1
    DEF MemoryCovers, KnownSerials, Covers, InFlight, Register, TypeOK
<1>10. SnapshotCovers'
  <2>1. ASSUME NEW v \in Workers, pc'[v] = "write"
        PROVE  pc[v] = "write" /\ v # w
    BY <2>1 DEF Register, Goto, TypeOK
  <2>2. ASSUME NEW v \in Workers, pc'[v] = "reply"
        PROVE  pc[v] = "reply" /\ v # w
    BY <2>2 DEF Register, Goto, TypeOK
  <2>3. \A v \in Workers : v # w => request'[v] = request[v]
    BY <1>4 DEF TypeOK
  <2>4. QED
    BY <1>1, <2>1, <2>2, <2>3
    DEF SnapshotCovers, KnownSerials, Covers, InFlight, Register
<1>11. AnswersCovered'
  BY <1>4 DEF AnswersCovered, Covers, Register, Goto, TypeOK
<1>12. Durable'
  BY DEF Durable, Covers, Register
<1>13. QED
  BY <1>6, <1>7, <1>8, <1>9, <1>10, <1>11, <1>12

\* Using a binding leaves its CreatedAt alone.
LEMMA ResolveBoundKeeps ==
  ASSUME TypeOK, StoreInv, NEW w \in Workers, NEW s \in Spellings,
         ResolveBound(w, s)
  PROVE  StoreInv'
<1> USE NumberTypes, NormAssumption DEF StoreInv
<1>1. \A k \in Keys : registered'[k].created = registered[k].created
  BY TouchType DEF ResolveBound, TypeOK
<1>2. \A k \in Keys, c \in Nat :
        Covers(k, registered[k], c) => Covers(k, registered'[k], c)
  BY <1>1, CoversLater DEF Covers
<1>3. \A v \in Workers : InFlight(v) =>
        request[v].key \in Keys /\ request[v].created \in Nat
  BY InFlightType
<1>4. OneWriter' /\ StagesMatch' /\ AnswersCovered' /\ Durable'
  BY DEF OneWriter, StagesMatch, AnswersCovered, Durable, Covers, InFlight,
         ResolveBound, Goto, TypeOK, ghosts
<1>5. KnownSerials'
  BY <1>1 DEF KnownSerials, ResolveBound, ghosts
<1>6. MemoryCovers'
  BY <1>2, <1>3 DEF MemoryCovers, Covers, InFlight, ResolveBound, ghosts
<1>7. SnapshotCovers'
  <2>1. \A v \in Workers : /\ pc'[v] = "write" => pc[v] = "write"
                           /\ pc'[v] = "reply" => pc[v] = "reply"
    BY DEF ResolveBound, Goto, TypeOK
  <2>2. QED
    BY <1>2, <2>1 DEF SnapshotCovers, Covers, InFlight, ResolveBound, ghosts
<1>8. QED
  BY <1>4, <1>5, <1>6, <1>7

\* What a step that forgets what it drops does to every covering: memory goes
\* on covering what it covered, and all other coverings stay.
LEMMA DropCovers ==
  ASSUME TypeOK, forgotten' = Forget(registered, registered')
  PROVE  /\ \A k \in Keys, c \in Nat :
              Covers(k, registered[k], c) => CoversIn(forgotten'[k], registered'[k], c)
         /\ \A k \in Keys : \A b, c :
              Covers(k, b, c) => CoversIn(forgotten'[k], b, c)
BY ForgetCovers, ForgetKeeps

\* Resolving a session without a usable binding keeps the invariant.
LEMMA ResolveUnboundKeeps ==
  ASSUME TypeOK, StoreInv, NEW w \in Workers, NEW s \in Spellings,
         ResolveUnbound(w, s)
  PROVE  StoreInv'
<1> USE NumberTypes, NormAssumption DEF StoreInv
<1>1. /\ \A k \in Keys, c \in Nat :
           Covers(k, registered[k], c) => CoversIn(forgotten'[k], registered'[k], c)
      /\ \A k \in Keys : \A b, c :
           Covers(k, b, c) => CoversIn(forgotten'[k], b, c)
  BY DropCovers DEF ResolveUnbound
<1>2. \A v \in Workers : InFlight(v) =>
        request[v].key \in Keys /\ request[v].created \in Nat
  BY InFlightType
<1>3. \A v \in Workers : /\ pc'[v] = "write" => pc[v] = "write"
                         /\ pc'[v] = "reply" => pc[v] = "reply"
  BY DEF ResolveUnbound, Goto, TypeOK
<1>4. OneWriter' /\ StagesMatch'
  BY DEF OneWriter, StagesMatch, InFlight, ResolveUnbound, Goto, TypeOK
<1>5. KnownSerials'
  BY DEF KnownSerials, ResolveUnbound, TypeOK, Unbound
<1>6. MemoryCovers'
  BY <1>1, <1>2 DEF MemoryCovers, Covers, InFlight, ResolveUnbound
<1>7. SnapshotCovers'
  <2>1. ASSUME NEW v \in Workers, pc[v] = "write", NEW k \in Keys
        PROVE  CoversIn(forgotten'[k], registered'[k], snapshot[v][k].created)
    BY <1>1, <2>1 DEF SnapshotCovers
  <2>2. QED
    BY <1>1, <1>2, <1>3, <2>1 DEF SnapshotCovers, Covers, InFlight, ResolveUnbound
<1>8. AnswersCovered' /\ Durable'
  BY <1>1, <1>2, <1>3 DEF AnswersCovered, Durable, Covers, StagesMatch, InFlight,
                          ResolveUnbound
<1>9. QED
  BY <1>4, <1>5, <1>6, <1>7, <1>8

\* The end of a paste keeps the invariant.
LEMMA FinishPasteKeeps ==
  ASSUME TypeOK, StoreInv, NEW w \in Workers, FinishPaste(w)
  PROVE  StoreInv'
BY DEF StoreInv, OneWriter, KnownSerials, StagesMatch, MemoryCovers, SnapshotCovers,
       AnswersCovered, Durable, Covers, InFlight, FinishPaste, Goto, TypeOK

\* Taking s.sessionStoreMu keeps the invariant.
LEMMA LockStoreKeeps ==
  ASSUME TypeOK, StoreInv, NEW w \in Workers, LockStore(w)
  PROVE  StoreInv'
<1>1. OneWriter'
  BY NamesAssumption DEF StoreInv, OneWriter, LockStore, Goto, TypeOK
<1>2. KnownSerials' /\ StagesMatch' /\ MemoryCovers' /\ AnswersCovered' /\ Durable'
  BY DEF StoreInv, KnownSerials, StagesMatch, MemoryCovers, AnswersCovered, Durable,
         Covers, InFlight, LockStore, Goto, TypeOK
<1>3. SnapshotCovers'
  BY DEF StoreInv, SnapshotCovers, Covers, InFlight, LockStore, Goto, TypeOK
<1>4. QED BY <1>1, <1>2, <1>3 DEF StoreInv

\* The snapshot equals memory, which covers everything.
LEMMA TakeSnapshotKeeps ==
  ASSUME TypeOK, StoreInv, NEW w \in Workers, TakeSnapshot(w)
  PROVE  StoreInv'
<1> USE NumberTypes, NormAssumption DEF StoreInv
<1>1. /\ \A k \in Keys, c \in Nat :
           Covers(k, registered[k], c) => CoversIn(forgotten'[k], registered'[k], c)
      /\ \A k \in Keys : \A b, c :
           Covers(k, b, c) => CoversIn(forgotten'[k], b, c)
  BY DropCovers DEF TakeSnapshot
<1>2. \A v \in Workers : InFlight(v) =>
        request[v].key \in Keys /\ request[v].created \in Nat
  BY InFlightType
<1>3. /\ pc' = [pc EXCEPT ![w] = "write"]
      /\ snapshot' = [snapshot EXCEPT ![w] = registered']
  BY DEF TakeSnapshot, Goto
<1>4. OneWriter' /\ StagesMatch'
  BY <1>3 DEF OneWriter, StagesMatch, InFlight, TakeSnapshot, TypeOK
<1>5. \A k \in Keys : /\ registered'[k].created \in Nat
                      /\ registered'[k].created <= serial
  BY DEF KnownSerials, TakeSnapshot, Prune, TypeOK, Unbound
<1>6. KnownSerials'
  BY <1>3, <1>5 DEF KnownSerials, TakeSnapshot, TypeOK
<1>7. MemoryCovers'
  BY <1>1, <1>2 DEF MemoryCovers, Covers, InFlight, TakeSnapshot
<1>8. SnapshotCovers'
  <2>1. \A v \in Workers : v # w => pc[v] # "write"
    BY DEF OneWriter, TakeSnapshot
  <2>2. snapshot'[w] = registered'
    BY <1>3 DEF TypeOK
  <2>3. \A v \in Workers : InFlight(v)' => InFlight(v)
    BY DEF InFlight, TakeSnapshot
  <2>4. \A k \in Keys : CoversIn(forgotten'[k], registered'[k], registered'[k].created)
    BY <1>5 DEF CoversIn
  <2>5. \A k \in Keys : db[k].created \in Nat /\ Norm[k] = k /\ k \in Spellings
    OBVIOUS
  <2>6. QED
    BY <1>1, <1>2, <1>3, <2>1, <2>2, <2>3, <2>4, <2>5
    DEF SnapshotCovers, MemoryCovers, Covers, InFlight, TakeSnapshot, TypeOK
<1>9. AnswersCovered' /\ Durable'
  BY <1>1, <1>2, <1>3 DEF AnswersCovered, Durable, Covers, StagesMatch, InFlight,
                          TakeSnapshot, TypeOK
<1>10. QED
  BY <1>4, <1>6, <1>7, <1>8, <1>9

\* Only the holder of the lock has a snapshot to write.
LEMMA CommitKeeps ==
  ASSUME TypeOK, StoreInv, NEW w \in Workers, Commit(w)
  PROVE  StoreInv'
<1> USE NumberTypes, NormAssumption, NamesAssumption DEF StoreInv
<1>1. \A v \in Workers : InFlight(v) =>
        request[v].key \in Keys /\ request[v].created \in Nat
  BY InFlightType
<1>2. /\ \A k \in Keys : db'[k] = snapshot[w][k]
      /\ \A s \in Spellings \ Keys : db'[s].created = 0
  BY DEF Commit, Rows, Unbound
<1>3. OneWriter' /\ StagesMatch'
  BY DEF OneWriter, StagesMatch, InFlight, Commit, Unlock, Goto, Drop, TypeOK, Idle
<1>4. KnownSerials'
  <2>1. \A v \in Workers : request'[v].created <= serial
    BY DEF KnownSerials, Commit, Unlock, Drop, TypeOK, Idle
  <2>2. \A v \in Workers, k \in Keys : snapshot'[v][k].created <= serial
    BY DEF KnownSerials, Commit, Unlock, TypeOK, NoTable, Unbound
  <2>3. \A s \in Spellings : db'[s].created <= serial
    BY <1>2 DEF KnownSerials
  <2>4. QED
    BY <2>1, <2>2, <2>3 DEF KnownSerials, Commit
<1>5. MemoryCovers'
  <2>1. ASSUME NEW s \in Spellings
        PROVE  CoversIn(forgotten[Norm[s]], registered[Norm[s]], db'[s].created)
    BY <1>2, CoversZero DEF SnapshotCovers, Covers, Commit
  <2>2. \A v \in Workers : InFlight(v)' => InFlight(v) /\ request'[v] = request[v]
    BY DEF InFlight, Commit, Unlock, Drop, TypeOK
  <2>3. QED
    BY <2>1, <2>2 DEF MemoryCovers, Covers, InFlight, Commit
<1>6. SnapshotCovers'
  BY DEF SnapshotCovers, OneWriter, Commit, Unlock, Goto, TypeOK
<1>7. AnswersCovered'
  BY <1>1, <1>2 DEF AnswersCovered, SnapshotCovers, StagesMatch, Covers, InFlight,
                    Commit, Unlock, Goto, Drop, TypeOK, Idle
<1>8. Durable'
  BY <1>2 DEF Durable, SnapshotCovers, Covers, Commit
<1>9. QED
  BY <1>3, <1>4, <1>5, <1>6, <1>7, <1>8

\* A save that fails keeps the invariant: the rows are those before it.
LEMMA SaveFailsKeeps ==
  ASSUME TypeOK, StoreInv, NEW w \in Workers, SaveFails(w)
  PROVE  StoreInv'
<1> USE NumberTypes, NamesAssumption DEF StoreInv
<1>1. OneWriter' /\ StagesMatch'
  BY DEF OneWriter, StagesMatch, InFlight, SaveFails, Unlock, Goto, Drop, TypeOK, Idle
<1>2. KnownSerials'
  <2>1. \A v \in Workers : request'[v].created <= serial
    BY DEF KnownSerials, SaveFails, Unlock, Drop, TypeOK, Idle
  <2>2. \A v \in Workers, k \in Keys : snapshot'[v][k].created <= serial
    BY DEF KnownSerials, SaveFails, Unlock, TypeOK, NoTable, Unbound
  <2>3. QED
    BY <2>1, <2>2 DEF KnownSerials, SaveFails
<1>3. \A v \in Workers : InFlight(v)' => InFlight(v) /\ request'[v] = request[v]
  BY DEF InFlight, SaveFails, Unlock, Drop, TypeOK
<1>4. MemoryCovers'
  BY <1>3 DEF MemoryCovers, Covers, SaveFails
<1>5. SnapshotCovers'
  BY DEF SnapshotCovers, OneWriter, SaveFails, Unlock, Goto, TypeOK
<1>6. AnswersCovered' /\ Durable'
  BY DEF AnswersCovered, Durable, Covers, SaveFails, Unlock, Goto, Drop, TypeOK
<1>7. QED
  BY <1>1, <1>2, <1>4, <1>5, <1>6

\* What is answered is on disk, in memory and in the snapshot being written.
LEMMA ReplyKeeps ==
  ASSUME TypeOK, StoreInv, NEW w \in Workers, Reply(w)
  PROVE  StoreInv'
<1> USE NumberTypes DEF StoreInv
<1>1. \A v \in Workers : InFlight(v) =>
        request[v].key \in Keys /\ request[v].created \in Nat
  BY InFlightType
<1>2. \A k \in Keys : \/ acked'[k] = acked[k]
                      \/ k = request[w].key /\ acked'[k] = request[w].created
  BY DEF Reply, Later, TypeOK
<1>3. InFlight(w)
  BY DEF StagesMatch, Reply
<1>4. \A v \in Workers : InFlight(v)' => InFlight(v) /\ request'[v] = request[v]
  BY DEF InFlight, Reply, Drop, TypeOK
<1>5. OneWriter' /\ StagesMatch'
  BY DEF OneWriter, StagesMatch, InFlight, Reply, Goto, Drop, TypeOK, Idle
<1>6. KnownSerials'
  <2>1. \A v \in Workers : request'[v].created <= serial
    BY DEF KnownSerials, Reply, Drop, TypeOK, Idle
  <2>2. QED
    BY <1>2, <2>1 DEF KnownSerials, Reply
<1>7. MemoryCovers'
  BY <1>1, <1>2, <1>3, <1>4 DEF MemoryCovers, Covers, Reply
<1>8. SnapshotCovers'
  <2>1. \A v \in Workers : /\ pc'[v] = "write" => pc[v] = "write"
                           /\ pc'[v] = "reply" => pc[v] = "reply"
    BY DEF Reply, Goto, TypeOK
  <2>2. QED
    BY <1>1, <1>2, <1>3, <1>4, <2>1 DEF SnapshotCovers, Covers, Reply
<1>9. AnswersCovered'
  BY DEF AnswersCovered, Covers, Reply, Goto, Drop, TypeOK
<1>10. Durable'
  BY <1>2 DEF Durable, AnswersCovered, Covers, Reply
<1>11. QED
  BY <1>5, <1>6, <1>7, <1>8, <1>9, <1>10

\* A crash loses memory and requests; disk and clients remember.
LEMMA CrashKeeps ==
  ASSUME TypeOK, StoreInv, Crash
  PROVE  StoreInv'
<1> USE NumberTypes, NamesAssumption DEF StoreInv
<1>1. OneWriter' /\ StagesMatch' /\ MemoryCovers' /\ SnapshotCovers' /\ AnswersCovered'
  BY DEF OneWriter, StagesMatch, MemoryCovers, SnapshotCovers, AnswersCovered,
         InFlight, Crash
<1>2. KnownSerials'
  BY DEF KnownSerials, Crash, NoTable, Unbound, Idle
<1>3. Durable'
  BY DEF Durable, Covers, Crash
<1>4. QED
  BY <1>1, <1>2, <1>3

\* A start drops rows on purpose only: the rest is loaded, and stays on disk.
LEMMA StartKeeps ==
  ASSUME TypeOK, StoreInv, Start
  PROVE  StoreInv'
<1> USE NumberTypes, NormAssumption DEF StoreInv
<1>1. forgotten' = ForgetRows({s \in Spellings : db[s] # registered'[Norm[s]]})
  BY DEF Start
<1>2. \A k \in Keys : \A b, c : Covers(k, b, c) => CoversIn(forgotten'[k], b, c)
  BY <1>1 DEF ForgetRows, Covers, CoversIn
<1>3. \A s \in Spellings : /\ db'[s] = db[s] \/ db'[s] = Unbound
                           /\ db'[s] # db[s] => ~IsBound(db[s]) \/ RowExpired(db[s], zone')
  BY DEF Start, PruneRows, TypeOK
<1>4. \A k \in Keys :
        \/ registered'[k] = Unbound
        \/ \E s \in Spellings :
             Norm[s] = k /\ registered'[k] = db'[s] /\ IsBound(db'[s])
  BY DEF Start, LoadChoices
<1>5. \A s \in Spellings, c \in Nat : db[s].created >= c =>
        CoversIn(forgotten'[Norm[s]], registered'[Norm[s]], c)
  BY <1>1 DEF ForgetRows, CoversIn, TypeOK
<1>6. \A k \in Keys : registered'[k].created \in Nat /\ registered'[k].created <= serial
  BY <1>3, <1>4 DEF KnownSerials, Unbound
<1>7. \A s \in Spellings : db'[s].created \in Nat /\ db'[s].created <= db[s].created
  BY <1>3 DEF Unbound
<1>8. OneWriter' /\ StagesMatch' /\ SnapshotCovers' /\ AnswersCovered'
  BY DEF OneWriter, StagesMatch, SnapshotCovers, AnswersCovered, InFlight, Start
<1>9. KnownSerials'
  BY <1>6, <1>7 DEF KnownSerials, Start
<1>10. \A k \in Keys : CoversIn(forgotten'[k], registered'[k], acked[k])
  <2> SUFFICES ASSUME NEW k \in Keys
               PROVE  CoversIn(forgotten'[k], registered'[k], acked[k])
    OBVIOUS
  <2>1. CASE db[k].created >= acked[k]
    BY <1>5, <2>1
  <2>2. CASE \E f \in forgotten[k] : f >= acked[k]
    BY <1>1, <2>2 DEF ForgetRows, CoversIn
  <2>3. QED
    BY <2>1, <2>2 DEF Durable, Covers, CoversIn
<1>11. MemoryCovers'
  <2>1. \A s \in Spellings :
          CoversIn(forgotten'[Norm[s]], registered'[Norm[s]], db'[s].created)
    BY <1>5, <1>7
  <2>2. \A w \in Workers : ~InFlight(w)'
    BY DEF StagesMatch, InFlight, Start
  <2>3. QED
    BY <1>10, <2>1, <2>2 DEF MemoryCovers, Covers, Start
<1>12. Durable'
  <2> SUFFICES ASSUME NEW k \in Keys
               PROVE  CoversIn(forgotten'[k], db'[k], acked[k])
    BY DEF Durable, Covers, Start
  <2>1. CASE db'[k] = db[k]
    BY <1>2, <2>1 DEF Durable
  <2>2. CASE db'[k] # db[k]
    <3>1. db'[k] = Unbound /\ (~IsBound(db[k]) \/ RowExpired(db[k], zone')) /\ db[k] # Unbound
      BY <1>3, <2>2
    <3>2. db[k] # registered'[k]
      BY <1>3, <1>4, <3>1 DEF Start, PruneRows, TypeOK, IsBound, RowExpired, Unbound
    <3>3. db[k].created \in forgotten'[k]
      BY <1>1, <3>2 DEF ForgetRows
    <3>4. QED
      BY <1>2, <3>3 DEF Durable, Covers, CoversIn
  <2>3. QED
    BY <2>1, <2>2
<1>13. QED
  BY <1>8, <1>9, <1>11, <1>12

\* The clock keeps the invariant.
LEMMA TickKeeps ==
  ASSUME StoreInv, Tick
  PROVE  StoreInv'
BY DEF StoreInv, OneWriter, KnownSerials, StagesMatch, MemoryCovers, SnapshotCovers,
       AnswersCovered, Durable, Covers, InFlight, Tick

-----------------------------------------------------------------------------
(* The invariant and what follows from it.  All of it assumes that no load  *)
(* fails: StartWithoutLoad, which NewServer allows, breaks it (the run      *)
(* failedload).                                                             *)

\* The invariant holds before the first start.
LEMMA StoreInvInit == Init => StoreInv
<1> SUFFICES ASSUME Init PROVE StoreInv
  OBVIOUS
<1>1. KnownSerials
  BY StoresAssumption DEF Init, KnownSerials, NoTable, Unbound, Idle
<1>2. OneWriter /\ StagesMatch /\ MemoryCovers /\ SnapshotCovers /\ AnswersCovered
  BY NamesAssumption DEF Init, OneWriter, StagesMatch, MemoryCovers, SnapshotCovers,
                         AnswersCovered, InFlight
<1>3. Durable
  BY StoresAssumption, NormAssumption DEF Init, Durable, Covers, CoversIn
<1>4. QED
  BY <1>1, <1>2, <1>3 DEF StoreInv

\* Every step keeps the invariant: one case per action.
LEMMA StoreInvStep ==
  ASSUME LoadMayFail = FALSE, TypeOK, StoreInv, [Next]_vars
  PROVE  StoreInv'
<1>1. CASE UNCHANGED vars
  BY <1>1 DEF vars, StoreInv, OneWriter, KnownSerials, StagesMatch, MemoryCovers,
              SnapshotCovers, AnswersCovered, Durable, Covers, InFlight
<1>2. ASSUME NEW w \in Workers, Step(w)
      PROVE  StoreInv'
  BY <1>2, RegisterKeeps, ResolveBoundKeeps, ResolveUnboundKeeps, FinishPasteKeeps,
     LockStoreKeeps, TakeSnapshotKeeps, CommitKeeps, SaveFailsKeeps, ReplyKeeps
     DEF Step
<1>3. ~StartWithoutLoad
  BY DEF StartWithoutLoad
<1>4. QED
  BY <1>1, <1>2, <1>3, CrashKeeps, StartKeeps, TickKeeps DEF Next

\* The strengthening of Durable holds in every reachable state.
THEOREM StoreInvariant ==
  ASSUME LoadMayFail = FALSE
  PROVE  Spec => []StoreInv
<1>1. TypeOK /\ StoreInv /\ [Next]_vars => StoreInv'
  BY StoreInvStep
<1>2. QED
  BY StoreInvInit, <1>1, TypeCorrect, PTL DEF Spec

\* An answered registration is on disk until it expires, its machine leaves
\* the configuration, or a newer registration of the session takes its place.
THEOREM DurableAlways ==
  ASSUME LoadMayFail = FALSE
  PROVE  Spec => []Durable
<1>1. StoreInv => Durable
  BY DEF StoreInv
<1>2. QED
  BY <1>1, StoreInvariant, PTL

\* A running daemon knows every answered registration, across restarts.
THEOREM AckedVisibleAlways ==
  ASSUME LoadMayFail = FALSE
  PROVE  Spec => []AckedVisible
<1>1. StoreInv => AckedVisible
  BY DEF StoreInv, MemoryCovers, AckedVisible
<1>2. QED
  BY <1>1, StoreInvariant, PTL

\* No step puts an older registration of a session over a newer one on disk.
THEOREM DiskNeverGoesBackAlways ==
  ASSUME LoadMayFail = FALSE
  PROVE  Spec => DiskNeverGoesBack
<1> DEFINE Forward == \A k \in Keys : \/ db'[k].created >= db[k].created
                                      \/ \E f \in forgotten'[k] : f >= db[k].created
<1>1. ASSUME TypeOK, StoreInv, [Next]_vars
      PROVE  [Forward]_vars
  <2>1. CASE db' = db
    BY <1>1, <2>1, NumberTypes, NormAssumption
  <2>2. ASSUME NEW w \in Workers, Commit(w)
        PROVE  Forward
    <3>1. \A k \in Keys : /\ db'[k] = snapshot[w][k]
                          /\ Covers(k, snapshot[w][k], db[k].created)
      BY <1>1, <2>2, NormAssumption DEF Commit, Rows, StoreInv, SnapshotCovers
    <3>2. forgotten' = forgotten
      BY <2>2 DEF Commit
    <3>3. QED
      BY <3>1, <3>2 DEF Covers, CoversIn
  <2>3. CASE Start
    <3>1. forgotten' = ForgetRows({s \in Spellings : db[s] # registered'[Norm[s]]})
      BY <2>3 DEF Start
    <3>2. ASSUME NEW k \in Keys, db'[k] # db[k]
          PROVE  db[k].created \in forgotten'[k] \/ db[k].created <= db'[k].created
      <4>1. /\ k \in Spellings /\ Norm[k] = k
            /\ \/ registered'[k] = Unbound
               \/ \E s \in Spellings : /\ Norm[s] = k /\ registered'[k] = db'[s]
                                       /\ IsBound(db'[s])
        BY <2>3, NormAssumption DEF Start, LoadChoices
      <4>2. \A s \in Spellings : IsBound(db'[s]) => db'[s] = db[s] /\ ~RowExpired(db[s], zone')
        BY <1>1, <2>3 DEF Start, PruneRows, TypeOK, IsBound, Unbound
      <4>3. /\ db'[k] = Unbound /\ db[k] # Unbound
            /\ ~IsBound(db[k]) \/ RowExpired(db[k], zone')
        BY <2>3, <3>2, <4>1, <1>1 DEF Start, PruneRows, TypeOK
      <4>4. db[k] # registered'[k]
        BY <4>1, <4>2, <4>3 DEF IsBound, RowExpired
      <4>5. QED
        BY <3>1, <4>1, <4>4 DEF ForgetRows
    <3>3. \A k \in Keys : db[k].created \in Nat
      BY <1>1, NumberTypes, NormAssumption
    <3>4. QED
      BY <3>2, <3>3
  <2>4. QED
    <3>1. CASE UNCHANGED vars
      BY <3>1
    <3>2. CASE \E w \in Workers : Commit(w)
      BY <3>2, <2>2
    <3>3. CASE Start
      BY <3>3, <2>3
    <3>4. CASE Next /\ ~Start /\ ~\E w \in Workers : Commit(w)
      <4>1. db' = db
        BY <3>4 DEF Next, Step, Register, ResolveBound, ResolveUnbound, FinishPaste,
           LockStore, TakeSnapshot, SaveFails, Reply, Crash, StartWithoutLoad, Tick
      <4>2. QED
        BY <4>1, <2>1
    <3>5. QED
      BY <1>1, <3>1, <3>2, <3>3, <3>4
<1>2. QED
  BY <1>1, StoreInvariant, TypeCorrect, PTL DEF Spec, DiskNeverGoesBack

\* A start keeps, for each session, the most recently used of its rows, up to
\* the difference of two time zones, and prunes none in use (pruneSessionDB,
\* loadSessionBindings).
THEOREM LoadKeepsLatestAlways == Spec => LoadKeepsLatest
<1> DEFINE Latest ==
      Start => \A s \in Spellings :
        IsBound(db[s]) /\ db[s].lastUsed + TTL >= clock + Skew =>
          /\ IsBound(registered'[Norm[s]])
          /\ registered'[Norm[s]].lastUsed + Skew >= db[s].lastUsed
<1>1. ASSUME TypeOK, TypeOK', [Next]_vars PROVE [Latest]_vars
  <2> SUFFICES ASSUME Start, NEW s \in Spellings, IsBound(db[s]),
                      db[s].lastUsed + TTL >= clock + Skew
               PROVE  /\ IsBound(registered'[Norm[s]])
                      /\ registered'[Norm[s]].lastUsed + Skew >= db[s].lastUsed
    OBVIOUS
  <2>1. /\ db[s] \in Binding /\ db[s].lastUsed \in Nat /\ db[s].zone \in Int
        /\ zone' \in Int /\ zone' - db[s].zone <= Skew
        /\ clock \in Nat /\ TTL \in Nat /\ Skew \in Nat
    BY <1>1, ZonesAssumption, NumbersAssumption DEF TypeOK, Binding
  <2>2. ~RowExpired(db[s], zone')
    BY <2>1 DEF RowExpired, Text
  <2>3. db'[s] = db[s]
    BY <1>1, <2>2 DEF Start, PruneRows, TypeOK
  <2>4. PICK r \in Spellings : /\ registered'[Norm[s]] = db'[r] /\ IsBound(db'[r])
                               /\ Text(db'[s]) <= Text(db'[r])
    <3> DEFINE Spelled == {q \in Spellings : Norm[q] = Norm[s] /\ IsBound(db'[q])}
    <3>1. s \in Spelled /\ Norm[s] \in Keys
      BY <2>3, NormAssumption
    <3>2. registered' \in LoadChoices(db')
      BY DEF Start
    <3>3. \E q \in Spelled : /\ registered'[Norm[s]] = db'[q]
                             /\ \A r \in Spelled : Text(db'[r]) <= Text(db'[q])
      BY <3>1, <3>2 DEF LoadChoices
    <3> QED BY <3>1, <3>3
  <2>5. /\ db'[r].lastUsed \in Nat /\ db'[r].zone \in Int
        /\ db'[r].zone - db[s].zone <= Skew
    BY <1>1, ZonesAssumption DEF TypeOK, Binding
  <2> QED BY <2>1, <2>3, <2>4, <2>5 DEF Text
<1>2. QED
  BY <1>1, TypeCorrect, PTL DEF Spec, LoadKeepsLatest

-----------------------------------------------------------------------------
(* The refinement: SessionStore implements SessionBindings.                 *)

\* Rows under a spelling that is no key come from an old store.
LEMMA OldRowsAlways == Spec => []OldRows
<1>1. Init => OldRows
  BY StoresAssumption DEF Init, OldRows
<1>2. TypeOK /\ OldRows /\ [Next]_vars => OldRows'
  <2> SUFFICES ASSUME TypeOK, OldRows, [Next]_vars PROVE OldRows'
    OBVIOUS
  <2>1. CASE db' = db
    BY <2>1 DEF OldRows
  <2>2. ASSUME NEW w \in Workers, Commit(w) PROVE OldRows'
    BY <2>2 DEF Commit, Rows, OldRows, Unbound
  <2>3. CASE Start \/ StartWithoutLoad
    <3>1. \A s \in Spellings : db'[s] = db[s] \/ db'[s] = Unbound
      BY <2>3 DEF Start, StartWithoutLoad, PruneRows, TypeOK
    <3> QED BY <3>1 DEF OldRows, Unbound
  <2>4. CASE Next /\ ~Start /\ ~StartWithoutLoad /\ ~\E w \in Workers : Commit(w)
    <3>1. db' = db
      BY <2>4 DEF Next, Step, Register, ResolveBound, ResolveUnbound, FinishPaste,
         LockStore, TakeSnapshot, SaveFails, Reply, Crash, Tick
    <3> QED BY <2>1, <3>1
  <2>5. CASE UNCHANGED vars
    BY <2>1, <2>5 DEF vars
  <2> QED BY <2>2, <2>3, <2>4, <2>5
<1> QED BY <1>1, <1>2, TypeCorrect, PTL DEF Spec

\* A step of the store is a step of the promises, or none: one case for each
\* kind of step.
LEMMA StepImplements ==
  ASSUME LoadMayFail = FALSE, TypeOK, StoreInv, OldRows, [Next]_vars
  PROVE  [Bindings!Next]_(Bindings!bindingsVars)
<1> DEFINE InMemory == [k \in Keys |-> registered[k].created]
           OnDisk == [k \in Keys |-> db[k].created]
<1> USE NormAssumption
<1>0. /\ \A k \in Keys : /\ InMemory[k] \in Nat /\ OnDisk[k] \in Nat /\ acked[k] \in Nat
                         /\ InMemory[k] <= serial /\ OnDisk[k] <= serial /\ acked[k] <= serial
      /\ serial \in Nat
  BY NumberTypes DEF StoreInv, KnownSerials
<1>1. ASSUME NEW w \in Workers, NEW s \in Spellings, NEW m \in Machines, Register(w, s, m)
      PROVE  Bindings!Bind(Norm[s])
  <2>1. /\ InMemory'[Norm[s]] = serial + 1
        /\ \A j \in Keys : j # Norm[s] => InMemory'[j] = InMemory[j]
    BY <1>1 DEF Register, TypeOK
  <2>2. up /\ UNCHANGED <<up, db, acked, forgotten>>
    BY <1>1 DEF Register
  <2> QED BY <1>0, <2>1, <2>2 DEF Bindings!Bind
<1>2. ASSUME UNCHANGED <<up, db, acked, forgotten>>, \A k \in Keys : registered'[k].created = registered[k].created
      PROVE  UNCHANGED Bindings!bindingsVars
  BY <1>2 DEF Bindings!bindingsVars
<1>3. ASSUME up, UNCHANGED <<up, db, acked>>, forgotten' = Forget(registered, registered'),
             \A k \in Keys : registered'[k] = registered[k] \/ registered'[k].created = 0
      PROVE  Bindings!GiveUp
  <2>1. \A k \in Keys : /\ registered'[k] = registered[k]
                           \/ (registered'[k].created = 0 /\ registered[k].created \in forgotten'[k])
                        /\ forgotten[k] \subseteq forgotten'[k]
    BY <1>3 DEF Forget
  <2>2. UNCHANGED <<up, OnDisk, acked>>
    BY <1>3
  <2>3. Bindings!Keeps(InMemory', InMemory) /\ Bindings!DropsMore
    BY <2>1 DEF Bindings!Keeps, Bindings!DropsMore
  <2> QED BY <1>3, <2>2, <2>3 DEF Bindings!GiveUp
<1>4. ASSUME NEW w \in Workers, Commit(w)
      PROVE  Bindings!Save
  <2>1. up /\ UNCHANGED <<up, InMemory, acked, forgotten>>
    BY <1>4 DEF Commit
  <2>2. \A k \in Keys : /\ OnDisk'[k] = snapshot[w][k].created
                        /\ CoversIn(forgotten[k], snapshot[w][k], acked[k])
                        /\ CoversIn(forgotten[k], snapshot[w][k], db[k].created)
                        /\ CoversIn(forgotten[k], registered[k], snapshot[w][k].created)
    BY <1>4 DEF Commit, Rows, StoreInv, SnapshotCovers, Covers
  <2> QED BY <2>1, <2>2 DEF Bindings!Save, Bindings!Stands, CoversIn
<1>5. ASSUME NEW w \in Workers, Reply(w)
      PROVE  [Bindings!Next]_(Bindings!bindingsVars)
  <2> DEFINE k == request[w].key
             c == request[w].created
  <2>1. k \in Keys /\ c \in Nat /\ InFlight(w)
    BY <1>5, InFlightType DEF Reply, StoreInv, StagesMatch
  <2>2. up /\ UNCHANGED <<up, InMemory, OnDisk, forgotten>>
    BY <1>5 DEF Reply
  <2>3. acked' = [acked EXCEPT ![k] = Later(acked[k], c)]
    BY <1>5 DEF Reply
  <2>4. CoversIn(forgotten[k], db[k], c) /\ CoversIn(forgotten[k], registered[k], c)
    BY <1>5, <2>1 DEF StoreInv, AnswersCovered, MemoryCovers, Reply, Covers
  <2>5. CASE c > acked[k]
    <3>1. acked'[k] = c /\ \A j \in Keys : j # k => acked'[j] = acked[j]
      BY <2>1, <2>3, <2>5 DEF Later, TypeOK
    <3>2. Bindings!Confirm(k)
      BY <1>0, <2>1, <2>2, <2>4, <2>5, <3>1 DEF Bindings!Confirm, Bindings!Stands, CoversIn
    <3> QED BY <2>1, <3>2 DEF Bindings!Next
  <2>6. CASE ~(c > acked[k])
    <3>1. acked' = acked
      BY <1>0, <2>1, <2>3, <2>6 DEF Later, TypeOK
    <3> QED BY <2>2, <3>1 DEF Bindings!bindingsVars
  <2> QED BY <2>5, <2>6
<1>6. CASE Crash
  <2>1. up /\ ~up' /\ UNCHANGED <<OnDisk, acked, forgotten>> /\ InMemory' = [k \in Keys |-> 0]
    BY <1>6 DEF Crash, NoTable, Unbound
  <2> QED BY <2>1 DEF Bindings!Stop, Bindings!Next
<1>7. CASE Start
  <2>1. ~up /\ up' /\ acked' = acked
        /\ forgotten' = ForgetRows({s \in Spellings : db[s] # registered'[Norm[s]]})
    BY <1>7 DEF Start
  <2>2. \A s \in Spellings : db'[s] = db[s] \/ (db'[s] = Unbound /\ ~(IsBound(db[s]) /\ ~RowExpired(db[s], zone')))
    BY <1>7 DEF Start, PruneRows, TypeOK
  <2>3. \A k \in Keys : \/ registered'[k] = Unbound
                        \/ \E s \in Spellings : /\ Norm[s] = k /\ registered'[k] = db'[s]
                                                /\ IsBound(db'[s])
    BY <1>7 DEF Start, LoadChoices
  <2>4. \A k \in Keys : \/ registered'[k].created = 0
                        \/ registered'[k] = db'[k] /\ IsBound(db'[k]) /\ db'[k] = db[k]
    BY <2>2, <2>3 DEF OldRows, Unbound, IsBound
  <2>5. \A k \in Keys : db[k] # registered'[k] => db[k].created \in forgotten'[k]
    BY <2>1 DEF ForgetRows
  <2>6. \A k \in Keys : forgotten[k] \subseteq forgotten'[k]
    BY <2>1 DEF ForgetRows
  <2>7. ASSUME NEW k \in Keys
        PROVE  /\ OnDisk'[k] = OnDisk[k] \/ (OnDisk'[k] = 0 /\ OnDisk[k] \in forgotten'[k])
               /\ InMemory'[k] = OnDisk[k] \/ (InMemory'[k] = 0 /\ OnDisk[k] \in forgotten'[k])
    <3>1. InMemory'[k] = OnDisk[k] \/ (InMemory'[k] = 0 /\ OnDisk[k] \in forgotten'[k])
      BY <2>4, <2>5
    <3>2. CASE db'[k] = db[k]
      BY <3>1, <3>2
    <3>3. CASE db'[k] # db[k]
      <4>1. db'[k] = Unbound /\ ~(IsBound(db[k]) /\ ~RowExpired(db[k], zone'))
        BY <2>2, <3>3
      <4>2. db[k] # Unbound
        BY <3>3, <4>1
      <4>3. \A s \in Spellings : IsBound(db'[s]) => db'[s] = db[s] /\ ~RowExpired(db[s], zone')
        BY <1>7 DEF Start, PruneRows, TypeOK, IsBound, Unbound
      <4>4. db[k] # registered'[k]
        BY <2>3, <4>1, <4>2, <4>3 DEF IsBound, RowExpired
      <4> QED BY <2>5, <3>1, <4>1, <4>4 DEF Unbound
    <3> QED BY <3>1, <3>2, <3>3
  <2>8. Bindings!DropsMore /\ Bindings!Keeps(OnDisk', OnDisk) /\ Bindings!Keeps(InMemory', OnDisk)
    BY <2>6, <2>7 DEF Bindings!DropsMore, Bindings!Keeps
  <2> QED BY <2>1, <2>8 DEF Bindings!Restart, Bindings!Next
<1>8. ASSUME NEW w \in Workers, NEW s \in Spellings, ResolveBound(w, s)
      PROVE  UNCHANGED Bindings!bindingsVars
  <2>1. \A k \in Keys : registered'[k].created = registered[k].created
    BY <1>8, TouchType DEF ResolveBound, TypeOK, Binding
  <2> QED BY <1>2, <1>8, <2>1 DEF ResolveBound, ghosts
<1>9. ASSUME NEW w \in Workers, NEW s \in Spellings, ResolveUnbound(w, s)
      PROVE  Bindings!GiveUp
  <2>1. \A k \in Keys : registered'[k] = registered[k] \/ registered'[k].created = 0
    BY <1>9 DEF ResolveUnbound, Unbound, TypeOK
  <2> QED BY <1>3, <1>9, <2>1 DEF ResolveUnbound
<1>10. ASSUME NEW w \in Workers, TakeSnapshot(w)
       PROVE  Bindings!GiveUp
  <2>1. \A k \in Keys : registered'[k] = registered[k] \/ registered'[k].created = 0
    BY <1>10 DEF TakeSnapshot, Prune, Unbound, TypeOK
  <2> QED BY <1>3, <1>10, <2>1 DEF TakeSnapshot
<1>11. ASSUME NEW w \in Workers, FinishPaste(w) \/ LockStore(w) \/ SaveFails(w)
       PROVE  UNCHANGED Bindings!bindingsVars
  BY <1>2, <1>11 DEF FinishPaste, LockStore, SaveFails
<1>12. CASE Tick \/ UNCHANGED vars
  BY <1>2, <1>12 DEF Tick, vars
<1>13. ~StartWithoutLoad
  BY DEF StartWithoutLoad
<1>14. ASSUME NEW w \in Workers, Step(w)
       PROVE  [Bindings!Next]_(Bindings!bindingsVars)
  <2> HIDE NormAssumption
  <2>1. \A s \in Spellings : Norm[s] \in Keys
    BY NormAssumption
  <2> QED BY <1>1, <1>4, <1>5, <1>8, <1>9, <1>10, <1>11, <1>14, <2>1 DEF Step, Bindings!Next
<1> QED BY <1>6, <1>7, <1>12, <1>13, <1>14 DEF Next, Bindings!Next

\* The table, its copy on disk and the answers keep the promises of
\* SessionBindings, whatever goroutines save at the same time and whenever the
\* daemon dies, as long as no load fails.
THEOREM StoreImplementsBindings ==
  ASSUME LoadMayFail = FALSE
  PROVE  Spec => ImplementsBindings
<1>1. Init => Bindings!Init
  BY StoresAssumption, NormAssumption DEF Init, NoTable, Unbound, Bindings!Init
<1>2. TypeOK /\ StoreInv /\ OldRows /\ [Next]_vars => [Bindings!Next]_(Bindings!bindingsVars)
  BY StepImplements
<1> QED
  BY <1>1, <1>2, TypeCorrect, StoreInvariant, OldRowsAlways, PTL
  DEF Spec, ImplementsBindings, Bindings!Spec

-----------------------------------------------------------------------------
(* The list of recent bindings                                              *)

\* A list names no session twice.
Distinct(list) == \A i, j \in DOMAIN list : i # j => list[i].key # list[j].key

\* The entries of a list name sessions.
LEMMA EntryKeys ==
  ASSUME NEW l \in Seq(RecentEntry), NEW i \in DOMAIN l
  PROVE  l[i].key \in Keys
<1>1. l[i] \in RecentEntry
  <2>1. l \in [1..Len(l) -> RecentEntry] /\ DOMAIN l = 1..Len(l)
    OBVIOUS
  <2> QED BY <2>1
<1> QED BY <1>1 DEF RecentEntry

\* What removeSessionBinding leaves of a list.
LEMMA WithoutKeyFacts ==
  ASSUME NEW l \in Seq(RecentEntry), Distinct(l), NEW k
  PROVE  LET w == WithoutKey(l, k) IN
         /\ w \in Seq(RecentEntry) /\ Distinct(w)
         /\ Len(w) <= Len(l) /\ Len(w) + 1 >= Len(l)
         /\ \A i \in DOMAIN w : w[i].key # k /\ \E j \in DOMAIN l : w[i] = l[j]
         /\ \A j \in DOMAIN l : l[j].key # k => \E i \in DOMAIN w : w[i] = l[j]
<1> DEFINE w == WithoutKey(l, k)
<1>1. CASE ~\E i \in DOMAIN l : l[i].key = k
  BY <1>1 DEF WithoutKey
<1>2. CASE \E i \in DOMAIN l : l[i].key = k
  <2>1. PICK n \in DOMAIN l : /\ l[n].key = k
                              /\ w = SubSeq(l, 1, n - 1) \o SubSeq(l, n + 1, Len(l))
    BY <1>2 DEF WithoutKey
  <2>2. /\ w \in Seq(RecentEntry) /\ Len(w) = Len(l) - 1
        /\ \A i \in 1..Len(l) - 1 : w[i] = IF i < n THEN l[i] ELSE l[i + 1]
    <3> DEFINE a == SubSeq(l, 1, n - 1)
               b == SubSeq(l, n + 1, Len(l))
    <3>1. n \in 1..Len(l) /\ Len(l) \in Nat
      BY <2>1
    <3>2. /\ a \in Seq(RecentEntry) /\ Len(a) = n - 1
          /\ \A i \in 1..(n - 1) : a[i] = l[i]
      BY <3>1
    <3>3. /\ b \in Seq(RecentEntry) /\ Len(b) = Len(l) - n
          /\ \A i \in 1..(Len(l) - n) : b[i] = l[n + i]
      BY <3>1
    <3>4. w = a \o b
      BY <2>1
    <3> HIDE DEF a, b, w
    <3>5. /\ w \in Seq(RecentEntry) /\ Len(w) = Len(l) - 1
          /\ \A i \in 1..Len(w) : w[i] = IF i <= Len(a) THEN a[i] ELSE b[i - Len(a)]
      BY <3>1, <3>2, <3>3, <3>4
    <3>6. ASSUME NEW i \in 1..(Len(l) - 1)
          PROVE  w[i] = IF i < n THEN l[i] ELSE l[i + 1]
      <4>1. CASE i < n
        BY <3>1, <3>2, <3>5, <4>1
      <4>2. CASE ~(i < n)
        <5>1. i - (n - 1) \in 1..(Len(l) - n) /\ n + (i - (n - 1)) = i + 1
          BY <3>1, <4>2
        <5>2. w[i] = b[i - (n - 1)]
          BY <3>1, <3>2, <3>5, <4>2
        <5> QED BY <3>3, <4>2, <5>1, <5>2
      <4> QED BY <4>1, <4>2
    <3> QED BY <3>5, <3>6
  <2>3. /\ DOMAIN w = 1..(Len(l) - 1) /\ DOMAIN l = 1..Len(l) /\ Len(l) \in Nat
        /\ n \in 1..Len(l)
    BY <2>1, <2>2
  <2> HIDE DEF w
  <2>4. \A i \in DOMAIN w : \E j \in DOMAIN l : j # n /\ w[i] = l[j] /\ j = IF i < n THEN i ELSE i + 1
    BY <2>2, <2>3
  <2>5. Distinct(w)
    BY <2>3, <2>4 DEF Distinct
  <2>6. \A i \in DOMAIN w : w[i].key # k
    <3> SUFFICES ASSUME NEW i \in DOMAIN w PROVE w[i].key # k
      OBVIOUS
    <3>1. PICK j \in DOMAIN l : j # n /\ w[i] = l[j]
      BY <2>4
    <3>2. l[j].key # l[n].key /\ l[n].key = k
      BY <2>1, <3>1 DEF Distinct
    <3> QED BY <3>1, <3>2
  <2>7. \A j \in DOMAIN l : j # n => \E i \in DOMAIN w : w[i] = l[j]
    <3> SUFFICES ASSUME NEW j \in DOMAIN l, j # n PROVE \E i \in DOMAIN w : w[i] = l[j]
      OBVIOUS
    <3>1. CASE j < n
      BY <3>1, <2>2, <2>3
    <3>2. CASE j > n
      <4>1. j - 1 \in DOMAIN w /\ w[j - 1] = l[j]
        BY <3>2, <2>2, <2>3
      <4> QED BY <4>1
    <3>3. j \in Int /\ n \in Int
      BY <2>3
    <3> QED BY <3>1, <3>2, <3>3
  <2>8. Len(w) <= Len(l) /\ Len(w) + 1 >= Len(l)
    BY <2>2, <2>3
  <2>9. \A j \in DOMAIN l : l[j].key # k => \E i \in DOMAIN w : w[i] = l[j]
    BY <2>1, <2>7
  <2>10. \A i \in DOMAIN w : w[i].key # k /\ \E j \in DOMAIN l : w[i] = l[j]
    BY <2>4, <2>6
  <2> QED BY <2>2, <2>5, <2>8, <2>9, <2>10 DEF w
<1> QED BY <1>1, <1>2

\* What registerSession makes of the list: the new entry first, and the others
\* as far as there is room.
LEMMA PrependFacts ==
  ASSUME NEW l \in Seq(RecentEntry), Distinct(l), NEW e \in RecentEntry
  PROVE  LET p == Prepend(l, e) IN
         /\ Distinct(p) /\ 1 \in DOMAIN p /\ p[1] = e
         /\ \A i \in DOMAIN p : p[i] = e \/ (p[i].key # e.key /\ \E j \in DOMAIN l : p[i] = l[j])
         /\ Len(p) < RecentCap =>
              /\ Len(l) < RecentCap
              /\ \A j \in DOMAIN l : l[j].key # e.key => \E i \in DOMAIN p : p[i] = l[j]
<1> DEFINE w == WithoutKey(l, e.key)
           full == <<e>> \o w
           p == Prepend(l, e)
<1>1. /\ w \in Seq(RecentEntry) /\ Distinct(w) /\ Len(w) \in Nat
      /\ Len(l) \in Nat /\ Len(w) + 1 >= Len(l)
      /\ \A i \in DOMAIN w : w[i].key # e.key /\ \E j \in DOMAIN l : w[i] = l[j]
      /\ \A j \in DOMAIN l : l[j].key # e.key => \E i \in DOMAIN w : w[i] = l[j]
  BY WithoutKeyFacts
<1>2. /\ RecentCap \in Nat \ {0}
      /\ p = IF Len(full) > RecentCap THEN SubSeq(full, 1, RecentCap) ELSE full
  BY NumbersAssumption DEF Prepend
<1> HIDE DEF w, p
<1>3. /\ full \in Seq(RecentEntry) /\ Len(full) = Len(w) + 1 /\ full[1] = e
      /\ \A i \in 2..Len(full) : full[i] = w[i - 1]
  BY <1>1
<1> HIDE DEF full
<1>4. /\ Len(p) = (IF Len(full) > RecentCap THEN RecentCap ELSE Len(full))
      /\ DOMAIN p = 1..Len(p) /\ \A i \in DOMAIN p : p[i] = full[i]
  BY <1>2, <1>3
<1>5. /\ DOMAIN w = 1..Len(w) /\ Len(p) \in Nat /\ Len(p) <= Len(full) /\ Len(p) >= 1
  BY <1>1, <1>2, <1>3, <1>4
<1>6. p[1] = e /\ 1 \in DOMAIN p /\ \A i \in DOMAIN p : i # 1 => i - 1 \in DOMAIN w /\ p[i] = w[i - 1]
  BY <1>3, <1>4, <1>5
<1>7. Distinct(p)
  <2> SUFFICES ASSUME NEW i \in DOMAIN p, NEW j \in DOMAIN p, i < j PROVE p[i].key # p[j].key
    BY <1>4, <1>5 DEF Distinct
  <2>1. j # 1 /\ j - 1 \in DOMAIN w /\ p[j] = w[j - 1] /\ i \in Int /\ j \in Int
    BY <1>4, <1>5, <1>6
  <2>2. CASE i = 1
    BY <1>1, <1>6, <2>1, <2>2
  <2>3. CASE i # 1
    <3>1. i - 1 \in DOMAIN w /\ p[i] = w[i - 1] /\ i - 1 # j - 1
      BY <1>6, <2>1, <2>3
    <3> QED BY <1>1, <2>1, <3>1 DEF Distinct
  <2> QED BY <2>2, <2>3
<1>8. \A i \in DOMAIN p : p[i] = e \/ (p[i].key # e.key /\ \E j \in DOMAIN l : p[i] = l[j])
  BY <1>1, <1>6
<1>9. ASSUME Len(p) < RecentCap
      PROVE  /\ Len(l) < RecentCap
             /\ \A j \in DOMAIN l : l[j].key # e.key => \E i \in DOMAIN p : p[i] = l[j]
  <2>1. Len(p) = Len(full) /\ Len(l) < RecentCap
    BY <1>1, <1>2, <1>3, <1>4, <1>9
  <2>2. \A i \in DOMAIN w : i + 1 \in DOMAIN p /\ p[i + 1] = w[i]
    BY <1>3, <1>4, <1>5, <2>1
  <2> QED BY <1>1, <2>1, <2>2
<1> QED BY <1>6, <1>7, <1>8, <1>9 DEF p

\* What recentBindingsFromMap makes of the table.
LEMMA RecentOfFacts ==
  ASSUME NEW t \in [Keys -> Binding], NEW r \in RecentOf(t)
  PROVE  /\ Distinct(r)
         /\ \A i \in DOMAIN r : r[i].key \in Keys /\ r[i] = Entry(r[i].key, t[r[i].key])
         /\ Len(r) < RecentCap => \A k \in Bound(t) : \E i \in DOMAIN r : r[i].key = k
<1> DEFINE bound == Bound(t)
           n == IF Cardinality(bound) > RecentCap THEN RecentCap ELSE Cardinality(bound)
<1>1. bound \in SUBSET Keys /\ IsFiniteSet(bound) /\ Cardinality(bound) \in Nat
  BY KeysFinite, FS_Subset, FS_CardinalityType DEF Bound
<1>2. n \in Nat /\ RecentCap \in Nat
  BY <1>1, NumbersAssumption
<1>3. PICK o \in [1..n -> bound] :
        /\ \A i, j \in 1..n : i # j => o[i] # o[j]
        /\ r = [i \in 1..n |-> Entry(o[i], t[o[i]])]
  BY DEF RecentOf
<1>4. \A k : Entry(k, t[k]).key = k
  BY DEF Entry
<1>5. Cardinality(bound) <= RecentCap => n = Cardinality(bound)
  BY <1>1, <1>2
<1>6. Cardinality(bound) > RecentCap => n = RecentCap
  BY <1>1, <1>2
<1> HIDE DEF bound, n
<1>7. /\ DOMAIN r = 1..n /\ Len(r) = n
      /\ \A i \in 1..n : o[i] \in bound /\ r[i] = Entry(o[i], t[o[i]]) /\ r[i].key = o[i]
  BY <1>2, <1>3, <1>4
<1>8. ASSUME Len(r) < RecentCap, NEW k \in bound PROVE \E i \in 1..n : o[i] = k
  <2>1. n = Cardinality(bound)
    BY <1>1, <1>2, <1>7, <1>5, <1>6, <1>8
  <2>2. o \in Injection(1..n, bound)
    BY <1>3 DEF Injection, IsInjective
  <2>3. Cardinality(1..n) = n
    <3>1. Cardinality(1..n) = IF 1 > n THEN 0 ELSE n - 1 + 1
      BY <1>2, FS_Interval
    <3> QED BY <1>2, <3>1
  <2>4. o \in Surjection(1..n, bound)
    BY <1>1, <2>1, <2>2, <2>3, FS_Injection
  <2> QED BY <2>4, <1>8 DEF Surjection
<1>9. Distinct(r)
  BY <1>3, <1>7 DEF Distinct
<1>10. \A i \in DOMAIN r : r[i].key \in Keys /\ r[i] = Entry(r[i].key, t[r[i].key])
  BY <1>1, <1>7
<1>11. Len(r) < RecentCap => \A k \in bound : \E i \in DOMAIN r : r[i].key = k
  <2> SUFFICES ASSUME Len(r) < RecentCap, NEW k \in bound PROVE \E i \in DOMAIN r : r[i].key = k
    OBVIOUS
  <2>1. PICK i \in 1..n : o[i] = k
    BY <1>8
  <2> QED BY <2>1, <1>7
<1> QED BY <1>9, <1>10, <1>11 DEF bound

-----------------------------------------------------------------------------
(* The list status shows agrees with the table.                             *)

\* The properties of the list, and that both are empty while the daemon is down.
RecentInv == RecentMatches /\ (~up => registered = NoTable /\ recentBinds = <<>>)

\* The empty list agrees with the empty table.
LEMMA EmptyListMatches ==
  ASSUME registered = NoTable, recentBinds = <<>>
  PROVE  RecentMatches
<1>1. Bound(registered) = {}
  BY DEF Bound, IsBound, NoTable, Unbound
<1>2. DOMAIN recentBinds = {}
  OBVIOUS
<1> QED BY <1>1, <1>2 DEF RecentMatches

\* Every step leaves the list in agreement with the table: a registration puts
\* its entry in front of the others, a paste touches only the time of a
\* binding or removes it, and a save or a start makes the list anew.
LEMMA RecentStep ==
  ASSUME TypeOK, TypeOK', RecentInv, [Next]_vars
  PROVE  RecentInv'
<1>1. ASSUME NEW w \in Workers, NEW s \in Spellings, NEW m \in Machines, Register(w, s, m)
      PROVE  RecentInv'
  <2> DEFINE k == Norm[s]
             b == [machine |-> m, created |-> serial + 1, lastUsed |-> clock, zone |-> zone]
             e == Entry(k, b)
             l == recentBinds
             p == recentBinds'
  <2>1. /\ k \in Keys /\ b \in Binding /\ e \in RecentEntry /\ e.key = k
        /\ registered' = [registered EXCEPT ![k] = b] /\ p = Prepend(l, e) /\ up'
    BY <1>1, NormAssumption DEF Register, TypeOK, Binding, Entry, RecentEntry
  <2>2. /\ registered'[k] = b
        /\ \A q \in Keys : q # k => registered'[q] = registered[q]
    BY <2>1 DEF TypeOK
  <2> HIDE DEF k, b
  <2>3. l \in Seq(RecentEntry) /\ Distinct(l)
    BY DEF TypeOK, RecentInv, RecentMatches, Distinct
  <2>4. /\ Distinct(p) /\ 1 \in DOMAIN p /\ p[1] = e
        /\ \A i \in DOMAIN p : p[i] = e \/ (p[i].key # e.key /\ \E j \in DOMAIN l : p[i] = l[j])
        /\ Len(p) < RecentCap =>
             /\ Len(l) < RecentCap
             /\ \A j \in DOMAIN l : l[j].key # e.key => \E i \in DOMAIN p : p[i] = l[j]
    BY <2>1, <2>3, PrependFacts
  <2>5. \A j \in DOMAIN l : l[j].key \in Keys
    BY <2>3, EntryKeys
  <2>6. ASSUME NEW i \in DOMAIN p, IsBound(registered'[p[i].key])
        PROVE  p[i] = Entry(p[i].key, registered'[p[i].key])
    <3>1. CASE p[i] = e
      BY <3>1, <2>1, <2>2
    <3>2. ASSUME p[i].key # e.key, NEW j \in DOMAIN l, p[i] = l[j]
          PROVE  p[i] = Entry(p[i].key, registered'[p[i].key])
      <4>1. registered'[l[j].key] = registered[l[j].key]
        BY <3>2, <2>1, <2>2, <2>5
      <4> QED BY <4>1, <3>2, <2>6 DEF RecentInv, RecentMatches
    <3> QED BY <3>1, <3>2, <2>4
  <2>7. ASSUME Len(p) < RecentCap, NEW q \in Bound(registered')
        PROVE  \E i \in DOMAIN p : p[i].key = q
    <3>1. CASE q = k
      BY <3>1, <2>1, <2>4
    <3>2. CASE q # k
      <4>1. q \in Bound(registered)
        BY <3>2, <2>2, <2>7 DEF Bound
      <4>2. PICK j \in DOMAIN l : l[j].key = q
        BY <4>1, <2>4, <2>7 DEF RecentInv, RecentMatches
      <4> QED BY <4>2, <3>2, <2>1, <2>4, <2>7
    <3> QED BY <3>1, <3>2
  <2>8. \A i, j \in DOMAIN p : i # j => p[i].key # p[j].key
    BY <2>4 DEF Distinct
  <2> QED BY <2>1, <2>6, <2>7, <2>8 DEF RecentInv, RecentMatches
<1>2. ASSUME NEW w \in Workers, NEW s \in Spellings, ResolveBound(w, s)
      PROVE  RecentInv'
  <2>1. \A q \in Keys : /\ registered'[q].machine = registered[q].machine
                         /\ registered'[q].created = registered[q].created
    BY <1>2, NormAssumption DEF ResolveBound, TypeOK, Binding
  <2>2. recentBinds' = recentBinds /\ up'
    BY <1>2 DEF ResolveBound
  <2>3. Bound(registered') = Bound(registered)
    BY <2>1 DEF Bound, IsBound
  <2>4. \A i \in DOMAIN recentBinds : recentBinds[i].key \in Keys
    BY EntryKeys DEF TypeOK
  <2>5. \A q \in Keys : /\ IsBound(registered'[q]) <=> IsBound(registered[q])
                         /\ Entry(q, registered'[q]) = Entry(q, registered[q])
    BY <2>1 DEF IsBound, Entry
  <2> QED BY <2>2, <2>3, <2>4, <2>5 DEF RecentInv, RecentMatches
<1>3. ASSUME NEW w \in Workers, NEW s \in Spellings, ResolveUnbound(w, s)
      PROVE  RecentInv'
  <2>1. \A q \in Keys : IsBound(registered'[q]) => registered'[q] = registered[q]
    BY <1>3, NormAssumption DEF ResolveUnbound, TypeOK, IsBound, Unbound
  <2>2. recentBinds' = recentBinds /\ up'
    BY <1>3 DEF ResolveUnbound
  <2>3. Bound(registered') \subseteq Bound(registered)
    BY <2>1 DEF Bound
  <2>4. \A i \in DOMAIN recentBinds : recentBinds[i].key \in Keys
    BY EntryKeys DEF TypeOK
  <2> QED BY <2>1, <2>2, <2>3, <2>4 DEF RecentInv, RecentMatches
<1>4. ASSUME NEW w \in Workers, TakeSnapshot(w) PROVE RecentInv'
  <2>1. RecentMatches'
    <3>1. recentBinds' \in RecentOf(registered') /\ registered' \in [Keys -> Binding]
      BY <1>4 DEF TakeSnapshot, TypeOK
    <3> QED BY <3>1, RecentOfFacts DEF RecentMatches, Distinct
  <2> QED BY <2>1, <1>4 DEF TakeSnapshot, RecentInv
<1>5. CASE Crash
  <2>1. registered' = NoTable /\ recentBinds' = <<>>
    BY <1>5 DEF Crash
  <2>2. Bound(registered') = {} /\ DOMAIN recentBinds' = {}
    BY <2>1 DEF Bound, IsBound, NoTable, Unbound
  <2> QED BY <2>1, <2>2 DEF RecentInv, RecentMatches
<1>6. CASE Start
  <2>1. recentBinds' \in RecentOf(registered') /\ registered' \in [Keys -> Binding] /\ up'
    BY <1>6 DEF Start, TypeOK
  <2>2. RecentMatches'
    BY <2>1, RecentOfFacts DEF RecentMatches, Distinct
  <2> QED BY <2>1, <2>2 DEF RecentInv
<1>7. CASE /\ UNCHANGED <<registered, recentBinds>> /\ (up' \/ up' = up)
  BY <1>7 DEF RecentInv, RecentMatches, Bound
<1>8. ASSUME NEW w \in Workers,
             FinishPaste(w) \/ LockStore(w) \/ Commit(w) \/ SaveFails(w) \/ Reply(w)
      PROVE  RecentInv'
  BY <1>7, <1>8 DEF FinishPaste, LockStore, Commit, SaveFails, Reply
<1>9. CASE StartWithoutLoad \/ Tick \/ UNCHANGED vars
  BY <1>7, <1>9 DEF StartWithoutLoad, Tick, vars
<1> QED BY <1>1, <1>2, <1>3, <1>4, <1>5, <1>6, <1>8, <1>9 DEF Next, Step

\* The list of recent bindings that status shows agrees with the table after
\* every handler, save, crash and start, also when loading the store fails.
THEOREM RecentMatchesAlways == Spec => []RecentMatches
<1>1. Init => RecentInv
  BY EmptyListMatches DEF Init, RecentInv
<1>2. TypeOK /\ TypeOK' /\ RecentInv /\ [Next]_vars => RecentInv'
  BY RecentStep
<1>3. RecentInv => RecentMatches
  BY DEF RecentInv
<1> QED BY <1>1, <1>2, <1>3, TypeCorrect, PTL DEF Spec

=============================================================================
