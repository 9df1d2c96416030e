--------------------------- MODULE RouteCacheProofs ---------------------------
(***************************************************************************)
(* Proofs about RouteCache: type correctness, that a cached route is never *)
(* older than the TTL when it is used, and what may be stale or empty when *)
(* measurements, invalidations and network changes overlap.                *)
(***************************************************************************)
EXTENDS RouteCache, TLAPS

(* Where a goroutine is says which machine it works for.                    *)
Placed ==
  /\ \A p \in Procs : pc[p] \in {"test", "store"} => refresh[p].host \in Hosts
  /\ \A p \in Procs \ Pasters : pc[p] = "begin" => refresh[p].host \in Hosts
  /\ \A p \in Pasters : pc[p] # "idle" => paste[p].host \in Hosts
  /\ \A p \in Pasters : pc[p] \in {"test", "store"} => refresh[p].host = paste[p].host

(* checkedAt is the time the measurement began.                             *)
StampedEarly == \A h \in Hosts : cache[h].checkedAt = cache[h].began

(* Running measurements began after the last InvalidateAll or are marked.   *)
RunningMarked ==
  /\ cleared <= epoch
  /\ \A p \in Procs : pc[p] \in {"test", "store"} =>
       refresh[p].ghost.epoch >= cleared \/ refresh[p].ghost.mark = "overtaken"

(* A paste that is about to read the cache again finds its route there.     *)
RereadFinds ==
  \A p \in Pasters : pc[p] = "reread" => paste[p].mark = "invalidated" \/ Cached(paste[p].host)

(* After its InvalidateHost, what a retry can find began after its failure  *)
(* or is marked.                                                            *)
FreshFor(p, ghost) == p \in ghost.failures \/ ghost.mark = "overtaken"
RetryFinds ==
  \A p \in Pasters :
    paste[p].attempt = 2 /\ pc[p] \notin {"idle", "invalidate"} =>
      /\ Cached(paste[p].host) => FreshFor(p, cache[paste[p].host].ghost)
      /\ \A q \in Procs : Running(q, paste[p].host) => FreshFor(p, refresh[q].ghost)
      /\ pc[p] = "upload" /\ paste[p].route # NoRoute => FreshFor(p, paste[p].ghost)

CacheInv ==
  /\ TypeOK
  /\ Placed
  /\ StampedEarly
  /\ RunningMarked /\ StaleOnlyIfOvertaken
  /\ RereadFinds /\ EmptyMeansInvalidated
  /\ RetryFinds

-----------------------------------------------------------------------------
(* The records the actions build have their types.                          *)
LEMMA Records ==
  /\ NoEntry \in Entry /\ NoRefresh \in Refresh /\ NoPaste \in Paste
  /\ \A h \in Hosts : [NoRefresh EXCEPT !.host = h] \in Refresh
  /\ \A h \in Hosts : [NoPaste EXCEPT !.host = h, !.attempt = 1] \in Paste
  /\ \A h \in Hosts \cup {0}, f \in Routes \cup {NoRoute} :
       [NoPaste EXCEPT !.host = h, !.attempt = 2, !.failed = f] \in Paste
  /\ \A q \in Paste, e \in Entry : [q EXCEPT !.route = e.route, !.ghost = e.ghost] \in Paste
  /\ \A m \in Refresh : m.next \in Routes =>
       \A b \in Routes \cup {NoRoute}, k \in Nat :
         [m EXCEPT !.next = m.next + 1, !.best = b, !.latency = k] \in Refresh
  /\ 1 \in Hosts
<1> USE OrderAssumption, CountsAssumption
<1>0. NoEntry.ghost \in Measured
  BY DEF NoEntry, Measured
<1>1. NoEntry \in Entry /\ NoRefresh \in Refresh /\ NoPaste \in Paste
  BY <1>0 DEF NoEntry, Entry, NoRefresh, Refresh, NoPaste, Paste, Hosts, NoRoute, None, Routes, Index
<1>2. \A h \in Hosts : [NoRefresh EXCEPT !.host = h] \in Refresh
  BY <1>1 DEF Refresh
<1>3. ASSUME NEW q \in Paste, NEW h \in Hosts \cup {0}, NEW i \in 0..2, NEW f \in Routes \cup {NoRoute}
      PROVE  [q EXCEPT !.host = h, !.attempt = i, !.failed = f] \in Paste
  BY DEF Paste
<1>4. ASSUME NEW q \in Paste, NEW h \in Hosts \cup {0}, NEW i \in 0..2
      PROVE  [q EXCEPT !.host = h, !.attempt = i] \in Paste
  BY DEF Paste
<1>8. 1 \in 0..2 /\ 2 \in 0..2
  OBVIOUS
<1>9. ASSUME NEW h \in Hosts PROVE [NoPaste EXCEPT !.host = h, !.attempt = 1] \in Paste
  BY <1>1, <1>4, <1>8
<1>10. ASSUME NEW h \in Hosts \cup {0}, NEW f \in Routes \cup {NoRoute}
       PROVE  [NoPaste EXCEPT !.host = h, !.attempt = 2, !.failed = f] \in Paste
  BY <1>1, <1>3, <1>8
<1>5. \A q \in Paste, e \in Entry : [q EXCEPT !.route = e.route, !.ghost = e.ghost] \in Paste
  BY DEF Paste, Entry
<1>6. ASSUME NEW m \in Refresh, m.next \in Routes, NEW b \in Routes \cup {NoRoute}, NEW k \in Nat
      PROVE  [m EXCEPT !.next = m.next + 1, !.best = b, !.latency = k] \in Refresh
  <2>1. m.next + 1 \in 1..(N + 1)
    BY <1>6 DEF Routes, Index
  <2> QED
    BY <2>1 DEF Refresh
<1>7. 1 \in Hosts
  BY DEF Hosts
<1> QED
  BY <1>1, <1>2, <1>5, <1>6, <1>7, <1>9, <1>10

(* What the ghosts of a measurement and a cache entry may become.           *)
LEMMA Marks ==
  ASSUME NEW p
  PROVE  /\ \A m \in Refresh : [m EXCEPT !.ghost.mark = "overtaken"] \in Refresh
         /\ \A m \in Refresh : [m EXCEPT !.ghost.failures = @ \ {p}] \in Refresh
         /\ \A e \in Entry : [e EXCEPT !.ghost.failures = @ \ {p}] \in Entry
<1>1. \A g \in Measured : [g EXCEPT !.mark = "overtaken"] \in Measured
  BY DEF Measured
<1>2. \A g \in Measured : [g EXCEPT !.failures = @ \ {p}] \in Measured
  BY DEF Measured
<1>3. \A m \in Refresh, g \in Measured : [m EXCEPT !.ghost = g] \in Refresh
  BY DEF Refresh
<1>4. \A e \in Entry, g \in Measured : [e EXCEPT !.ghost = g] \in Entry
  BY DEF Entry
<1>5. \A m \in Refresh : m.ghost \in Measured
  BY DEF Refresh
<1>6. \A e \in Entry : e.ghost \in Measured
  BY DEF Entry
<1>7. ASSUME NEW m \in Refresh PROVE [m EXCEPT !.ghost.mark = "overtaken"] \in Refresh
  <2>1. [m EXCEPT !.ghost.mark = "overtaken"] = [m EXCEPT !.ghost = [m.ghost EXCEPT !.mark = "overtaken"]]
    BY DEF Refresh
  <2> QED
    BY <2>1, <1>1, <1>3, <1>5
<1>8. ASSUME NEW m \in Refresh PROVE [m EXCEPT !.ghost.failures = @ \ {p}] \in Refresh
  <2>1. [m EXCEPT !.ghost.failures = @ \ {p}] = [m EXCEPT !.ghost = [m.ghost EXCEPT !.failures = @ \ {p}]]
    BY DEF Refresh
  <2> QED
    BY <2>1, <1>2, <1>3, <1>5
<1>9. ASSUME NEW e \in Entry PROVE [e EXCEPT !.ghost.failures = @ \ {p}] \in Entry
  <2>1. [e EXCEPT !.ghost.failures = @ \ {p}] = [e EXCEPT !.ghost = [e.ghost EXCEPT !.failures = @ \ {p}]]
    BY DEF Entry
  <2> QED
    BY <2>1, <1>2, <1>4, <1>6
<1> QED
  BY <1>7, <1>8, <1>9

-----------------------------------------------------------------------------
(* The invariant holds when the daemon starts.                              *)
LEMMA CacheInvInit == Init => CacheInv
<1> SUFFICES ASSUME Init PROVE CacheInv
  OBVIOUS
<1> USE OrderAssumption, CountsAssumption, NetsAssumption, ProcsAssumption
<1>2. \A p \in Warmers : p[1] \in Hosts
  BY DEF Warmers
<1>4. TypeOK
  <2>1. refresh \in [Procs -> Refresh]
    BY Records, <1>2 DEF Init
  <2> QED
    BY <2>1, Records DEF TypeOK, Init, Stages
<1>5. Placed
  BY <1>2 DEF Placed, Init, Procs, NoRefresh
<1>6. \A p \in Procs : pc[p] \in {"idle", "begin"}
  BY DEF Init
<1>7. \A h \in Hosts : ~Cached(h)
  BY DEF Init, Cached, NoEntry
<1>8. StampedEarly
  BY DEF StampedEarly, Init, NoEntry
<1>9. RunningMarked /\ StaleOnlyIfOvertaken
  BY <1>6, <1>7 DEF RunningMarked, StaleOnlyIfOvertaken, Init
<1>10. RereadFinds /\ EmptyMeansInvalidated
  BY <1>6 DEF RereadFinds, EmptyMeansInvalidated, Procs
<1>11. RetryFinds
  BY <1>6 DEF RetryFinds, Init, NoPaste, Procs
<1> QED
  BY <1>4, <1>5, <1>8, <1>9, <1>10, <1>11 DEF CacheInv

-----------------------------------------------------------------------------
(* Every step keeps the types.                                              *)
LEMMA TypeStep == TypeOK /\ Placed /\ [Next]_vars => TypeOK'
<1> SUFFICES ASSUME TypeOK, Placed, [Next]_vars PROVE TypeOK'
  OBVIOUS
<1> USE OrderAssumption, CountsAssumption, NetsAssumption, ProcsAssumption DEF TypeOK
<1>1. ASSUME NEW p \in Procs, Begin(p) PROVE TypeOK'
  <2>1. HostOf(p) \in Hosts
    BY <1>1 DEF Begin, HostOf, Placed
  <2>2. [NoRefresh EXCEPT !.host = HostOf(p), !.began = clock,
          !.ghost = [epoch |-> epoch, mark |-> "none",
                     failures |-> {q \in Pasters : paste[q].attempt = 2}]] \in Refresh
    BY Records, <2>1, ZenonT(60) DEF Refresh, Measured
  <2> QED
    BY <1>1, <2>2 DEF Begin, network, loop, ghosts, Goto, Stages
<1>2. ASSUME NEW p \in Procs, Test(p) PROVE TypeOK'
  <2> DEFINE m == refresh[p]
             l == net[m.host][m.next]
  <2>1. m \in Refresh /\ m.host \in Hosts /\ m.next \in Routes
    BY <1>2 DEF Test, Placed, Refresh, Routes, Index
  <2>2. l \in Nat \cup {Lost}
    BY <2>1
  <2>3. m.best \in Routes \cup {NoRoute} /\ m.latency \in Nat /\ m.next \in Routes \cup {NoRoute}
    BY <2>1 DEF Refresh
  <2>4. ASSUME NEW b \in {m.best, m.next}, NEW k \in {m.latency, l}, k # Lost
        PROVE  [m EXCEPT !.next = m.next + 1, !.best = b, !.latency = k] \in Refresh
    <3>1. b \in Routes \cup {NoRoute} /\ k \in Nat
      BY <2>2, <2>3, <2>4
    <3> QED
      BY <2>1, <3>1, Records
  <2>6. m.latency # Lost
    BY <2>3 DEF Lost
  <2>7. refresh' = [refresh EXCEPT ![p] =
          [m EXCEPT !.next = m.next + 1,
             !.best = IF l # Lost /\ Beats(l, m.best, m.latency) THEN m.next ELSE m.best,
             !.latency = IF l # Lost /\ Beats(l, m.best, m.latency) THEN l ELSE m.latency]]
    BY <1>2 DEF Test
  <2>5. refresh' \in [Procs -> Refresh]
    BY <2>4, <2>6, <2>7
  <2> QED
    BY <1>2, <2>5 DEF Test, network, loop, ghosts, Goto, Stages
<1>3. ASSUME NEW p \in Procs, Store(p) PROVE TypeOK'
  <2> DEFINE m == refresh[p]
  <2>1. m \in Refresh /\ m.host \in Hosts
    BY <1>3 DEF Store, Placed
  <2>2. \A r \in ToStore(m) : [route |-> r, checkedAt |-> m.began,
                              began |-> m.began, ghost |-> m.ghost] \in Entry
    BY <2>1 DEF ToStore, Entry, Refresh
  <2>3. cache' \in [Hosts -> Entry]
    BY <1>3, <2>1, <2>2 DEF Store
  <2>4. AfterStore(p) = "begin" => m.host + 1 \in Hosts
    BY <2>1 DEF AfterStore, Hosts
  <2>5. AfterStore(p) = "begin" => [NoRefresh EXCEPT !.host = m.host + 1] \in Refresh
    BY <2>4, Records DEF Refresh
  <2>6. refresh' \in [Procs -> Refresh]
    BY <1>3, <2>5, Records DEF Store
  <2>7. AfterStore(p) \in Stages
    BY DEF AfterStore, Stages
  <2> QED
    BY <1>3, <2>3, <2>6, <2>7 DEF Store, network, loop, ghosts, Goto
<1>4. ASSUME NEW p \in Pasters, NEW h \in Hosts, StartPaste(p, h) PROVE TypeOK'
  BY <1>4, Records DEF StartPaste, network, loop, ghosts, Goto, Stages
<1>5. ASSUME NEW p \in Pasters, NEW e \in Entry, Take(p, e) PROVE TypeOK'
  <2>1. [paste[p] EXCEPT !.route = e.route, !.ghost = e.ghost] \in Paste
    BY Records
  <2>2. paste' = [paste EXCEPT ![p] = [paste[p] EXCEPT !.route = e.route, !.ghost = e.ghost]]
    BY <1>5 DEF Take
  <2>3. paste' \in [Pasters -> Paste]
    BY <2>1, <2>2
  <2> QED
    BY <1>5, <2>3 DEF Take, network, loop, ghosts, Goto, Stages
<1>6. ASSUME NEW p \in Pasters, pc[p] # "idle" PROVE cache[paste[p].host] \in Entry
  BY <1>6 DEF Placed
<1>7. ASSUME NEW p \in Pasters, Hit(p) \/ Reread(p) PROVE TypeOK'
  <2>1. pc[p] # "idle" /\ Take(p, cache[paste[p].host])
    BY <1>7 DEF Hit, Reread
  <2> QED
    BY <2>1, <1>5, <1>6
<1>8. ASSUME NEW p \in Pasters, Miss(p) PROVE TypeOK'
  BY <1>8 DEF Miss, network, loop, ghosts, Goto, Stages
<1>9. \A h \in Hosts, p \in Pasters :
        [cache[h] EXCEPT !.ghost.failures = @ \ {p}] \in Entry
  BY Marks
<1>10. \A q \in Procs, p \in Pasters :
        [refresh[q] EXCEPT !.ghost.failures = @ \ {p}] \in Refresh
  BY Marks
<1>11. ASSUME NEW p \in Pasters, Finish(p) PROVE TypeOK'
  <2>1. cache' \in [Hosts -> Entry]
    BY <1>11, <1>9 DEF Finish
  <2>2. refresh' \in [Procs -> Refresh]
    BY <1>11, <1>10 DEF Finish
  <2> QED
    BY <1>11, <2>1, <2>2, Records DEF Finish, network, loop, ghosts, Goto, Stages
<1>12. ASSUME NEW p \in Pasters, FirstUploadFails(p) PROVE TypeOK'
  <2>1. [NoPaste EXCEPT !.host = paste[p].host, !.attempt = 2,
                        !.failed = paste[p].route] \in Paste
    <3>1. paste[p].host \in Hosts \cup {0} /\ paste[p].route \in Routes \cup {NoRoute}
      BY DEF Paste
    <3> QED
      BY <3>1, Records
  <2> QED
    BY <1>12, <2>1 DEF FirstUploadFails, network, loop, ghosts, Goto, Stages
<1>13. \A p \in Procs : [refresh[p] EXCEPT !.ghost.mark = "overtaken"] \in Refresh
  BY Marks
<1>14. \A p \in Pasters : [paste[p] EXCEPT !.mark = "invalidated"] \in Paste
  BY ZenonT(60) DEF Paste
<1>15. \A hs \in SUBSET Hosts : MarkLookups(hs, paste) \in [Pasters -> Paste]
  BY <1>14 DEF MarkLookups
<1>16. ASSUME NEW p \in Pasters, InvalidateHost(p) PROVE TypeOK'
  <2>1. paste[p].host \in Hosts
    BY <1>16 DEF InvalidateHost, Placed
  <2>2. refresh' \in [Procs -> Refresh]
    BY <1>16, <1>13 DEF InvalidateHost, MarkOvertaken
  <2>3. paste' \in [Pasters -> Paste]
    BY <1>16, <2>1, <1>15 DEF InvalidateHost
  <2>4. cache' \in [Hosts -> Entry]
    BY <1>16, Records DEF InvalidateHost
  <2> QED
    BY <1>16, <2>2, <2>3, <2>4 DEF InvalidateHost, network, loop, ghosts, Goto, Stages
<1>17. CASE NetworkChanges
  BY <1>17 DEF NetworkChanges
<1>18. CASE MonitorEnds \/ MonitorStarts
  BY <1>18 DEF MonitorEnds, MonitorStarts, ghosts
<1>19. CASE LoopChange \/ TimerFires
  BY <1>19 DEF LoopChange, TimerFires, ghosts
<1>20. CASE Tick
  BY <1>20 DEF Tick, network, loop, ghosts
<1>21. CASE LoopTick
  <2>1. [NoRefresh EXCEPT !.host = 1] \in Refresh
    BY Records
  <2>2. PICK r \in Refreshers : StartRefreshAll(r)
    BY <1>21 DEF LoopTick
  <2>3. refresh' \in [Procs -> Refresh]
    BY <2>1, <2>2, <1>13 DEF StartRefreshAll
  <2>4. paste' \in [Pasters -> Paste]
    BY <1>21, <1>15 DEF LoopTick
  <2>5. cache' \in [Hosts -> Entry]
    BY <1>21, Records DEF LoopTick
  <2>6. pc' \in [Procs -> Stages]
    BY <2>2 DEF StartRefreshAll, Goto, Stages
  <2> QED
    BY <1>21, <2>3, <2>4, <2>5, <2>6 DEF LoopTick
<1>22. CASE UNCHANGED vars
  BY <1>22 DEF vars, loop, ghosts
<1> QED
  BY <1>1, <1>2, <1>3, <1>4, <1>7, <1>8, <1>11, <1>12, <1>16, <1>17, <1>18, <1>19, <1>20, <1>21, <1>22
     DEF Next, RefreshStep, PasteStep, Loop, UploadSucceeds, PasteFails

-----------------------------------------------------------------------------
(* What a test of a route, the end of a paste, an InvalidateHost and the    *)
(* debounce tick leave of the other measurements, entries and pastes.       *)
TestEffect(p) ==
  /\ \A q \in Procs : refresh'[q].host = refresh[q].host /\ refresh'[q].ghost = refresh[q].ghost
  /\ pc[p] = "test" /\ \E st \in {"test", "store"} : pc' = [pc EXCEPT ![p] = st]
  /\ UNCHANGED <<cache, paste, epoch, cleared>>

\* What one probe of a refresh changes.
LEMMA TestDoes ==
  ASSUME TypeOK, NEW p \in Procs, Test(p)
  PROVE  TestEffect(p)
<1>1. \A q \in Procs : refresh[q] \in Refresh
  BY DEF TypeOK
<1> QED
  BY <1>1 DEF TestEffect, TypeOK, Test, Refresh, Goto, network, loop, ghosts

(* Finish takes the paster out of the ghosts and changes no other field.    *)
FinishEffect(p) ==
  /\ \A h \in Hosts :
       /\ cache'[h].route = cache[h].route
       /\ cache'[h].checkedAt = cache[h].checkedAt /\ cache'[h].began = cache[h].began
       /\ cache'[h].ghost.epoch = cache[h].ghost.epoch
       /\ cache'[h].ghost.mark = cache[h].ghost.mark
       /\ cache'[h].ghost.failures = cache[h].ghost.failures \ {p}
  /\ \A q \in Procs :
       /\ refresh'[q].host = refresh[q].host
       /\ refresh'[q].ghost.epoch = refresh[q].ghost.epoch
       /\ refresh'[q].ghost.mark = refresh[q].ghost.mark
       /\ refresh'[q].ghost.failures = refresh[q].ghost.failures \ {p}
  /\ paste' = [paste EXCEPT ![p] = NoPaste]
  /\ pc' = [pc EXCEPT ![p] = "idle"]
  /\ UNCHANGED <<epoch, cleared>>

\* What the end of a paste changes.
LEMMA FinishDoes ==
  ASSUME TypeOK, NEW p \in Pasters, Finish(p)
  PROVE  FinishEffect(p)
<1>1. ASSUME NEW h \in Hosts
      PROVE  /\ cache'[h].route = cache[h].route
             /\ cache'[h].checkedAt = cache[h].checkedAt /\ cache'[h].began = cache[h].began
             /\ cache'[h].ghost = [cache[h].ghost EXCEPT !.failures = @ \ {p}]
             /\ cache[h].ghost \in Measured
  <2>1. cache[h] \in Entry
    BY DEF TypeOK
  <2>2. cache'[h] = [cache[h] EXCEPT !.ghost.failures = @ \ {p}]
    BY DEF Finish
  <2> QED
    BY <2>1, <2>2 DEF Entry
<1>2. ASSUME NEW q \in Procs
      PROVE  /\ refresh'[q].host = refresh[q].host
             /\ refresh'[q].ghost = [refresh[q].ghost EXCEPT !.failures = @ \ {p}]
             /\ refresh[q].ghost \in Measured
  <2>1. refresh[q] \in Refresh
    BY DEF TypeOK
  <2>2. refresh'[q] = [refresh[q] EXCEPT !.ghost.failures = @ \ {p}]
    BY DEF Finish
  <2> QED
    BY <2>1, <2>2 DEF Refresh
<1>3. \A g \in Measured :
        /\ [g EXCEPT !.failures = @ \ {p}].epoch = g.epoch
        /\ [g EXCEPT !.failures = @ \ {p}].mark = g.mark
        /\ [g EXCEPT !.failures = @ \ {p}].failures = g.failures \ {p}
  BY DEF Measured
<1>4. /\ paste' = [paste EXCEPT ![p] = NoPaste]
      /\ pc' = [pc EXCEPT ![p] = "idle"]
      /\ UNCHANGED <<epoch, cleared>>
  BY DEF Finish, Goto, network, ghosts
<1> QED
  BY <1>1, <1>2, <1>3, <1>4 DEF FinishEffect

(* Marking the running measurements changes nothing else of them.           *)
LEMMA MarkEffect ==
  ASSUME NEW m \in Refresh
  PROVE  LET n == [m EXCEPT !.ghost.mark = "overtaken"] IN
         /\ n.host = m.host /\ n.ghost.mark = "overtaken"
         /\ n.ghost.epoch = m.ghost.epoch /\ n.ghost.failures = m.ghost.failures
<1>1. m.ghost \in Measured
  BY DEF Refresh
<1>2. [m EXCEPT !.ghost.mark = "overtaken"].ghost = [m.ghost EXCEPT !.mark = "overtaken"]
  BY DEF Refresh
<1> QED
  BY <1>1, <1>2 DEF Refresh, Measured

(* InvalidateHost empties one entry and marks what is under way for it.     *)
InvalidateEffect(p) ==
  /\ pc[p] = "invalidate" /\ pc' = [pc EXCEPT ![p] = "lookup"]
  /\ cache' = [cache EXCEPT ![paste[p].host] = NoEntry] /\ paste[p].host \in Hosts
  /\ paste'[p] = paste[p]
  /\ \A q \in Pasters :
       /\ paste'[q].host = paste[q].host /\ paste'[q].attempt = paste[q].attempt
       /\ paste'[q].route = paste[q].route /\ paste'[q].ghost = paste[q].ghost
       /\ paste[q].mark = "invalidated" => paste'[q].mark = "invalidated"
       /\ q # p /\ paste[q].host = paste[p].host => paste'[q].mark = "invalidated"
  /\ \A q \in Procs :
       /\ refresh'[q].host = refresh[q].host
       /\ refresh'[q].ghost.epoch = refresh[q].ghost.epoch
       /\ refresh'[q].ghost.failures = refresh[q].ghost.failures
       /\ refresh[q].ghost.mark = "overtaken" => refresh'[q].ghost.mark = "overtaken"
       /\ Running(q, paste[p].host) => refresh'[q].ghost.mark = "overtaken"
  /\ UNCHANGED <<epoch, cleared>>

\* What invalidating a host after a failed upload changes.
LEMMA InvalidateDoes ==
  ASSUME TypeOK, Placed, NEW p \in Pasters, InvalidateHost(p)
  PROVE  InvalidateEffect(p)
<1> DEFINE h == paste[p].host
<1>1. pc[p] = "invalidate" /\ pc' = [pc EXCEPT ![p] = "lookup"] /\ UNCHANGED <<epoch, cleared>>
  BY DEF InvalidateHost, Goto, network, ghosts
<1>2. cache' = [cache EXCEPT ![h] = NoEntry] /\ h \in Hosts
  BY DEF InvalidateHost, Placed
<1>3. paste'[p] = paste[p]
  BY DEF InvalidateHost, MarkLookups, TypeOK
<1>4. ASSUME NEW q \in Pasters, q # p
      PROVE  /\ paste'[q].host = paste[q].host /\ paste'[q].attempt = paste[q].attempt
             /\ paste'[q].route = paste[q].route /\ paste'[q].ghost = paste[q].ghost
             /\ paste[q].mark = "invalidated" \/ paste[q].host = h => paste'[q].mark = "invalidated"
  <2>1. paste[q] \in Paste
    BY DEF TypeOK
  <2>2. paste'[q] = IF paste[q].host = h THEN [paste[q] EXCEPT !.mark = "invalidated"] ELSE paste[q]
    BY <1>4 DEF InvalidateHost, MarkLookups, TypeOK
  <2> QED
    BY <2>1, <2>2 DEF Paste
<1>5. ASSUME NEW q \in Procs
      PROVE  /\ refresh'[q].host = refresh[q].host
             /\ refresh'[q].ghost.epoch = refresh[q].ghost.epoch
             /\ refresh'[q].ghost.failures = refresh[q].ghost.failures
             /\ refresh[q].ghost.mark = "overtaken" => refresh'[q].ghost.mark = "overtaken"
             /\ Running(q, h) => refresh'[q].ghost.mark = "overtaken"
  <2>1. refresh[q] \in Refresh
    BY DEF TypeOK
  <2>2. refresh'[q] = IF Running(q, h) THEN [refresh[q] EXCEPT !.ghost.mark = "overtaken"]
                                       ELSE refresh[q]
    BY DEF InvalidateHost, MarkOvertaken
  <2>3. CASE Running(q, h)
    BY <2>1, <2>2, <2>3, MarkEffect
  <2>4. CASE ~Running(q, h)
    BY <2>1, <2>2, <2>4
  <2> QED
    BY <2>3, <2>4
<1> HIDE DEF h
<1> QED
  BY <1>1, <1>2, <1>3, <1>4, <1>5 DEF InvalidateEffect, h

(* LoopTick empties the cache and marks every paste and what is measured.   *)
LoopTickEffect(r) ==
  /\ \A h \in Hosts : cache'[h] = NoEntry
  /\ cleared' = epoch /\ epoch' = epoch
  /\ \A q \in Pasters :
       /\ paste'[q].host = paste[q].host /\ paste'[q].attempt = paste[q].attempt
       /\ paste'[q].route = paste[q].route /\ paste'[q].ghost = paste[q].ghost
       /\ paste[q].mark = "invalidated" \/ paste[q].host \in Hosts => paste'[q].mark = "invalidated"
  /\ pc' = [pc EXCEPT ![r] = "begin"] /\ refresh'[r].host = 1
  /\ \A q \in Procs \ {r} :
       /\ refresh'[q].host = refresh[q].host
       /\ refresh'[q].ghost.epoch = refresh[q].ghost.epoch
       /\ refresh'[q].ghost.failures = refresh[q].ghost.failures
       /\ refresh[q].ghost.mark = "overtaken" => refresh'[q].ghost.mark = "overtaken"
       /\ (\E h \in Hosts : Running(q, h)) => refresh'[q].ghost.mark = "overtaken"

\* What the debounced invalidation of the network loop changes.
LEMMA LoopTickDoes ==
  ASSUME TypeOK, LoopTick
  PROVE  \E r \in Refreshers : LoopTickEffect(r)
<1>1. PICK r \in Refreshers : StartRefreshAll(r)
  BY DEF LoopTick
<1>2. ASSUME NEW q \in Procs \ {r}
      PROVE  /\ refresh'[q].host = refresh[q].host
             /\ refresh'[q].ghost.epoch = refresh[q].ghost.epoch
             /\ refresh'[q].ghost.failures = refresh[q].ghost.failures
             /\ refresh[q].ghost.mark = "overtaken" => refresh'[q].ghost.mark = "overtaken"
             /\ (\E h \in Hosts : Running(q, h)) => refresh'[q].ghost.mark = "overtaken"
  <2> DEFINE running == \E h \in Hosts : Running(q, h)
  <2>1. refresh[q] \in Refresh
    BY DEF TypeOK
  <2>2. refresh'[q] = IF running THEN [refresh[q] EXCEPT !.ghost.mark = "overtaken"] ELSE refresh[q]
    BY <1>1 DEF StartRefreshAll
  <2> HIDE DEF running
  <2>3. CASE running
    BY <2>1, <2>2, <2>3, MarkEffect DEF running
  <2>4. CASE ~running
    BY <2>1, <2>2, <2>4 DEF running
  <2> QED
    BY <2>3, <2>4
<1>3. pc' = [pc EXCEPT ![r] = "begin"] /\ refresh'[r].host = 1
  <2>1. r \in Procs
    BY DEF Procs
  <2> QED
    BY <1>1, <2>1 DEF StartRefreshAll, Goto, NoRefresh
<1>4. ASSUME NEW q \in Pasters
      PROVE  /\ paste'[q].host = paste[q].host /\ paste'[q].attempt = paste[q].attempt
             /\ paste'[q].route = paste[q].route /\ paste'[q].ghost = paste[q].ghost
             /\ paste[q].mark = "invalidated" \/ paste[q].host \in Hosts => paste'[q].mark = "invalidated"
  <2>1. paste[q] \in Paste
    BY DEF TypeOK
  <2>2. paste'[q] = IF paste[q].host \in Hosts THEN [paste[q] EXCEPT !.mark = "invalidated"] ELSE paste[q]
    BY DEF LoopTick, MarkLookups
  <2> QED
    BY <2>1, <2>2 DEF Paste
<1>5. (\A h \in Hosts : cache'[h] = NoEntry) /\ cleared' = epoch /\ epoch' = epoch
  BY DEF LoopTick
<1> QED
  <2>1. LoopTickEffect(r)
    BY <1>2, <1>3, <1>4, <1>5 DEF LoopTickEffect
  <2> QED
    BY <2>1

-----------------------------------------------------------------------------
(* Every step keeps the machines of the goroutines. *)
LEMMA PlacedStep == TypeOK /\ Placed /\ [Next]_vars => Placed'
<1> SUFFICES ASSUME TypeOK, Placed, [Next]_vars PROVE Placed'
  OBVIOUS
<1> USE CountsAssumption, ProcsAssumption
<1>1. ASSUME NEW p \in Procs, Begin(p) PROVE Placed'
  BY <1>1 DEF Begin, Goto, network, loop, ghosts, Placed, TypeOK, HostOf, AfterStore, NoRefresh, NoPaste, Stages, Procs, Hosts
<1>2. ASSUME NEW p \in Procs, Test(p) PROVE Placed'
  <2>1. TestEffect(p)
    BY <1>2, TestDoes
  <2> QED
    BY <2>1 DEF TestEffect, Placed, TypeOK, HostOf, AfterStore, NoRefresh, NoPaste, Stages, Procs, Hosts
<1>3. ASSUME NEW p \in Procs, Store(p) PROVE Placed'
  BY <1>3 DEF Store, Goto, network, loop, ghosts, Placed, TypeOK, HostOf, AfterStore, NoRefresh, NoPaste, Stages, Procs, Hosts
<1>4. ASSUME NEW p \in Pasters, NEW h \in Hosts, StartPaste(p, h) PROVE Placed'
  BY <1>4 DEF StartPaste, Goto, network, loop, ghosts, Placed, TypeOK, HostOf, AfterStore, NoRefresh, NoPaste, Stages, Procs, Hosts
<1>5. ASSUME NEW p \in Pasters, Hit(p) PROVE Placed'
  BY <1>5 DEF Hit, Take, Goto, network, loop, ghosts, Placed, TypeOK, HostOf, AfterStore, NoRefresh, NoPaste, Stages, Procs, Hosts
<1>6. ASSUME NEW p \in Pasters, Miss(p) PROVE Placed'
  BY <1>6 DEF Miss, Goto, network, loop, ghosts, Placed, TypeOK, HostOf, AfterStore, NoRefresh, NoPaste, Stages, Procs, Hosts
<1>7. ASSUME NEW p \in Pasters, Reread(p) PROVE Placed'
  BY <1>7 DEF Reread, Take, Goto, network, loop, ghosts, Placed, TypeOK, HostOf, AfterStore, NoRefresh, NoPaste, Stages, Procs, Hosts
<1>8. ASSUME NEW p \in Pasters, Finish(p) PROVE Placed'
  <2>1. FinishEffect(p)
    BY <1>8, FinishDoes
  <2> QED
    BY <2>1 DEF FinishEffect, Placed, TypeOK, HostOf, AfterStore, NoRefresh, NoPaste, Stages, Procs, Hosts
<1>9. ASSUME NEW p \in Pasters, FirstUploadFails(p) PROVE Placed'
  BY <1>9 DEF FirstUploadFails, Goto, network, loop, ghosts, Placed, TypeOK, HostOf, AfterStore, NoRefresh, NoPaste, Stages, Procs, Hosts
<1>10. ASSUME NEW p \in Pasters, InvalidateHost(p) PROVE Placed'
  <2>1. InvalidateEffect(p)
    BY <1>10, InvalidateDoes
  <2>2. \A q \in Procs : pc'[q] = IF q = p THEN "lookup" ELSE pc[q]
    BY <2>1 DEF InvalidateEffect, TypeOK
  <2>3. /\ pc[p] = "invalidate"
        /\ \A q \in Procs : refresh'[q].host = refresh[q].host
        /\ \A q \in Pasters : paste'[q].host = paste[q].host
    BY <2>1 DEF InvalidateEffect
  <2> QED
    BY <2>2, <2>3 DEF Placed, Procs
<1>11. CASE LoopTick
  <2>1. PICK r \in Refreshers : LoopTickEffect(r)
    BY <1>11, LoopTickDoes
  <2> QED
    BY <2>1 DEF LoopTickEffect, Placed, TypeOK, HostOf, AfterStore, NoRefresh, NoPaste, Stages, Procs, Hosts
<1>12. CASE NetworkChanges \/ MonitorEnds \/ MonitorStarts \/ LoopChange \/ TimerFires \/ Tick
  BY <1>12 DEF NetworkChanges, MonitorEnds, MonitorStarts, LoopChange, TimerFires, Tick, network, loop, ghosts, Placed, TypeOK, HostOf, AfterStore, NoRefresh, NoPaste, Stages, Procs, Hosts
<1>13. CASE UNCHANGED vars
  BY <1>13 DEF vars, loop, ghosts, Placed, TypeOK, HostOf, AfterStore, NoRefresh, NoPaste, Stages, Procs, Hosts
<1> QED
  BY <1>1, <1>2, <1>3, <1>4, <1>5, <1>6, <1>7, <1>8, <1>9, <1>10, <1>11, <1>12, <1>13
     DEF Next, RefreshStep, PasteStep, Loop, UploadSucceeds, PasteFails

-----------------------------------------------------------------------------
(* Every step stores the time a measurement began. *)
LEMMA StampedStep == TypeOK /\ Placed /\ StampedEarly /\ [Next]_vars => StampedEarly'
<1> SUFFICES ASSUME TypeOK, Placed, StampedEarly, [Next]_vars PROVE StampedEarly'
  OBVIOUS
<1> USE CountsAssumption
<1>0. /\ pc \in [Procs -> Stages] /\ paste \in [Pasters -> Paste]
      /\ cache \in [Hosts -> Entry] /\ refresh \in [Procs -> Refresh]
      /\ Pasters \subseteq Procs /\ Refreshers \subseteq Procs
      /\ epoch \in Nat /\ cleared \in Nat
  BY DEF TypeOK, Procs
<1>1. ASSUME NEW p \in Procs, Begin(p) PROVE StampedEarly'
  BY <1>0, <1>1 DEF Begin, Goto, network, loop, ghosts, StampedEarly, Placed, NoEntry
<1>2. ASSUME NEW p \in Procs, Test(p) PROVE StampedEarly'
  <2>1. TestEffect(p)
    BY <1>2, TestDoes
  <2> QED
    BY <1>0, <2>1 DEF TestEffect, StampedEarly, Placed, NoEntry
<1>3. ASSUME NEW p \in Procs, Store(p) PROVE StampedEarly'
  BY <1>0, <1>3 DEF Store, Goto, network, loop, ghosts, StampedEarly, Placed, NoEntry
<1>4. ASSUME NEW p \in Pasters, NEW h \in Hosts, StartPaste(p, h) PROVE StampedEarly'
  BY <1>0, <1>4 DEF StartPaste, Goto, network, loop, ghosts, StampedEarly, Placed, NoEntry
<1>5. ASSUME NEW p \in Pasters, Hit(p) PROVE StampedEarly'
  BY <1>0, <1>5 DEF Hit, Take, Goto, network, loop, ghosts, StampedEarly, Placed, NoEntry
<1>6. ASSUME NEW p \in Pasters, Miss(p) PROVE StampedEarly'
  BY <1>0, <1>6 DEF Miss, Goto, network, loop, ghosts, StampedEarly, Placed, NoEntry
<1>7. ASSUME NEW p \in Pasters, Reread(p) PROVE StampedEarly'
  BY <1>0, <1>7 DEF Reread, Take, Goto, network, loop, ghosts, StampedEarly, Placed, NoEntry
<1>8. ASSUME NEW p \in Pasters, Finish(p) PROVE StampedEarly'
  <2>1. FinishEffect(p)
    BY <1>8, FinishDoes
  <2> QED
    BY <1>0, <2>1 DEF FinishEffect, StampedEarly, Placed, NoEntry
<1>9. ASSUME NEW p \in Pasters, FirstUploadFails(p) PROVE StampedEarly'
  BY <1>0, <1>9 DEF FirstUploadFails, Goto, network, loop, ghosts, StampedEarly, Placed, NoEntry
<1>10. ASSUME NEW p \in Pasters, InvalidateHost(p) PROVE StampedEarly'
  <2>1. InvalidateEffect(p)
    BY <1>10, InvalidateDoes
  <2> QED
    BY <1>0, <2>1 DEF InvalidateEffect, StampedEarly, Placed, NoEntry
<1>11. CASE LoopTick
  <2>1. PICK r \in Refreshers : LoopTickEffect(r)
    BY <1>11, LoopTickDoes
  <2> QED
    BY <1>0, <2>1 DEF LoopTickEffect, StampedEarly, Placed, NoEntry
<1>12. CASE NetworkChanges \/ MonitorEnds \/ MonitorStarts \/ LoopChange \/ TimerFires \/ Tick
  BY <1>0, <1>12 DEF NetworkChanges, MonitorEnds, MonitorStarts, LoopChange, TimerFires, Tick, network, loop, ghosts, StampedEarly, Placed, NoEntry
<1>13. CASE UNCHANGED vars
  BY <1>0, <1>13 DEF vars, loop, ghosts, StampedEarly, Placed, NoEntry
<1> QED
  BY <1>1, <1>2, <1>3, <1>4, <1>5, <1>6, <1>7, <1>8, <1>9, <1>10, <1>11, <1>12, <1>13
     DEF Next, RefreshStep, PasteStep, Loop, UploadSucceeds, PasteFails

-----------------------------------------------------------------------------
(* What is stored or runs is newer than the last InvalidateAll or marked. *)
LEMMA MarkedStep == TypeOK /\ Placed /\ RunningMarked /\ StaleOnlyIfOvertaken /\ [Next]_vars => (RunningMarked /\ StaleOnlyIfOvertaken)'
<1> SUFFICES ASSUME TypeOK, Placed, RunningMarked, StaleOnlyIfOvertaken, [Next]_vars PROVE (RunningMarked /\ StaleOnlyIfOvertaken)'
  OBVIOUS
<1> USE CountsAssumption
<1>0. /\ pc \in [Procs -> Stages] /\ paste \in [Pasters -> Paste]
      /\ cache \in [Hosts -> Entry] /\ refresh \in [Procs -> Refresh]
      /\ Pasters \subseteq Procs /\ Refreshers \subseteq Procs
      /\ epoch \in Nat /\ cleared \in Nat
  BY DEF TypeOK, Procs
<1>1. ASSUME NEW p \in Procs, Begin(p) PROVE (RunningMarked /\ StaleOnlyIfOvertaken)'
  BY <1>0, <1>1 DEF Begin, Goto, network, loop, ghosts, Placed, RunningMarked, StaleOnlyIfOvertaken, Cached, Running, AfterStore, ToStore, NoEntry
<1>2. ASSUME NEW p \in Procs, Test(p) PROVE (RunningMarked /\ StaleOnlyIfOvertaken)'
  <2>1. TestEffect(p)
    BY <1>2, TestDoes
  <2>2. RunningMarked'
    BY <1>0, <2>1 DEF TestEffect, Placed, RunningMarked, StaleOnlyIfOvertaken, Cached, Running, AfterStore, ToStore, NoEntry
  <2>3. StaleOnlyIfOvertaken'
    BY <1>0, <2>1 DEF TestEffect, Placed, RunningMarked, StaleOnlyIfOvertaken, Cached, Running, AfterStore, ToStore, NoEntry
  <2> QED
    BY <2>2, <2>3
<1>3. ASSUME NEW p \in Procs, Store(p) PROVE (RunningMarked /\ StaleOnlyIfOvertaken)'
  <2>2. RunningMarked'
    BY <1>0, <1>3 DEF Store, Goto, network, loop, ghosts, Placed, RunningMarked, StaleOnlyIfOvertaken, Cached, Running, AfterStore, ToStore, NoEntry
  <2>3. StaleOnlyIfOvertaken'
    BY <1>0, <1>3 DEF Store, Goto, network, loop, ghosts, Placed, RunningMarked, StaleOnlyIfOvertaken, Cached, Running, AfterStore, ToStore, NoEntry
  <2> QED
    BY <2>2, <2>3
<1>4. ASSUME NEW p \in Pasters, NEW h \in Hosts, StartPaste(p, h) PROVE (RunningMarked /\ StaleOnlyIfOvertaken)'
  BY <1>0, <1>4 DEF StartPaste, Goto, network, loop, ghosts, Placed, RunningMarked, StaleOnlyIfOvertaken, Cached, Running, AfterStore, ToStore, NoEntry
<1>5. ASSUME NEW p \in Pasters, Hit(p) PROVE (RunningMarked /\ StaleOnlyIfOvertaken)'
  BY <1>0, <1>5 DEF Hit, Take, Goto, network, loop, ghosts, Placed, RunningMarked, StaleOnlyIfOvertaken, Cached, Running, AfterStore, ToStore, NoEntry
<1>6. ASSUME NEW p \in Pasters, Miss(p) PROVE (RunningMarked /\ StaleOnlyIfOvertaken)'
  BY <1>0, <1>6 DEF Miss, Goto, network, loop, ghosts, Placed, RunningMarked, StaleOnlyIfOvertaken, Cached, Running, AfterStore, ToStore, NoEntry
<1>7. ASSUME NEW p \in Pasters, Reread(p) PROVE (RunningMarked /\ StaleOnlyIfOvertaken)'
  BY <1>0, <1>7 DEF Reread, Take, Goto, network, loop, ghosts, Placed, RunningMarked, StaleOnlyIfOvertaken, Cached, Running, AfterStore, ToStore, NoEntry
<1>8. ASSUME NEW p \in Pasters, Finish(p) PROVE (RunningMarked /\ StaleOnlyIfOvertaken)'
  <2>1. FinishEffect(p)
    BY <1>8, FinishDoes
  <2>2. RunningMarked'
    BY <1>0, <2>1 DEF FinishEffect, Placed, RunningMarked, StaleOnlyIfOvertaken, Cached, Running, AfterStore, ToStore, NoEntry
  <2>3. StaleOnlyIfOvertaken'
    BY <1>0, <2>1 DEF FinishEffect, Placed, RunningMarked, StaleOnlyIfOvertaken, Cached, Running, AfterStore, ToStore, NoEntry
  <2> QED
    BY <2>2, <2>3
<1>9. ASSUME NEW p \in Pasters, FirstUploadFails(p) PROVE (RunningMarked /\ StaleOnlyIfOvertaken)'
  BY <1>0, <1>9 DEF FirstUploadFails, Goto, network, loop, ghosts, Placed, RunningMarked, StaleOnlyIfOvertaken, Cached, Running, AfterStore, ToStore, NoEntry
<1>10. ASSUME NEW p \in Pasters, InvalidateHost(p) PROVE (RunningMarked /\ StaleOnlyIfOvertaken)'
  <2>1. InvalidateEffect(p)
    BY <1>10, InvalidateDoes
  <2>2. RunningMarked'
    BY <1>0, <2>1 DEF InvalidateEffect, Placed, RunningMarked, StaleOnlyIfOvertaken, Cached, Running, AfterStore, ToStore, NoEntry
  <2>3. StaleOnlyIfOvertaken'
    BY <1>0, <2>1 DEF InvalidateEffect, Placed, RunningMarked, StaleOnlyIfOvertaken, Cached, Running, AfterStore, ToStore, NoEntry
  <2> QED
    BY <2>2, <2>3
<1>11. CASE LoopTick
  <2>1. PICK r \in Refreshers : LoopTickEffect(r)
    BY <1>11, LoopTickDoes
  <2>2. RunningMarked'
    BY <1>0, <2>1 DEF LoopTickEffect, Placed, RunningMarked, StaleOnlyIfOvertaken, Cached, Running, AfterStore, ToStore, NoEntry
  <2>3. StaleOnlyIfOvertaken'
    BY <1>0, <2>1 DEF LoopTickEffect, Placed, RunningMarked, StaleOnlyIfOvertaken, Cached, Running, AfterStore, ToStore, NoEntry
  <2> QED
    BY <2>2, <2>3
<1>12. CASE NetworkChanges \/ MonitorEnds \/ MonitorStarts \/ LoopChange \/ TimerFires \/ Tick
  <2>2. RunningMarked'
    BY <1>0, <1>12 DEF NetworkChanges, MonitorEnds, MonitorStarts, LoopChange, TimerFires, Tick, network, loop, ghosts, Placed, RunningMarked, StaleOnlyIfOvertaken, Cached, Running, AfterStore, ToStore, NoEntry
  <2>3. StaleOnlyIfOvertaken'
    BY <1>0, <1>12 DEF NetworkChanges, MonitorEnds, MonitorStarts, LoopChange, TimerFires, Tick, network, loop, ghosts, Placed, RunningMarked, StaleOnlyIfOvertaken, Cached, Running, AfterStore, ToStore, NoEntry
  <2> QED
    BY <2>2, <2>3
<1>13. CASE UNCHANGED vars
  BY <1>0, <1>13 DEF vars, loop, ghosts, Placed, RunningMarked, StaleOnlyIfOvertaken, Cached, Running, AfterStore, ToStore, NoEntry
<1> QED
  BY <1>1, <1>2, <1>3, <1>4, <1>5, <1>6, <1>7, <1>8, <1>9, <1>10, <1>11, <1>12, <1>13
     DEF Next, RefreshStep, PasteStep, Loop, UploadSucceeds, PasteFails

-----------------------------------------------------------------------------
TakeEffect(p) ==
  /\ pc[p] \in {"lookup", "reread"} /\ paste[p].host \in Hosts
  /\ pc'[p] = "upload" /\ UNCHANGED <<cache, refresh>>
  /\ paste'[p].host = paste[p].host /\ paste'[p].attempt = paste[p].attempt
  /\ paste'[p].mark = paste[p].mark
  /\ paste'[p].route = cache[paste[p].host].route
  /\ paste'[p].ghost = cache[paste[p].host].ghost
  /\ pc[p] = "lookup" => Cached(paste[p].host)
  /\ \A q \in Pasters \ {p} : paste'[q] = paste[q] /\ pc'[q] = pc[q]
  /\ \A q \in Procs, h \in Hosts : Running(q, h)' => Running(q, h)

\* What taking a route from the cache changes.
LEMMA TakeDoes ==
  ASSUME TypeOK, Placed, NEW p \in Pasters, Hit(p) \/ Reread(p)
  PROVE  TakeEffect(p)
<1>0. /\ pc \in [Procs -> Stages] /\ paste \in [Pasters -> Paste] /\ Pasters \subseteq Procs
  BY DEF TypeOK, Procs
<1>1. /\ pc[p] \in {"lookup", "reread"} /\ paste[p].host \in Hosts
      /\ pc[p] = "lookup" => Cached(paste[p].host)
  BY <1>0 DEF Hit, Reread, Placed
<1>2. /\ pc' = [pc EXCEPT ![p] = "upload"] /\ UNCHANGED <<cache, refresh>>
      /\ paste' = [paste EXCEPT ![p].route = cache[paste[p].host].route,
                                ![p].ghost = cache[paste[p].host].ghost]
  BY DEF Hit, Reread, Take, Goto
<1>3. /\ paste'[p].host = paste[p].host /\ paste'[p].attempt = paste[p].attempt
      /\ paste'[p].mark = paste[p].mark
      /\ paste'[p].route = cache[paste[p].host].route
      /\ paste'[p].ghost = cache[paste[p].host].ghost
  BY <1>0, <1>2 DEF Paste
<1>4. /\ \A q \in Pasters \ {p} : paste'[q] = paste[q] /\ pc'[q] = pc[q]
      /\ pc'[p] = "upload"
  BY <1>0, <1>2
<1>5. \A q \in Procs, h \in Hosts : Running(q, h)' => Running(q, h)
  BY <1>0, <1>2 DEF Running
<1> QED
  BY <1>1, <1>2, <1>3, <1>4, <1>5 DEF TakeEffect

(* A paste that measured finds a route unless its machine was invalidated. *)
LEMMA RereadStep == TypeOK /\ Placed /\ RereadFinds /\ EmptyMeansInvalidated /\ [Next]_vars => (RereadFinds /\ EmptyMeansInvalidated)'
<1> SUFFICES ASSUME TypeOK, Placed, RereadFinds, EmptyMeansInvalidated, [Next]_vars PROVE (RereadFinds /\ EmptyMeansInvalidated)'
  OBVIOUS
<1> USE CountsAssumption
<1>0. /\ pc \in [Procs -> Stages] /\ paste \in [Pasters -> Paste]
      /\ cache \in [Hosts -> Entry] /\ refresh \in [Procs -> Refresh]
      /\ Pasters \subseteq Procs /\ Refreshers \subseteq Procs
      /\ epoch \in Nat /\ cleared \in Nat
  BY DEF TypeOK, Procs
<1>1. ASSUME NEW p \in Procs, Begin(p) PROVE (RereadFinds /\ EmptyMeansInvalidated)'
  BY <1>0, <1>1 DEF Begin, Goto, network, loop, ghosts, Placed, RereadFinds, EmptyMeansInvalidated, Cached, Running, AfterStore, ToStore, NoEntry, NoPaste
<1>2. ASSUME NEW p \in Procs, Test(p) PROVE (RereadFinds /\ EmptyMeansInvalidated)'
  <2>1. TestEffect(p)
    BY <1>2, TestDoes
  <2>2. RereadFinds'
    BY <1>0, <2>1 DEF TestEffect, Placed, RereadFinds, EmptyMeansInvalidated, Cached, Running, AfterStore, ToStore, NoEntry, NoPaste
  <2>3. EmptyMeansInvalidated'
    BY <1>0, <2>1 DEF TestEffect, Placed, RereadFinds, EmptyMeansInvalidated, Cached, Running, AfterStore, ToStore, NoEntry, NoPaste
  <2> QED
    BY <2>2, <2>3
<1>3. ASSUME NEW p \in Procs, Store(p) PROVE (RereadFinds /\ EmptyMeansInvalidated)'
  <2> DEFINE m == refresh[p]
  <2>1. m \in Refresh /\ m.host \in Hosts /\ (p \in Pasters => m.host = paste[p].host)
    BY <1>0, <1>3 DEF Store, Placed
  <2>4. \A r \in ToStore(m) : r # NoRoute
    BY <2>1, OrderAssumption DEF ToStore, Refresh, Routes, Index, NoRoute, None
  <2>5. PICK r \in ToStore(m) :
          cache' = [cache EXCEPT ![m.host] = [route |-> r, checkedAt |-> m.began,
                                              began |-> m.began, ghost |-> m.ghost]]
    BY <1>3 DEF Store
  <2>6. /\ cache'[m.host].route # NoRoute
        /\ \A h \in Hosts : Cached(h) => cache'[h].route # NoRoute
    BY <1>0, <2>1, <2>4, <2>5 DEF Cached
  <2>7. paste' = paste /\ \A q \in Procs \ {p} : pc'[q] = pc[q]
    BY <1>0, <1>3 DEF Store, Goto
  <2> HIDE DEF m
  <2>2. RereadFinds'
    <3> SUFFICES ASSUME NEW q \in Pasters, pc'[q] = "reread"
                 PROVE  paste[q].mark = "invalidated" \/ cache'[paste[q].host].route # NoRoute
      BY <2>7 DEF RereadFinds, Cached
    <3>1. CASE q = p
      BY <2>1, <2>6, <3>1
    <3>2. CASE q # p
      BY <1>0, <2>6, <2>7, <3>2 DEF RereadFinds, Placed
    <3> QED
      BY <3>1, <3>2
  <2>3. EmptyMeansInvalidated'
    BY <1>0, <1>3 DEF Store, Goto, network, loop, ghosts, Placed, RereadFinds, EmptyMeansInvalidated, Cached, Running, AfterStore, ToStore, NoEntry, NoPaste
  <2> QED
    BY <2>2, <2>3
<1>4. ASSUME NEW p \in Pasters, NEW h \in Hosts, StartPaste(p, h) PROVE (RereadFinds /\ EmptyMeansInvalidated)'
  BY <1>0, <1>4 DEF StartPaste, Goto, network, loop, ghosts, Placed, RereadFinds, EmptyMeansInvalidated, Cached, Running, AfterStore, ToStore, NoEntry, NoPaste
<1>5. ASSUME NEW p \in Pasters, Hit(p) PROVE (RereadFinds /\ EmptyMeansInvalidated)'
  <2>1. TakeEffect(p)
    BY <1>5, TakeDoes
  <2>2. RereadFinds'
    BY <2>1 DEF TakeEffect, RereadFinds, Cached
  <2>3. EmptyMeansInvalidated'
    BY <2>1 DEF TakeEffect, RereadFinds, EmptyMeansInvalidated, Cached
  <2> QED
    BY <2>2, <2>3
<1>6. ASSUME NEW p \in Pasters, Miss(p) PROVE (RereadFinds /\ EmptyMeansInvalidated)'
  BY <1>0, <1>6 DEF Miss, Goto, network, loop, ghosts, Placed, RereadFinds, EmptyMeansInvalidated, Cached, Running, AfterStore, ToStore, NoEntry, NoPaste
<1>7. ASSUME NEW p \in Pasters, Reread(p) PROVE (RereadFinds /\ EmptyMeansInvalidated)'
  <2>1. TakeEffect(p)
    BY <1>7, TakeDoes
  <2>2. RereadFinds'
    BY <2>1 DEF TakeEffect, RereadFinds, Cached
  <2>3. EmptyMeansInvalidated'
    BY <2>1 DEF TakeEffect, RereadFinds, EmptyMeansInvalidated, Cached
  <2> QED
    BY <2>2, <2>3
<1>8. ASSUME NEW p \in Pasters, Finish(p) PROVE (RereadFinds /\ EmptyMeansInvalidated)'
  <2>1. FinishEffect(p)
    BY <1>8, FinishDoes
  <2>2. RereadFinds'
    BY <1>0, <2>1 DEF FinishEffect, Placed, RereadFinds, EmptyMeansInvalidated, Cached, Running, AfterStore, ToStore, NoEntry, NoPaste
  <2>3. EmptyMeansInvalidated'
    BY <1>0, <2>1 DEF FinishEffect, Placed, RereadFinds, EmptyMeansInvalidated, Cached, Running, AfterStore, ToStore, NoEntry, NoPaste
  <2> QED
    BY <2>2, <2>3
<1>9. ASSUME NEW p \in Pasters, FirstUploadFails(p) PROVE (RereadFinds /\ EmptyMeansInvalidated)'
  BY <1>0, <1>9 DEF FirstUploadFails, Goto, network, loop, ghosts, Placed, RereadFinds, EmptyMeansInvalidated, Cached, Running, AfterStore, ToStore, NoEntry, NoPaste
<1>10. ASSUME NEW p \in Pasters, InvalidateHost(p) PROVE (RereadFinds /\ EmptyMeansInvalidated)'
  <2>1. InvalidateEffect(p)
    BY <1>10, InvalidateDoes
  <2>2. RereadFinds'
    BY <1>0, <2>1 DEF InvalidateEffect, Placed, RereadFinds, EmptyMeansInvalidated, Cached, Running, AfterStore, ToStore, NoEntry, NoPaste
  <2>3. EmptyMeansInvalidated'
    BY <1>0, <2>1 DEF InvalidateEffect, Placed, RereadFinds, EmptyMeansInvalidated, Cached, Running, AfterStore, ToStore, NoEntry, NoPaste
  <2> QED
    BY <2>2, <2>3
<1>11. CASE LoopTick
  <2>1. PICK r \in Refreshers : LoopTickEffect(r)
    BY <1>11, LoopTickDoes
  <2>2. RereadFinds'
    BY <1>0, <2>1 DEF LoopTickEffect, Placed, RereadFinds, EmptyMeansInvalidated, Cached, Running, AfterStore, ToStore, NoEntry, NoPaste
  <2>3. EmptyMeansInvalidated'
    BY <1>0, <2>1 DEF LoopTickEffect, Placed, RereadFinds, EmptyMeansInvalidated, Cached, Running, AfterStore, ToStore, NoEntry, NoPaste
  <2> QED
    BY <2>2, <2>3
<1>12. CASE NetworkChanges \/ MonitorEnds \/ MonitorStarts \/ LoopChange \/ TimerFires \/ Tick
  <2>2. RereadFinds'
    BY <1>0, <1>12 DEF NetworkChanges, MonitorEnds, MonitorStarts, LoopChange, TimerFires, Tick, network, loop, ghosts, Placed, RereadFinds, EmptyMeansInvalidated, Cached, Running, AfterStore, ToStore, NoEntry, NoPaste
  <2>3. EmptyMeansInvalidated'
    BY <1>0, <1>12 DEF NetworkChanges, MonitorEnds, MonitorStarts, LoopChange, TimerFires, Tick, network, loop, ghosts, Placed, RereadFinds, EmptyMeansInvalidated, Cached, Running, AfterStore, ToStore, NoEntry, NoPaste
  <2> QED
    BY <2>2, <2>3
<1>13. CASE UNCHANGED vars
  BY <1>0, <1>13 DEF vars, loop, ghosts, Placed, RereadFinds, EmptyMeansInvalidated, Cached, Running, AfterStore, ToStore, NoEntry, NoPaste
<1> QED
  BY <1>1, <1>2, <1>3, <1>4, <1>5, <1>6, <1>7, <1>8, <1>9, <1>10, <1>11, <1>12, <1>13
     DEF Next, RefreshStep, PasteStep, Loop, UploadSucceeds, PasteFails

-----------------------------------------------------------------------------
(* What a retry finds began after its failure or is marked. *)
LEMMA RetryStep == TypeOK /\ Placed /\ RetryFinds /\ [Next]_vars => RetryFinds'
<1> SUFFICES ASSUME TypeOK, Placed, RetryFinds, [Next]_vars PROVE RetryFinds'
  OBVIOUS
<1> USE CountsAssumption
<1>0. /\ pc \in [Procs -> Stages] /\ paste \in [Pasters -> Paste]
      /\ cache \in [Hosts -> Entry] /\ refresh \in [Procs -> Refresh]
      /\ Pasters \subseteq Procs /\ Refreshers \subseteq Procs
      /\ epoch \in Nat /\ cleared \in Nat
  BY DEF TypeOK, Procs
<1>1. ASSUME NEW p \in Procs, Begin(p) PROVE RetryFinds'
  BY <1>0, <1>1 DEF Begin, Goto, network, loop, ghosts, Placed, RetryFinds, FreshFor, Cached, Running, AfterStore, ToStore, NoEntry, NoPaste
<1>2. ASSUME NEW p \in Procs, Test(p) PROVE RetryFinds'
  <2>1. TestEffect(p)
    BY <1>2, TestDoes
  <2> QED
    BY <1>0, <2>1 DEF TestEffect, Placed, RetryFinds, FreshFor, Cached, Running, AfterStore, ToStore, NoEntry, NoPaste
<1>3. ASSUME NEW p \in Procs, Store(p) PROVE RetryFinds'
  BY <1>0, <1>3 DEF Store, Goto, network, loop, ghosts, Placed, RetryFinds, FreshFor, Cached, Running, AfterStore, ToStore, NoEntry, NoPaste
<1>4. ASSUME NEW p \in Pasters, NEW h \in Hosts, StartPaste(p, h) PROVE RetryFinds'
  BY <1>0, <1>4 DEF StartPaste, Goto, network, loop, ghosts, Placed, RetryFinds, FreshFor, Cached, Running, AfterStore, ToStore, NoEntry, NoPaste
<1>5. ASSUME NEW p \in Pasters, Hit(p) PROVE RetryFinds'
  <2>1. TakeEffect(p)
    BY <1>5, TakeDoes
  <2> SUFFICES ASSUME NEW q \in Pasters, paste'[q].attempt = 2, pc'[q] \notin {"idle", "invalidate"}
               PROVE  /\ Cached(paste[q].host) => FreshFor(q, cache[paste[q].host].ghost)
                      /\ \A r \in Procs : Running(r, paste[q].host)' => FreshFor(q, refresh[r].ghost)
                      /\ pc'[q] = "upload" /\ paste'[q].route # NoRoute => FreshFor(q, paste'[q].ghost)
    BY <2>1 DEF TakeEffect, RetryFinds, Cached, Running, FreshFor
  <2>2. CASE q = p
    BY <2>1, <2>2 DEF TakeEffect, RetryFinds, Cached
  <2>3. CASE q # p
    BY <1>0, <2>1, <2>3 DEF TakeEffect, RetryFinds, Placed, Running
  <2> QED
    BY <2>2, <2>3
<1>6. ASSUME NEW p \in Pasters, Miss(p) PROVE RetryFinds'
  BY <1>0, <1>6 DEF Miss, Goto, network, loop, ghosts, Placed, RetryFinds, FreshFor, Cached, Running, AfterStore, ToStore, NoEntry, NoPaste
<1>7. ASSUME NEW p \in Pasters, Reread(p) PROVE RetryFinds'
  <2>1. TakeEffect(p)
    BY <1>7, TakeDoes
  <2> SUFFICES ASSUME NEW q \in Pasters, paste'[q].attempt = 2, pc'[q] \notin {"idle", "invalidate"}
               PROVE  /\ Cached(paste[q].host) => FreshFor(q, cache[paste[q].host].ghost)
                      /\ \A r \in Procs : Running(r, paste[q].host)' => FreshFor(q, refresh[r].ghost)
                      /\ pc'[q] = "upload" /\ paste'[q].route # NoRoute => FreshFor(q, paste'[q].ghost)
    BY <2>1 DEF TakeEffect, RetryFinds, Cached, Running, FreshFor
  <2>2. CASE q = p
    BY <2>1, <2>2 DEF TakeEffect, RetryFinds, Cached
  <2>3. CASE q # p
    BY <1>0, <2>1, <2>3 DEF TakeEffect, RetryFinds, Placed, Running
  <2> QED
    BY <2>2, <2>3
<1>8. ASSUME NEW p \in Pasters, Finish(p) PROVE RetryFinds'
  <2>1. FinishEffect(p)
    BY <1>8, FinishDoes
  <2> QED
    BY <1>0, <2>1 DEF FinishEffect, Placed, RetryFinds, FreshFor, Cached, Running, AfterStore, ToStore, NoEntry, NoPaste
<1>9. ASSUME NEW p \in Pasters, FirstUploadFails(p) PROVE RetryFinds'
  BY <1>0, <1>9 DEF FirstUploadFails, Goto, network, loop, ghosts, Placed, RetryFinds, FreshFor, Cached, Running, AfterStore, ToStore, NoEntry, NoPaste
<1>10. ASSUME NEW p \in Pasters, InvalidateHost(p) PROVE RetryFinds'
  <2>1. InvalidateEffect(p)
    BY <1>10, InvalidateDoes
  <2> QED
    BY <1>0, <2>1, SMTT(30) DEF InvalidateEffect, Placed, RetryFinds, FreshFor, Cached, Running, AfterStore, ToStore, NoEntry, NoPaste
<1>11. CASE LoopTick
  <2>1. PICK r \in Refreshers : LoopTickEffect(r)
    BY <1>11, LoopTickDoes
  <2> QED
    BY <1>0, <2>1, ProcsAssumption DEF LoopTickEffect, Placed, RetryFinds, FreshFor, Cached, Running, AfterStore, ToStore, NoEntry, NoPaste
<1>12. CASE NetworkChanges \/ MonitorEnds \/ MonitorStarts \/ LoopChange \/ TimerFires \/ Tick
  BY <1>0, <1>12 DEF NetworkChanges, MonitorEnds, MonitorStarts, LoopChange, TimerFires, Tick, network, loop, ghosts, Placed, RetryFinds, FreshFor, Cached, Running, AfterStore, ToStore, NoEntry, NoPaste
<1>13. CASE UNCHANGED vars
  BY <1>0, <1>13 DEF vars, loop, ghosts, Placed, RetryFinds, FreshFor, Cached, Running, AfterStore, ToStore, NoEntry, NoPaste
<1> QED
  BY <1>1, <1>2, <1>3, <1>4, <1>5, <1>6, <1>7, <1>8, <1>9, <1>10, <1>11, <1>12, <1>13
     DEF Next, RefreshStep, PasteStep, Loop, UploadSucceeds, PasteFails

-----------------------------------------------------------------------------
(* What the cache promises, for any machines, routes, pasters and networks. *)

\* The invariant of the cache and of everything that uses it.
THEOREM CacheInvariant == Spec => []CacheInv
<1>1. CacheInv /\ [Next]_vars => CacheInv'
  BY TypeStep, PlacedStep, StampedStep, MarkedStep, RereadStep, RetryStep DEF CacheInv
<1> QED
  BY <1>1, CacheInvInit, PTL DEF Spec

\* Every variable keeps its type.
THEOREM TypeCorrect == Spec => []TypeOK
<1>1. CacheInv => TypeOK
  BY DEF CacheInv
<1> QED
  BY <1>1, CacheInvariant, PTL

\* A retry uses a route that was measured after the failure, or by a
\* measurement that ran when the cache was emptied.
THEOREM RetryFreshAlways == Spec => []RetryFreshUnlessOvertaken
<1>1. CacheInv => RetryFreshUnlessOvertaken
  BY DEF CacheInv, RetryFinds, RetryFreshUnlessOvertaken, MayRetry, FreshFor
<1> QED
  BY <1>1, CacheInvariant, PTL

\* Only an invalidation during its lookup leaves a paste without a route.
THEOREM EmptyMeansInvalidatedAlways == Spec => []EmptyMeansInvalidated
<1>1. CacheInv => EmptyMeansInvalidated
  BY DEF CacheInv
<1> QED
  BY <1>1, CacheInvariant, PTL

\* What was measured before the cache was emptied for a network change is not
\* in the cache afterwards, unless it was still being measured then.
THEOREM StaleOnlyIfOvertakenAlways == Spec => []StaleOnlyIfOvertaken
<1>1. CacheInv => StaleOnlyIfOvertaken
  BY DEF CacheInv
<1> QED
  BY <1>1, CacheInvariant, PTL

\* A cached route is used only while it is younger than the TTL, counted from
\* the start of its measurement.
THEOREM HitNotExpiredAlways == Spec => HitNotExpired
<1>1. CacheInv /\ [Next]_vars =>
        [\A p \in Pasters : pc[p] = "lookup" /\ pc'[p] = "upload" =>
           clock - cache[paste[p].host].began < TTL]_vars
  <2> SUFFICES ASSUME CacheInv, [Next]_vars, NEW p \in Pasters,
                      pc[p] = "lookup", pc'[p] = "upload"
               PROVE  clock - cache[paste[p].host].began < TTL
    OBVIOUS
  <2>0. /\ pc \in [Procs -> Stages] /\ Pasters \subseteq Procs /\ Refreshers \subseteq Procs
        /\ paste[p].host \in Hosts
    BY DEF CacheInv, TypeOK, Procs, Placed
  <2>1. Hit(p)
    <3>1. ~UNCHANGED vars
      BY DEF vars
    <3>2. ASSUME NEW q \in Procs, RefreshStep(q) PROVE Hit(p)
      BY <2>0, <3>2 DEF RefreshStep, Begin, Test, Store, AfterStore, Goto
    <3>3. ASSUME NEW q \in Pasters, PasteStep(q) PROVE Hit(p)
      BY <2>0, <3>3 DEF PasteStep, StartPaste, Hit, Miss, Reread, Take, UploadSucceeds,
           FirstUploadFails, PasteFails, InvalidateHost, Finish, Goto
    <3>4. CASE NetworkChanges \/ MonitorEnds \/ MonitorStarts \/ LoopChange \/ TimerFires \/ Tick
      BY <3>4 DEF NetworkChanges, MonitorEnds, MonitorStarts, LoopChange, TimerFires, Tick
    <3>5. CASE LoopTick
      BY <2>0, <3>5 DEF LoopTick, StartRefreshAll, Goto
    <3> QED
      BY <3>1, <3>2, <3>3, <3>4, <3>5 DEF Next, Loop
  <2>2. clock - cache[paste[p].host].checkedAt < TTL
    BY <2>1 DEF Hit
  <2> QED
    BY <2>0, <2>2 DEF CacheInv, StampedEarly
<1> QED
  BY <1>1, CacheInvariant, PTL DEF Spec, HitNotExpired

=============================================================================
