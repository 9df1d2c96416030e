--------------------------- MODULE RouteChoiceProofs ---------------------------
(***************************************************************************)
(* Proofs about RouteChoice for any number of routes, any latencies and    *)
(* any tie window.                                                         *)
(***************************************************************************)
EXTENDS RouteChoice, FiniteSetTheorems, TLAPS

\* The measurement's variables keep their types.
THEOREM TypeCorrect == ChoiceSpec => []ChoiceTypeOK
<1> USE RoutesAssumption, OrderAssumption DEF Index, None
<1>1. ChoiceInit => ChoiceTypeOK
  BY DEF ChoiceInit, ChoiceTypeOK, SortedOrders
<1>2. ChoiceTypeOK /\ [ChoiceNext]_choiceVars => ChoiceTypeOK'
  <2> SUFFICES ASSUME ChoiceTypeOK, [ChoiceNext]_choiceVars PROVE ChoiceTypeOK'
    OBVIOUS
  <2>1. CASE Test
    <3>1. i \in Index /\ order[i] \in Index
      BY <2>1 DEF Test, ChoiceTypeOK
    <3>2. latency[order[i]] # Lost => latency[order[i]] \in Nat
      BY <3>1 DEF ChoiceTypeOK
    <3>3. best' \in Index \cup {None} /\ bestLatency' \in Nat
      BY <2>1, <3>1, <3>2 DEF Test, ChoiceTypeOK
    <3>4. QED
      BY <2>1, <3>1, <3>3, SMTT(30) DEF Test, ChoiceTypeOK, inputs
  <2>2. CASE TakeBest
    BY <2>2 DEF TakeBest, ChoiceTypeOK, inputs
  <2>3. CASE StartProbing
    BY <2>3 DEF StartProbing, ChoiceTypeOK, inputs
  <2>4. CASE Probe
    <3>1. i \in Index /\ order[i] \in Index
      BY <2>4 DEF Probe, ChoiceTypeOK
    <3>2. CASE reachable[order[i]]
      <4>1. chosen' = order[i] /\ stage' = "done" /\ i' = i
        BY <2>4, <3>2 DEF Probe
      <4>2. QED
        BY <2>4, <3>1, <4>1 DEF Probe, ChoiceTypeOK, inputs
    <3>3. CASE ~reachable[order[i]]
      <4>1. chosen' = chosen /\ stage' = stage /\ i' = i + 1
        BY <2>4, <3>3 DEF Probe
      <4>2. QED
        BY <2>4, <3>1, <4>1 DEF Probe, ChoiceTypeOK, inputs
    <3>4. QED
      BY <3>2, <3>3
  <2>5. CASE TakeFirst
    BY <2>5, SMTT(30) DEF TakeFirst, ChoiceTypeOK, inputs
  <2>6. CASE UNCHANGED choiceVars
    BY <2>6 DEF choiceVars, ChoiceTypeOK
  <2>7. QED
    BY <2>1, <2>2, <2>3, <2>4, <2>5, <2>6 DEF ChoiceNext
<1>3. QED
  BY <1>1, <1>2, PTL DEF ChoiceSpec

\* A sorted order of the routes lists all of them: no two positions hold the
\* same route, so none is left out.
LEMMA SortedOrderComplete ==
  ASSUME NEW p \in [Index -> Priorities], NEW o \in SortedOrders(p), NEW r \in Index
  PROVE  \E a \in Index : o[a] = r
<1> SUFFICES ASSUME \A a \in Index : o[a] # r PROVE FALSE
  OBVIOUS
<1>1. IsFiniteSet(Index) /\ Cardinality(Index) = N
  BY RoutesAssumption, OrderAssumption, FS_Interval DEF Index
<1>2. IsFiniteSet(Index \ {r}) /\ Cardinality(Index \ {r}) = N - 1
  BY <1>1, FS_RemoveElement
<1>3. o \in [Index -> Index \ {r}]
  BY DEF SortedOrders
<1>4. PICK a, b \in Index : a # b /\ o[a] = o[b]
  BY <1>1, <1>2, <1>3, FS_PigeonHole, RoutesAssumption, OrderAssumption
<1>5. a < b \/ b < a
  BY <1>4, RoutesAssumption, OrderAssumption DEF Index
<1>6. o[a] \in Index /\ o[b] \in Index /\ p[o[a]] \in Int /\ p[o[b]] \in Int
  BY RoutesAssumption, OrderAssumption DEF SortedOrders
<1>7. CASE a < b
  <2>1. p[o[a]] < p[o[b]] \/ (p[o[a]] = p[o[b]] /\ o[a] < o[b])
    BY <1>7 DEF SortedOrders
  <2>2. QED
    BY <1>4, <1>6, <2>1, RoutesAssumption, OrderAssumption DEF Index
<1>8. CASE b < a
  <2>1. p[o[b]] < p[o[a]] \/ (p[o[b]] = p[o[a]] /\ o[b] < o[a])
    BY <1>8 DEF SortedOrders
  <2>2. QED
    BY <1>4, <1>6, <2>1, RoutesAssumption, OrderAssumption DEF Index
<1>9. QED
  BY <1>5, <1>7, <1>8

\* The loop invariant holds in every state of a measurement.
THEOREM LoopInvariant == ChoiceSpec => []LoopInv
<1> USE RoutesAssumption, OrderAssumption DEF Index, None, Lost
<1>1. ChoiceInit => LoopInv
  BY SortedOrderComplete DEF ChoiceInit, LoopInv, OrderComplete, BestAmong
<1>2. ChoiceTypeOK /\ LoopInv /\ [ChoiceNext]_choiceVars => LoopInv'
  <2> SUFFICES ASSUME ChoiceTypeOK, LoopInv, [ChoiceNext]_choiceVars PROVE LoopInv'
    OBVIOUS
  <2>1. OrderComplete'
    BY DEF LoopInv, OrderComplete, ChoiceNext, Test, TakeBest, StartProbing, Probe,
           TakeFirst, choiceVars, inputs
  <2>2. CASE Test
    <3> DEFINE r == order[i]
    <3>1. /\ i \in Index /\ r \in Index /\ BestAmong(i - 1)
          /\ latency[r] # Lost => latency[r] \in Nat
      <4>1. i \in Index /\ r \in Index
        BY <2>2 DEF Test, ChoiceTypeOK
      <4>2. QED
        BY <2>2, <4>1 DEF Test, ChoiceTypeOK, LoopInv
    <3>2. BestAmong(i - 1)'
      <4>1. CASE latency[r] # Lost /\ Beats(latency[r], best, bestLatency)
        <5>1. best' = r /\ bestLatency' = latency[r] /\ latency' = latency /\ order' = order
          BY <2>2, <4>1 DEF Test, inputs
        <5>2. ASSUME NEW a \in Index, a <= i, Answers(order[a])
              PROVE  latency[r] <= latency[order[a]] + TieWindow
          <6>1. order[a] \in Index /\ latency[order[a]] \in Nat
            BY <5>2 DEF ChoiceTypeOK, Answers
          <6>2. CASE a = i
            BY <6>1, <6>2
          <6>3. CASE a <= i - 1
            <7>1. best # None /\ bestLatency <= latency[order[a]] + TieWindow
              BY <3>1, <5>2, <6>3 DEF BestAmong
            <7>2. QED
              BY <3>1, <4>1, <6>1, <7>1 DEF Beats, ChoiceTypeOK
          <6>4. QED
            BY <5>2, <6>2, <6>3, <3>1
        <5>3. i' - 1 = i
          BY <2>2, <3>1 DEF Test
        <5>4. QED
          BY <3>1, <4>1, <5>1, <5>2, <5>3 DEF BestAmong, Answers
      <4>2. CASE latency[r] = Lost \/ ~Beats(latency[r], best, bestLatency)
        <5>1. best' = best /\ bestLatency' = bestLatency /\ latency' = latency /\ order' = order
          BY <2>2, <4>2 DEF Test, inputs
        <5>2. ASSUME NEW a \in Index, a <= i, Answers(order[a])
              PROVE  best # None /\ bestLatency <= latency[order[a]] + TieWindow
          <6>1. CASE a = i
            BY <3>1, <4>2, <5>2, <6>1 DEF Beats, Answers, ChoiceTypeOK
          <6>2. CASE a <= i - 1
            BY <3>1, <5>2, <6>2 DEF BestAmong
          <6>3. QED
            BY <5>2, <6>1, <6>2, <3>1
        <5>3. i' - 1 = i
          BY <2>2, <3>1 DEF Test
        <5>4. QED
          BY <3>1, <5>1, <5>2, <5>3 DEF BestAmong, Answers
      <4>3. QED
        BY <4>1, <4>2
    <3>3. QED
      BY <2>1, <2>2, <3>1, <3>2 DEF Test, LoopInv, BestAmong, Answers
  <2>3. CASE TakeBest
    BY <2>1, <2>3 DEF TakeBest, LoopInv, BestAmong, Answers, inputs
  <2>4. CASE StartProbing
    BY <2>1, <2>4 DEF StartProbing, LoopInv, BestAmong, Answers, inputs
  <2>5. CASE Probe
    BY <2>1, <2>5 DEF Probe, LoopInv, BestAmong, Answers, inputs
  <2>6. CASE TakeFirst
    BY <2>1, <2>6 DEF TakeFirst, LoopInv, BestAmong, Answers, inputs
  <2>7. CASE UNCHANGED choiceVars
    BY <2>1, <2>7 DEF choiceVars, LoopInv, BestAmong, Answers
  <2>8. QED
    BY <2>2, <2>3, <2>4, <2>5, <2>6, <2>7 DEF ChoiceNext
<1>3. QED
  BY <1>1, <1>2, TypeCorrect, PTL DEF ChoiceSpec

\* The route chosen works if any does, and is at most the tie window slower
\* than the fastest.
THEOREM NotMuchSlowerAlways == ChoiceSpec => []NotMuchSlower
<1>1. LoopInv /\ ChoiceTypeOK => NotMuchSlower
  <2> SUFFICES ASSUME LoopInv, ChoiceTypeOK, stage = "done",
                      NEW q \in Index, Answers(q)
               PROVE  /\ Answers(chosen)
                      /\ \A r \in Index : Answers(r) =>
                           latency[chosen] <= latency[r] + TieWindow
    BY DEF NotMuchSlower
  <2>1. \A r \in Index : Answers(r) =>
          best # None /\ bestLatency <= latency[r] + TieWindow
    BY RoutesAssumption, OrderAssumption DEF LoopInv, OrderComplete, BestAmong, Index
  <2>2. best # None /\ chosen = best
    BY <2>1 DEF LoopInv
  <2>3. QED
    BY <2>1, <2>2 DEF LoopInv, BestAmong
<1>2. QED
  BY <1>1, TypeCorrect, LoopInvariant, PTL

\* While all routes that work are close to each other no test result displaces
\* the first of them, and the probes go by priority.
THEOREM PriorityInvariant == ChoiceSpec => []PriorityInv
<1> USE RoutesAssumption, OrderAssumption DEF Index, None, Lost
<1>1. ChoiceInit => PriorityInv
  <2> SUFFICES ASSUME ChoiceInit PROVE PriorityInv
    OBVIOUS
  <2>1. Sorted
    BY DEF ChoiceInit, SortedOrders, Sorted, Ahead
  <2> QED BY <2>1 DEF ChoiceInit, PriorityInv, BestIsFirst
<1>2. ChoiceTypeOK /\ LoopInv /\ PriorityInv /\ [ChoiceNext]_choiceVars => PriorityInv'
  <2> SUFFICES ASSUME ChoiceTypeOK, LoopInv, PriorityInv, [ChoiceNext]_choiceVars
               PROVE  PriorityInv'
    OBVIOUS
  <2>1. /\ priority' = priority /\ latency' = latency /\ reachable' = reachable /\ order' = order
    BY DEF ChoiceNext, Test, TakeBest, StartProbing, Probe, TakeFirst, choiceVars, inputs
  <2>2. Sorted' /\ (AllClose' <=> AllClose) /\ \A r : Answers(r)' <=> Answers(r)
    BY <2>1 DEF PriorityInv, Sorted, Ahead, AllClose, Answers
  <2>3. CASE Test
    <3>1. stage = "test" /\ stage' = "test" /\ i \in Index /\ i' = i + 1 /\ order[i] \in Index
      BY <2>3 DEF Test, ChoiceTypeOK
    <3>2. ASSUME AllClose, best' # None
          PROVE  \E a \in Index : a <= i /\ order[a] = best' /\ \A b \in Index : b < a => ~Answers(order[b])
      <4>1. CASE best # None
        <5>1. Answers(best) /\ latency[best] = bestLatency /\ best \in Index
          BY <3>1, <4>1 DEF LoopInv, BestAmong, ChoiceTypeOK
        <5>2. ASSUME latency[order[i]] # Lost
              PROVE  ~Beats(latency[order[i]], best, bestLatency)
          <6>1. latency[best] <= latency[order[i]] + TieWindow
            BY <3>1, <3>2, <5>1, <5>2 DEF AllClose, Answers
          <6>2. latency[order[i]] \in Nat /\ bestLatency \in Nat
            BY <3>1, <5>2 DEF ChoiceTypeOK
          <6> QED BY <4>1, <5>1, <6>1, <6>2 DEF Beats
        <5>3. best' = best
          BY <2>3, <5>2 DEF Test
        <5>4. PICK a \in Index : a <= i - 1 /\ order[a] = best /\ \A b \in Index : b < a => ~Answers(order[b])
          BY <3>1, <3>2, <4>1 DEF PriorityInv, BestIsFirst
        <5> QED BY <3>1, <5>3, <5>4
      <4>2. CASE best = None
        <5>1. best' = order[i]
          BY <2>3, <3>2, <4>2 DEF Test
        <5>2. \A b \in Index : b < i => ~Answers(order[b])
          BY <3>1, <4>2 DEF LoopInv, BestAmong
        <5> QED BY <3>1, <5>1, <5>2
      <4> QED BY <4>1, <4>2
    <3>3. AllClose' => BestIsFirst(i - 1)'
      BY <2>1, <2>2, <3>1, <3>2 DEF BestIsFirst
    <3> QED BY <2>2, <3>1, <3>3 DEF PriorityInv
  <2>4. CASE TakeBest
    <3>1. stage = "test" /\ stage' = "done" /\ best' = best /\ best # None /\ i - 1 = N
      BY <2>4 DEF TakeBest
    <3>2. AllClose => BestIsFirst(N)
      BY <3>1 DEF PriorityInv
    <3>3. AllClose' => BestIsFirst(N)'
      BY <2>1, <2>2, <3>1, <3>2 DEF BestIsFirst
    <3> QED BY <2>2, <3>1, <3>3 DEF PriorityInv
  <2>5. CASE StartProbing
    BY <2>2, <2>5 DEF StartProbing, PriorityInv
  <2>6. CASE Probe
    <3>1. stage = "probe" /\ i \in Index /\ best' = best /\ best = None
      BY <2>6 DEF Probe, ChoiceTypeOK, LoopInv
    <3>2. \A b \in Index : b < i => ~reachable[order[b]]
      BY <3>1 DEF PriorityInv
    <3>3. CASE reachable[order[i]]
      <4>1. stage' = "done" /\ chosen' = order[i]
        BY <2>6, <3>3 DEF Probe
      <4>2. FallbackIsFirst'
        BY <2>1, <3>1, <3>2, <3>3, <4>1 DEF FallbackIsFirst
      <4> QED BY <2>2, <3>1, <4>1, <4>2 DEF PriorityInv, BestIsFirst
    <3>4. CASE ~reachable[order[i]]
      <4>1. stage' = "probe" /\ i' = i + 1
        BY <2>6, <3>1, <3>4 DEF Probe
      <4>2. \A b \in Index : b < i' => ~reachable'[order'[b]]
        BY <2>1, <3>1, <3>2, <3>4, <4>1
      <4> QED BY <2>2, <4>1, <4>2 DEF PriorityInv
    <3> QED BY <3>3, <3>4
  <2>7. CASE TakeFirst
    <3>1. stage = "probe" /\ stage' = "done" /\ i = N + 1 /\ best' = best /\ best = None
          /\ chosen' = order[1]
      BY <2>7 DEF TakeFirst, LoopInv
    <3>2. \A b \in Index : ~reachable[order[b]]
      BY <3>1 DEF PriorityInv
    <3>3. FallbackIsFirst'
      BY <2>1, <3>1, <3>2 DEF FallbackIsFirst
    <3> QED BY <2>2, <3>1, <3>3 DEF PriorityInv, BestIsFirst
  <2>8. CASE UNCHANGED choiceVars
    BY <2>2, <2>8 DEF choiceVars, PriorityInv, BestIsFirst, FallbackIsFirst, Answers
  <2> QED BY <2>3, <2>4, <2>5, <2>6, <2>7, <2>8 DEF ChoiceNext
<1> QED BY <1>1, <1>2, TypeCorrect, LoopInvariant, PTL DEF ChoiceSpec

\* Among routes that work and are close the priority decides, and with none
\* working the first reachable one is taken (Manager.RefreshHost).
THEOREM PriorityAlwaysDecides == ChoiceSpec => []PriorityDecides
<1> USE RoutesAssumption, OrderAssumption DEF Index, None, Lost
<1>1. ChoiceTypeOK /\ LoopInv /\ PriorityInv => PriorityDecides
  <2> SUFFICES ASSUME ChoiceTypeOK, LoopInv, PriorityInv, stage = "done" PROVE PriorityDecides
    BY DEF PriorityDecides
  <2>1. \A r \in Index : \E a \in Index : order[a] = r
    BY DEF LoopInv, OrderComplete
  <2>2. ASSUME Answers(chosen), AllClose, NEW r \in Index, Answers(r)
        PROVE  r = chosen \/ Ahead(chosen, r)
    <3>1. PICK c \in Index : order[c] = r
      BY <2>1
    <3>2. best # None /\ chosen = best
      BY <2>2, <3>1 DEF LoopInv, BestAmong
    <3>3. PICK a \in Index : order[a] = best /\ \A b \in Index : b < a => ~Answers(order[b])
      BY <2>2, <3>2 DEF PriorityInv, BestIsFirst
    <3>4. c = a \/ a < c
      BY <2>2, <3>1, <3>3
    <3> QED BY <3>1, <3>2, <3>3, <3>4 DEF PriorityInv, Sorted
  <2>3. ASSUME \A r \in Index : ~Answers(r)
        PROVE  /\ chosen # None
               /\ \A r \in Index : Ahead(r, chosen) => ~reachable[r]
               /\ reachable[chosen] \/ \A r \in Index : ~reachable[r] /\ ~Ahead(r, chosen)
    <3>1. best = None
      BY <2>3 DEF LoopInv, BestAmong, ChoiceTypeOK
    <3>2. PICK a \in Index :
            /\ chosen = order[a]
            /\ \A b \in Index : b < a => ~reachable[order[b]]
            /\ reachable[chosen] \/ (a = 1 /\ \A b \in Index : ~reachable[order[b]])
      BY <3>1 DEF PriorityInv, FallbackIsFirst
    <3>3. chosen \in Index /\ priority \in [Index -> Int]
      BY <3>2 DEF ChoiceTypeOK
    <3>4. ASSUME NEW r \in Index, Ahead(r, chosen)
          PROVE  \E b \in Index : b < a /\ order[b] = r
      <4>1. PICK b \in Index : order[b] = r
        BY <2>1
      <4>2. b # a
        BY <3>2, <3>3, <3>4, <4>1 DEF Ahead
      <4>3. ~(a < b)
        <5>1. ~Ahead(chosen, r)
          BY <3>3, <3>4 DEF Ahead
        <5> QED BY <3>2, <4>1, <5>1 DEF PriorityInv, Sorted
      <4> QED BY <4>1, <4>2, <4>3
    <3>5. ASSUME NEW r \in Index, Ahead(r, chosen) PROVE ~reachable[r] /\ a # 1
      BY <3>2, <3>4, <3>5
    <3>6. ASSUME \A b \in Index : ~reachable[order[b]], NEW r \in Index PROVE ~reachable[r]
      BY <2>1, <3>6
    <3> QED BY <3>2, <3>3, <3>5, <3>6
  <2> QED BY <2>2, <2>3 DEF PriorityDecides, AllClose
<1> QED BY <1>1, TypeCorrect, LoopInvariant, PriorityInvariant, PTL

=============================================================================
