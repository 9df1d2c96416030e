----------------------------- MODULE RouteChoice -----------------------------
(***************************************************************************)
(* How one measurement of a machine's routes picks the route to cache      *)
(* (Manager.RefreshHost): the routes are tested one by one in priority     *)
(* order with a small upload; a later route replaces the best one so far   *)
(* only if it beats it by more than the tie window.  If no test succeeds,  *)
(* the routes are probed for reachability in the same order, and the first *)
(* route is taken when none answers.                                       *)
(*                                                                         *)
(* A route is its index in the configuration.  Its latency is what the     *)
(* test will measure, Lost if the test will fail.                          *)
(***************************************************************************)
EXTENDS RouteOrder

CONSTANTS
  Latencies,   \* latencies a test can measure
  Priorities   \* priorities in the configuration

ASSUME RoutesAssumption ==
  /\ Latencies \subseteq Nat
  /\ Priorities \subseteq Int

VARIABLES
  priority,    \* priority of each route
  latency,     \* what the upload test of each route will return
  reachable,   \* whether the probe of each route will succeed
  order,       \* Host.SortedRoutes()
  stage,       \* "test", "probe" or "done"
  i,           \* position in order of the next route to try
  best, bestLatency,
  chosen       \* the route put in the cache

inputs == <<priority, latency, reachable, order>>
choiceVars == <<priority, latency, reachable, order, stage, i, best, bestLatency, chosen>>

ChoiceTypeOK ==
  /\ priority \in [Index -> Priorities]
  /\ latency \in [Index -> Latencies \cup {Lost}]
  /\ reachable \in [Index -> BOOLEAN]
  /\ order \in [Index -> Index]
  /\ stage \in {"test", "probe", "done"}
  /\ i \in 1..(N + 1)
  /\ best \in Index \cup {None}
  /\ bestLatency \in Nat
  /\ chosen \in Index \cup {None}

-----------------------------------------------------------------------------
ChoiceInit ==
  /\ priority \in [Index -> Priorities]
  /\ latency \in [Index -> Latencies \cup {Lost}]
  /\ reachable \in [Index -> BOOLEAN]
  /\ order \in SortedOrders(priority)
  /\ stage = "test" /\ i = 1
  /\ best = None /\ bestLatency = 0
  /\ chosen = None

\* One turn of the loop over SortedRoutes with the upload test.
Test ==
  LET r == order[i] IN
  /\ stage = "test" /\ i <= N
  /\ i' = i + 1
  /\ IF latency[r] # Lost /\ Beats(latency[r], best, bestLatency)
     THEN best' = r /\ bestLatency' = latency[r]
     ELSE UNCHANGED <<best, bestLatency>>
  /\ UNCHANGED <<stage, chosen>> /\ UNCHANGED inputs

\* The loop is over and some route answered.
TakeBest ==
  /\ stage = "test" /\ i = N + 1 /\ best # None
  /\ chosen' = best /\ stage' = "done"
  /\ UNCHANGED <<i, best, bestLatency>> /\ UNCHANGED inputs

\* No route answered: look for one that can be reached.
StartProbing ==
  /\ stage = "test" /\ i = N + 1 /\ best = None
  /\ stage' = "probe" /\ i' = 1
  /\ UNCHANGED <<best, bestLatency, chosen>> /\ UNCHANGED inputs

Probe ==
  LET r == order[i] IN
  /\ stage = "probe" /\ i <= N
  /\ IF reachable[r] THEN chosen' = r /\ stage' = "done" /\ i' = i
                     ELSE i' = i + 1 /\ UNCHANGED <<chosen, stage>>
  /\ UNCHANGED <<best, bestLatency>> /\ UNCHANGED inputs

\* Mutant: the fallback takes the first route of the configuration.
TakeFirstConfigured ==
  /\ stage = "probe" /\ i = N + 1
  /\ chosen' = 1 /\ stage' = "done"
  /\ UNCHANGED <<i, best, bestLatency>> /\ UNCHANGED inputs

\* No route can be reached either: routes[0].
TakeFirst ==
  /\ stage = "probe" /\ i = N + 1
  /\ chosen' = order[1] /\ stage' = "done"
  /\ UNCHANGED <<i, best, bestLatency>> /\ UNCHANGED inputs

ChoiceNext == Test \/ TakeBest \/ StartProbing \/ Probe \/ TakeFirst

ChoiceSpec == ChoiceInit /\ [][ChoiceNext]_choiceVars

-----------------------------------------------------------------------------
(* Properties                                                              *)

Answers(r) == latency[r] # Lost
\* a is ahead of b in priority order.
Ahead(a, b) == priority[a] < priority[b] \/ (priority[a] = priority[b] /\ a < b)

\* The chosen route works if any does, and is slower than the fastest one by
\* at most the tie window.
NotMuchSlower ==
  stage = "done" /\ (\E r \in Index : Answers(r)) =>
    /\ Answers(chosen)
    /\ \A r \in Index : Answers(r) => latency[chosen] <= latency[r] + TieWindow

\* When all routes that work are close to each other, the configured priority
\* decides (remote_test.go, TestManagerPrefersPriorityWhenProbeTimesAreClose);
\* with none working, the first reachable one by priority is taken, and the
\* first of all if none is reachable: never no route.
PriorityDecides ==
  stage = "done" =>
    /\ Answers(chosen)
       /\ (\A r, q \in Index : Answers(r) /\ Answers(q) =>
             latency[r] <= latency[q] + TieWindow)
       => \A r \in Index : Answers(r) => r = chosen \/ Ahead(chosen, r)
    /\ (\A r \in Index : ~Answers(r)) =>
         /\ chosen # None
         /\ \A r \in Index : Ahead(r, chosen) => ~reachable[r]
         /\ reachable[chosen] \/ \A r \in Index : ~reachable[r] /\ ~Ahead(r, chosen)

-----------------------------------------------------------------------------
(* The inductive invariant behind NotMuchSlower (proved in RouteChoiceProofs) *)

\* order lists every route.
OrderComplete == \A r \in Index : \E a \in Index : order[a] = r

\* best has the latency remembered for it, and is at most the window slower
\* than each of the routes tested so far, the first n of order.
BestAmong(n) ==
  /\ best # None => Answers(best) /\ latency[best] = bestLatency
  /\ \A a \in Index : a <= n /\ Answers(order[a]) =>
       best # None /\ bestLatency <= latency[order[a]] + TieWindow

LoopInv ==
  /\ OrderComplete
  /\ stage = "test" => BestAmong(i - 1)
  /\ stage = "probe" => best = None /\ BestAmong(N)
  /\ stage = "done" => BestAmong(N) /\ (best # None => chosen = best)

(* and the one behind PriorityDecides                                      *)

Sorted == \A a, b \in Index : a < b => Ahead(order[a], order[b])
\* No route that works is more than the window slower than another.
AllClose == \A r, q \in Index : Answers(r) /\ Answers(q) => latency[r] <= latency[q] + TieWindow

\* best is the first of the n routes tested that works.
BestIsFirst(n) ==
  best # None =>
    \E a \in Index : a <= n /\ order[a] = best /\ \A b \in Index : b < a => ~Answers(order[b])

\* The route taken without a test is the first reachable one, or the first.
FallbackIsFirst ==
  \E a \in Index :
    /\ chosen = order[a]
    /\ \A b \in Index : b < a => ~reachable[order[b]]
    /\ reachable[chosen] \/ (a = 1 /\ \A b \in Index : ~reachable[order[b]])

PriorityInv ==
  /\ Sorted
  /\ stage \in {"test", "done"} /\ AllClose => BestIsFirst(IF stage = "test" THEN i - 1 ELSE N)
  /\ stage = "probe" => \A b \in Index : b < i => ~reachable[order[b]]
  /\ stage = "done" /\ best = None => FallbackIsFirst

=============================================================================
