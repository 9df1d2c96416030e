------------------------------ MODULE RouteOrder ------------------------------
(***************************************************************************)
(* How the routes of one machine are ordered and compared.  A route is its *)
(* index in the configuration; a test of a route gives a latency, or Lost. *)
(***************************************************************************)
EXTENDS Integers

CONSTANTS
  N,           \* number of routes of a machine
  TieWindow    \* routeTieWindow

\* Config.Validate refuses a machine without a route.
ASSUME OrderAssumption == N \in Nat \ {0} /\ TieWindow \in Nat

Index == 1..N
Lost == -1
None == 0      \* the zero Route, whose Name is empty

\* sort.SliceStable by priority: the one order that is sorted and keeps the
\* configuration's order among equals.
SortedOrders(p) ==
  {o \in [Index -> Index] :
     \A a, b \in Index : a < b =>
       \/ p[o[a]] < p[o[b]]
       \/ p[o[a]] = p[o[b]] /\ o[a] < o[b]}

\* Mutant of Beats: the window on the wrong side.
BeatsWithinWindow(l, bestSoFar, bestL) == bestSoFar = None \/ l < bestL + TieWindow

\* Whether a test result l replaces the best route so far.
Beats(l, bestSoFar, bestL) == bestSoFar = None \/ l + TieWindow < bestL

=============================================================================
