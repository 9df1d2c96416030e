----------------------------- MODULE MCRouteCache -----------------------------
(* Small instances of RouteCache for TLC.                                  *)
EXTENDS RouteCache, TLC

CONSTANTS p1, p2, r1, r2

\* Two networks: at home the first route is fast, away only the second works.
HomeAndAway ==
  {[h \in Hosts |-> [r \in Routes |-> IF r = 1 THEN 10 ELSE 100]],
   [h \in Hosts |-> [r \in Routes |-> IF r = 1 THEN Lost ELSE 100]]}
\* ... or none.
HomeAndOffline ==
  {[h \in Hosts |-> [r \in Routes |-> IF r = 1 THEN 10 ELSE 100]],
   [h \in Hosts |-> [r \in Routes |-> Lost]]}

PasterSymmetry == Permutations(Pasters)
=============================================================================
