---------------------------- MODULE MCAppLifecycle ----------------------------
(* Small instances of AppLifecycle for TLC.                                *)
EXTENDS AppLifecycle, TLC

CONSTANTS a1, a2, d1, d2, d3

\* All saved configurations name the same hosts: the check of the hosts cannot
\* tell an old daemon from a new one.
SameHosts == [c \in Configs |-> IF c = 0 THEN {} ELSE {"host"}]
=============================================================================
