---------------------------- MODULE MCSessionStore ----------------------------
(* Small instances of SessionStore for TLC.                                *)
EXTENDS SessionStore, TLC

CONSTANTS k1, k2, legacy1, m1, m2, w1, w2

\* legacy1 is the w0t0p0:UUID spelling of the session k1.
MCNorm == [s \in Spellings |-> IF s = legacy1 THEN k1 ELSE s]

Row(m, t, z) == [machine |-> m, created |-> 0, lastUsed |-> t, zone |-> z]
EmptyDb == [s \in Spellings |-> Unbound]
OnlyEmptyDb == {EmptyDb}
\* Old stores: k1 in both spellings, either of them the more recently used.
OldDbs ==
  {[s \in Spellings |-> CASE s = k1 -> Row(m1, t, 0) [] s = legacy1 -> Row(m2, u, z)
                          [] OTHER -> Unbound] : t, u \in 0..TTL, z \in Zones}

BothHosts == [hosts |-> {m1, m2}, default |-> NoMachine]
OneHost == [hosts |-> {m1}, default |-> NoMachine]
FixedConfig == {BothHosts}
ChangingConfig == {BothHosts, OneHost}

WorkerSymmetry == Permutations(Workers)
=============================================================================
