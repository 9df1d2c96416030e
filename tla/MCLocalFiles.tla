----------------------------- MODULE MCLocalFiles -----------------------------
(* Workloads: uploads that end together; setup while the daemon starts;    *)
(* onboarding; an installation during it; a test paste during uploads, and *)
(* one with every measurement of three routes.                             *)
EXTENDS LocalFiles

CONSTANTS p1, p2, box, alias, n1, n2

MCProcs == {p1, p2}
MCDrawn == [p \in MCProcs |-> IF p = p1 THEN "t1" ELSE "t2"]
MCMatching == [f \in {"f"} |-> {2}]
MCLatencies == {10, 80, 150}

Record(h, f, v) == [op |-> "record", update |-> [host |-> h, field |-> f, value |-> v]]
Op(name) == [op |-> name]
Needs(S) == [op |-> "config", needs |-> S]
Edit(c, warns) == [op |-> "change", change |-> c, warns |-> warns]

Paste(r) == <<Record(box, "route", r), Op("event")>>
Serve == <<Needs({}), Op("token"), Op("listen")>>
ShimSetup == <<Needs({box}), Op("token"), Op("shims"),
               Record(alias, "shim", 1), Record(alias, "forward", 1)>>
Mark(r) == <<Record(box, "route", r)>>
ShimAgain == <<Op("token"), Op("shims")>>
TestBox == <<Needs({box}), [op |-> "test", host |-> box]>>
Install(paths, k) == [op |-> "install", install |-> paths, key |-> k]
AfterPick == <<Edit(Install("user", Unset), TRUE), Edit([op |-> "iterm", key |-> "F12"], TRUE)>>
Onboard == <<Edit(Install("brew", "F12"), FALSE), Op("pick")>> \o AfterPick
OnboardAgain ==
  <<Edit([op |-> "onboard", machines |-> {n1}], FALSE)>> \o AfterPick

Jobs(a, b) == [p \in MCProcs |-> IF p = p1 THEN a ELSE b]
Work(o1, o2, a, b, m, t) ==
  [owner |-> Jobs(o1, o2), jobs |-> Jobs(a, b), machines |-> m, measures |-> t]

MCWorkloads ==
  {Work("daemon", "daemon", <<Paste(1), Paste(2)>>, <<Paste(2), Paste(1)>>, {box}, FALSE),
   Work("daemon", "clipctl", <<Serve, Serve>>, <<ShimSetup, ShimAgain>>, {box}, FALSE),
   Work("clipctl", "daemon", <<Onboard>>, <<>>, {}, FALSE),
   Work("clipctl", "install", <<OnboardAgain>>, <<<<Edit(Install("brew", "F13"), FALSE)>>>>,
        {box}, FALSE),
   Work("daemon", "clipctl", <<Paste(1), Paste(4)>>, <<TestBox>>, {box}, FALSE),
   Work("daemon", "clipctl", <<>>, <<Mark(2), TestBox>>, {box}, TRUE)}
=============================================================================
