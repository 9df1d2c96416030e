------------------------------ MODULE TestPaste ------------------------------
(***************************************************************************)
(* clipctl's test paste (testpaste.Run): upload a small image over the     *)
(* route the registry remembers for the machine or, if it remembers none   *)
(* the configuration still has, over the one a measurement picks.  If the  *)
(* remembered route fails, the routes are measured and the test is tried   *)
(* once more over another route.                                           *)
(***************************************************************************)
EXTENDS RouteChoice

VARIABLES
  trial,       \* "out", "measure", "upload", "remeasure", "reupload", "passed", "failed"
  tried,       \* the route of the last upload
  remembered   \* it came from the registry

testVars == <<trial, tried, remembered>>

TestTypeOK ==
  /\ trial \in {"out", "measure", "upload", "remeasure", "reupload", "passed", "failed"}
  /\ tried \in Index \cup {None}
  /\ remembered \in BOOLEAN

TestInit == trial = "out" /\ tried = None /\ remembered = FALSE

\* cachedRoute, of the route name found in the registry.
LookUp(name) ==
  /\ trial = "out"
  /\ IF name \in Index
     THEN tried' = name /\ remembered' = TRUE /\ trial' = "upload"
     ELSE UNCHANGED <<tried, remembered>> /\ trial' = "measure"
  /\ UNCHANGED choiceVars

\* BestRoute of a new Manager, whose cache is empty: RefreshHost.
Measure ==
  /\ trial \in {"measure", "remeasure"}
  /\ ChoiceNext
  /\ UNCHANGED testVars

Measured ==
  /\ trial = "measure" /\ stage = "done"
  /\ tried' = chosen /\ trial' = "upload"
  /\ UNCHANGED remembered /\ UNCHANGED choiceVars

\* Mutant: a remembered route that fails is given up on.
TryUploadOnce ==
  /\ trial = "upload"
  /\ trial' \in {"passed", "failed"}
  /\ UNCHANGED <<tried, remembered>> /\ UNCHANGED choiceVars

\* runWithRoute: upload and verify.
TryUpload ==
  /\ trial = "upload"
  /\ trial' \in {"passed", IF remembered THEN "remeasure" ELSE "failed"}
  /\ UNCHANGED <<tried, remembered>> /\ UNCHANGED choiceVars

\* Only another route is worth a second upload.
Remeasured ==
  /\ trial = "remeasure" /\ stage = "done"
  /\ IF chosen # tried THEN tried' = chosen /\ trial' = "reupload"
                       ELSE UNCHANGED tried /\ trial' = "failed"
  /\ UNCHANGED remembered /\ UNCHANGED choiceVars

TryAgain ==
  /\ trial = "reupload"
  /\ trial' \in {"passed", "failed"}
  /\ UNCHANGED <<tried, remembered>> /\ UNCHANGED choiceVars

\* The measurements of a machine nobody tests, to have one of them.
Unmeasured == /\ \A r \in Index : latency[r] = Lost /\ ~reachable[r]
              /\ \A r, q \in Index : priority[r] = priority[q]

TestNext == Measure \/ Measured \/ TryUpload \/ Remeasured \/ TryAgain

-----------------------------------------------------------------------------
(* Property                                                                *)

\* A test fails only over the route that a measurement made for it picks:
\* what the registry remembers, however old, never decides the outcome alone.
TestMeasuresBeforeFailing == trial = "failed" => stage = "done" /\ tried = chosen

(* The inductive invariant behind it (proved in LocalFilesProofs)            *)
TestInv ==
  (trial = "upload" /\ ~remembered) \/ trial \in {"reupload", "failed"} =>
    stage = "done" /\ tried = chosen

=============================================================================
