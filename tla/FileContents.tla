----------------------------- MODULE FileContents -----------------------------
(***************************************************************************)
(* What a small file holds while Go programs read and rewrite it.          *)
(* os.WriteFile and Config.Save open the file with O_TRUNC, which empties  *)
(* it, and then write the whole text at offset 0 with one call.            *)
(***************************************************************************)
Missing == [kind |-> "missing"]
Empty == [kind |-> "empty"]
Torn == [kind |-> "torn"]     \* not the text of any one writer
Whole(x) == [kind |-> "whole", data |-> x]

IsWhole(file) == file.kind = "whole"
\* What may be in a file that programs write members of X to.
Holds(file, X) ==
  file \in {Missing, Empty, Torn} \/ (file = Whole(file.data) /\ file.data \in X)

\* What a file with the content old may hold after Whole(x) is written at
\* offset 0: a longer text another process wrote since the file was emptied
\* keeps its tail.
Overwrite(old, x) == IF old \in {Empty, Whole(x)} THEN {Whole(x)} ELSE {Whole(x), Torn}

=============================================================================
