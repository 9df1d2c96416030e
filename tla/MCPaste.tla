------------------------------- MODULE MCPaste -------------------------------
(* Small instances of Paste for TLC.                                       *)
EXTENDS Paste, TLC

CONSTANTS c1, c2, p1, p2, a, b, s, r1, r2

ConnSymmetry == Permutations(Conns) \cup Permutations(Routes)

(* The two panes start alike, so no start with the focus in the second one *)
(* is needed; the clipboard starts with an image and may then change.      *)
PanesInit == Init /\ clip.kind = "png" /\ focus # p2
PanesSpec == PanesInit /\ [][Next]_vars /\ Fairness

(* Files have no say in where a paste goes: pastes that start after the    *)
(* first upload are left to the other instance.                            *)
FirstUpload == files # {} => \A c \in Conns : pc[c] \notin {"active", "resolve"}
=============================================================================
