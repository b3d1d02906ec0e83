--------------------------- MODULE MCHybridPredict ---------------------------
(* The five classes of the exported model; scores that tie, that are told   *)
(* apart by their sums only, and that are told apart by their softmax too;  *)
(* forms on both sides of the clamp and of the threshold.                   *)
EXTENDS HybridPredict

MCCodeMap == [c \in 0 .. 4 |-> <<1, 2, 0, 3, 4>>[c + 1]]
MCScores == {0, 1, 3}
MCProbabilities == 0 .. 2
MCForms == {-5, -3, -1, 0, 3, 4, 5, 7}
=============================================================================
