--------------------------- MODULE MCReplayService ---------------------------
(* Two equal rows, then a different one. *)
EXTENDS ReplayService

MCContent == <<"x", "x", "y">>
=============================================================================
