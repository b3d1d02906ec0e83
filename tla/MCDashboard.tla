---------------------------- MODULE MCDashboard ----------------------------
(* A page with two scenarios of three and one frames, and a few clicks.    *)
EXTENDS Dashboard

MCFrames == [name \in Scenario |-> IF name = "normal" THEN <<"std", "ext", "std">>
                                                      ELSE <<"std">>]
MCCodes == {0, 2, 5}
=============================================================================
