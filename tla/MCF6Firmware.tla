---------------------------- MODULE MCF6Firmware ----------------------------
(* Instances of F6Firmware for TLC. *)
EXTENDS F6Firmware

(* normal, one known attack, unknown anomaly *)
MCCodes == {0, 2, 5}

(* Many frames meet few ticks, many ticks few frames.  Only frames and     *)
(* ticks are cut off, which no fairness asks for.                          *)
MCBound == sent <= 1 \/ ticks <= 1 \/ (sent <= 3 /\ ticks <= 2)
=============================================================================
