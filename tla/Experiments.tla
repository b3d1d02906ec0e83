----------------------------- MODULE Experiments -----------------------------
(***************************************************************************)
(* The measuring programs IndependentEvaluation, BurstEvaluation,          *)
(* StabilityRun and TemporalFeatures are run one at a time and share       *)
(* nothing but the clock: the variables of the others stand still where    *)
(* they begin.                                                             *)
(***************************************************************************)
EXTENDS Integers, Sequences

CONSTANTS
    Id, Tol, Reach, RecordingClock, MaxRecorded,                    \* evaluation
    BurstsDuration, Gaps, BurstLength, Period, MaxLag, BurstsClock, \* bursts
    Interval, Duration, StabilityClock, MaxFrames,                  \* stability
    Ids, Payloads, Stamps, TEMP_WINDOW, BYTE_WINDOW, MaxLog         \* features

ASSUME EvaluationAssumption ==
    /\ Tol \in Nat /\ Reach \in Nat \ {0}
    /\ RecordingClock \in Nat /\ MaxRecorded \in Nat
ASSUME BurstsAssumption ==
    /\ BurstsDuration \in Nat /\ Gaps \subseteq Nat /\ BurstLength \in Nat
    /\ Period \in Nat /\ MaxLag \in Nat /\ BurstsClock \in Nat
ASSUME StabilityAssumption ==
    /\ Interval \in Nat \ {0} /\ Duration \in Nat
    /\ StabilityClock \in Nat /\ MaxFrames \in Nat
ASSUME FeaturesAssumption ==
    /\ Payloads \subseteq Int /\ Stamps \subseteq Int
    /\ TEMP_WINDOW \in Nat \ {0} /\ BYTE_WINDOW \in Nat \ {0} /\ MaxLog \in Nat

VARIABLES
    experiment, clock,
    frames, candump, socket, verdicts, phase, attached,
    gen, a_start, a_end, next_attack_at, wake, next_send, gt, bus, det, frame, pred, late,
    pc, now, interval_start, next_report, total_frames, interval_frames, rows, file, interrupted,
    log, last_payload, last_ts, delta_hist, iat_hist, run_length, payload_hist

evaluationVars == <<frames, candump, socket, verdicts, phase, attached>>
burstVars == <<gen, a_start, a_end, next_attack_at, wake, next_send, gt, bus, det, frame, pred, late>>
stabilityVars == <<pc, now, interval_start, next_report, total_frames, interval_frames, rows, file, interrupted>>
featureVars == <<log, last_payload, last_ts, delta_hist, iat_hist, run_length, payload_hist>>
vars == <<experiment, clock, evaluationVars, burstVars, stabilityVars, featureVars>>

Evaluation == INSTANCE IndependentEvaluation WITH
    MaxClock <- RecordingClock, MaxFrames <- MaxRecorded, pred <- verdicts

Bursts == INSTANCE BurstEvaluation WITH
    Duration <- BurstsDuration, Length <- BurstLength, MaxClock <- BurstsClock

Stability == INSTANCE StabilityRun WITH MaxClock <- StabilityClock

Features == INSTANCE TemporalFeatures WITH MaxFrames <- MaxLog
Init ==
    /\ experiment \in {"evaluation", "bursts", "stability", "features"}
    /\ Evaluation!Init /\ Bursts!Init /\ Stability!Init /\ Features!Init
    /\ experiment # "bursts" => next_send = 0

Evaluate ==
    /\ experiment = "evaluation" /\ Evaluation!Next
    /\ UNCHANGED <<experiment, burstVars, stabilityVars, featureVars>>

Burst ==
    /\ experiment = "bursts" /\ Bursts!Next
    /\ UNCHANGED <<experiment, evaluationVars, stabilityVars, featureVars>>

(* A step of the long run; time and the loop are the parts that go on.     *)
Long(step) ==
    /\ experiment = "stability" /\ step
    /\ UNCHANGED <<experiment, evaluationVars, burstVars, featureVars>>

Build ==
    /\ experiment = "features" /\ Features!Next
    /\ UNCHANGED <<experiment, clock, evaluationVars, burstVars, stabilityVars>>

Next == Evaluate \/ Burst \/ Long(Stability!Next) \/ Build

Spec == Init /\ [][Next]_vars
FairSpec == Spec /\ WF_vars(Long(Stability!Tick)) /\ WF_vars(Long(Stability!Loop))

-----------------------------------------------------------------------------
(* The properties are those of the four modules, which also say of what    *)
(* code they are; the state of each is well formed.                        *)

(* 44: coverage by captures and coverage by predictions speak of the same  *)
(* pairs, a prediction stays alone only when nothing in reach is left over *)
(* or more than the neighbourhood lies within the tolerance, and when      *)
(* frames are sparse every verdict counts for its own frame.               *)
Attachment ==
    /\ experiment = "evaluation" => Evaluation!TypeOK
    /\ Evaluation!CoverageAgrees
    /\ Evaluation!NeighbourhoodSuffices
    /\ Evaluation!VerdictForOwnFrame

(* 15 to 17: the predictions in a window are for no other burst, no burst  *)
(* is predicted before its window, and one frame of a burst at most is     *)
(* sent behind it.                                                         *)
Windows ==
    /\ experiment = "bursts" => Bursts!TypeOK
    /\ Bursts!OwnWindow
    /\ Bursts!NotBeforeWindow
    /\ Bursts!OneLateFrame

(* 47: the rows of the file account for all time and all frames, no two    *)
(* are written in one interval, and the summary is that of the file.       *)
Rows ==
    /\ experiment = "stability" => Stability!TypeOK
    /\ Stability!RowsAddUp
    /\ Stability!NotTwoRowsAnInterval
    /\ Stability!SummaryOfFile

(* 34 and 38: the histories are the most recent part of the log, and the   *)
(* run length is that of the payloads it ends on.                          *)
Histories ==
    /\ experiment = "features" => Features!TypeOK
    /\ Features!HistoriesAreRecent
    /\ Features!RunLengthIsRun

(* 47: the run ends.                                                       *)
RunEnds == experiment = "stability" => Stability!RunEnds
=============================================================================
