-------------------------- MODULE BurstEvaluation --------------------------
(***************************************************************************)
(* The detector of version 1 on a live bus: a generator sends normal       *)
(* frames and bursts of attacks and records the window of every burst      *)
(* (src/src/15_traffic_gen.py), the detector stamps and records a          *)
(* prediction for every frame (16_realtime_ids.py), and afterwards the     *)
(* predictions in a window are counted for its attack and the others as    *)
(* normal (17_evaluate_realtime.py).                                       *)
(*                                                                         *)
(* All three read one clock.  Identifiers, payloads and verdicts are left  *)
(* out: a frame is the number of the burst it belongs to, 0 when it is     *)
(* normal, and the number stands for the label of the window.  One         *)
(* identifier stands for the normal ones.                                  *)
(***************************************************************************)
EXTENDS Integers, SequencesExt

CONSTANTS
    Duration, Gaps,     \* of the run; between a burst and the next
    Length, Period,     \* of a burst; of the normal identifier
    MaxLag,             \* a frame is not longer on the bus and in the detector
    MaxClock            \* bound

VARIABLES
    clock,
    gen,            \* the step of the generator that comes next
    a_start, a_end, next_attack_at,
    wake,           \* when the generator's sleep is over
    next_send,      \* of the normal identifier
    gt,             \* the windows in realtime_ground_truth.csv
    bus,            \* the frames sent and not received, with the time of each
    det, frame,     \* the step of the detector, and the frame it works on
    pred,           \* the rows of realtime_predictions.csv
    late            \* frames of this burst sent after its window

genVars == <<gen, a_start, a_end, next_attack_at, wake, next_send, gt, late>>
detVars == <<det, frame, pred>>
vars == <<clock, genVars, bus, detVars>>

None == [burst |-> 0, sent |-> 0]

Init ==
    /\ clock = 0
    /\ gen = "loop" /\ a_start = 0 /\ a_end = 0 /\ next_attack_at \in Gaps
    /\ wake = 0 /\ next_send \in 0 .. Period
    /\ gt = <<>> /\ late = 0
    /\ bus = <<>> /\ det = "recv" /\ frame = None /\ pred = {}

-----------------------------------------------------------------------------
(* The generator, 15_traffic_gen.py.                                       *)

Burst == Len(gt) + 1
Put(burst) == bus' = Append(bus, [burst |-> burst, sent |-> clock])

Loop ==
    /\ gen = "loop"
    /\ gen' = IF clock < Duration THEN "turn" ELSE "done"
    /\ UNCHANGED <<clock, a_start, a_end, next_attack_at, wake, next_send, gt, late, bus, detVars>>

Normal ==
    /\ gen = "turn" /\ clock < next_attack_at /\ gen' = "loop"
    /\ IF clock >= next_send
       THEN Put(0) /\ next_send' = clock + Period
       ELSE UNCHANGED <<bus, next_send>>
    /\ UNCHANGED <<clock, a_start, a_end, next_attack_at, wake, gt, late, detVars>>

Begin ==
    /\ gen = "turn" /\ clock >= next_attack_at /\ gen' = "test"
    /\ a_start' = clock /\ a_end' = clock + Length
    /\ wake' = clock /\ late' = 0
    /\ UNCHANGED <<clock, next_attack_at, next_send, gt, bus, detVars>>

(* Fault: the loop goes on for a moment after the window. *)
TestOneLonger ==
    /\ gen = "test" /\ clock >= wake
    /\ gen' = IF clock <= a_end + 1 THEN "send" ELSE "label"
    /\ UNCHANGED <<clock, a_start, a_end, next_attack_at, wake, next_send, gt, late, bus, detVars>>

(* The test of the injecting loop, once the sleep after a frame is over.   *)
Test ==
    /\ gen = "test" /\ clock >= wake
    /\ gen' = IF clock < a_end THEN "send" ELSE "label"
    /\ UNCHANGED <<clock, a_start, a_end, next_attack_at, wake, next_send, gt, late, bus, detVars>>

Send ==
    /\ gen = "send" /\ gen' = "test"
    /\ Put(Burst)
    /\ wake' = clock + 1
    /\ late' = late + (IF clock >= a_end THEN 1 ELSE 0)
    /\ UNCHANGED <<clock, a_start, a_end, next_attack_at, next_send, gt, detVars>>

(* Fault: the window is taken when the burst is over. *)
LabelAtEnd ==
    /\ gen = "label" /\ gen' = "loop"
    /\ gt' = Append(gt, [start |-> clock, end |-> clock + Length])
    /\ \E gap \in Gaps : next_attack_at' = clock + gap
    /\ UNCHANGED <<clock, a_start, a_end, wake, next_send, late, bus, detVars>>

(* Fault: the gap counts from the planned end of the burst. *)
LabelGapFromPlan ==
    /\ gen = "label" /\ gen' = "loop"
    /\ gt' = Append(gt, [start |-> a_start, end |-> a_end])
    /\ \E gap \in Gaps : next_attack_at' = a_end + gap
    /\ UNCHANGED <<clock, a_start, a_end, wake, next_send, late, bus, detVars>>

(* The row is flushed, and the next burst is drawn from the time now.      *)
Label ==
    /\ gen = "label" /\ gen' = "loop"
    /\ gt' = Append(gt, [start |-> a_start, end |-> a_end])
    /\ \E gap \in Gaps : next_attack_at' = clock + gap
    /\ UNCHANGED <<clock, a_start, a_end, wake, next_send, late, bus, detVars>>

(* The generator is killed: the rows it has flushed are there.             *)
Kill ==
    /\ gen \notin {"done", "killed"} /\ gen' = "killed"
    /\ UNCHANGED <<clock, a_start, a_end, next_attack_at, wake, next_send, gt, late, bus, detVars>>

-----------------------------------------------------------------------------
(* The detector, 16_realtime_ids.py.                                       *)

Receive ==
    /\ det = "recv" /\ bus # <<>> /\ det' = "work"
    /\ frame' = Head(bus) /\ bus' = Tail(bus)
    /\ UNCHANGED <<clock, genVars, pred>>

(* The row has the time after the verdict, not that of the frame.          *)
Write ==
    /\ det = "work" /\ det' = "recv"
    /\ pred' = pred \cup {[burst |-> frame.burst, ts |-> clock]}
    /\ frame' = None
    /\ UNCHANGED <<clock, genVars, bus>>

(* Its own time is up.                                                     *)
Stop ==
    /\ det = "recv" /\ det' = "done"
    /\ UNCHANGED <<clock, genVars, bus, frame, pred>>

-----------------------------------------------------------------------------
Waiting == IF det = "work" THEN <<frame>> \o bus ELSE bus

Tick ==
    /\ clock < MaxClock /\ clock' = clock + 1
    /\ det = "done" \/ \A i \in DOMAIN Waiting : clock < Waiting[i].sent + MaxLag
    /\ UNCHANGED <<genVars, bus, detVars>>

Next ==
    \/ Loop \/ Normal \/ Begin \/ Test \/ Send \/ Label \/ Kill
    \/ Receive \/ Write \/ Stop \/ Tick

Spec == Init /\ [][Next]_vars

-----------------------------------------------------------------------------
(* The evaluation, 17_evaluate_realtime.py: the predictions of window w.   *)
(* All others are counted as normal.                                       *)
InWindow(w) == {p \in pred : gt[w].start <= p.ts /\ p.ts <= gt[w].end}

Time == 0 .. MaxClock
Frames == [burst : Nat, sent : Time]

TypeOK ==
    /\ clock \in Time
    /\ gen \in {"loop", "turn", "test", "send", "label", "done", "killed"}
    /\ a_start \in Time /\ a_end \in Nat /\ next_attack_at \in Nat
    /\ gen \in {"test", "send", "label"} => a_end = a_start + Length
    /\ wake \in Nat /\ next_send \in Nat /\ late \in Nat
    /\ gt \in Seq([start : Time, end : Nat])
    /\ bus \in Seq(Frames)
    /\ det \in {"recv", "work", "done"} /\ frame \in Frames
    /\ pred \subseteq [burst : 0 .. Burst, ts : Time]

(* A prediction in the window of an attack is for a frame of that attack   *)
(* or for a normal one, never for a frame of an earlier attack, as long as *)
(* a frame waits less than the shortest gap.                               *)
OwnWindow ==
    (\A gap \in Gaps : MaxLag < gap) =>
        \A w \in DOMAIN gt : \A p \in InWindow(w) : p.burst \in {0, w}

(* An attack is never predicted before its window: the delay until its     *)
(* first detection is not negative.                                        *)
NotBeforeWindow ==
    \A p \in pred : p.burst \in DOMAIN gt => p.ts >= gt[p.burst].start

(* A burst sends one frame at most once its window has ended.              *)
OneLateFrame == late <= 1
=============================================================================
