----------------------------- MODULE GroundTruth -----------------------------
(***************************************************************************)
(* The independent ground truth of the ICSim experiments: the injector     *)
(* src/src/22_icsim_attack_inject.py with its logger                       *)
(* src/src/42_icsim_gt_logger.py writes one row for every attack frame,    *)
(* candump records what passes the bus, and afterwards                     *)
(* src/src/43_match_icsim_ground_truth.py gives the rows the captures that *)
(* are nearest in time among those of the same identifier and payload.     *)
(*                                                                         *)
(* External are the bus, which keeps the order of the frames, ICSim, which *)
(* sends the normal ones, and candump, which may be late and may miss a    *)
(* frame.  A key stands for an identifier with a payload.                  *)
(***************************************************************************)
EXTENDS Integers, Sequences

CONSTANTS
    Key,        \* identifiers with payloads
    NoKey,      \* no frame under way in the injector
    Tol,        \* TOL_SEC
    MaxClock,   \* bound: instants of the recording
    MaxRows,    \* bound: attack frames logged
    MaxFrames   \* bound: frames on the bus and captured

ASSUME KeyAssumption == NoKey \notin Key
ASSUME TolAssumption == Tol \in Nat
ASSUME BoundAssumption == MaxClock \in Nat /\ MaxRows \in Nat /\ MaxFrames \in Nat

VARIABLES
    clock,     \* the time both time stamps are taken from
    gt,        \* rows of the log: key and time
    sending,   \* key logged and not yet sent
    bus,       \* frames sent and not captured: key and row, 0 for normal ones
    candump,   \* frames captured: key, row and time
    phase,     \* "record", then "match", then "done"
    matched    \* for the rows matched so far: index of the capture, 0 for none

recordVars == <<gt, sending, bus, candump>>
vars == <<clock, recordVars, phase, matched>>

Init ==
    /\ clock = 0
    /\ gt = <<>> /\ sending = NoKey
    /\ bus = <<>> /\ candump = <<>>
    /\ phase = "record" /\ matched = <<>>

Recording == phase = "record" /\ UNCHANGED <<phase, matched>>

-----------------------------------------------------------------------------
(* The recording.                                                          *)

Tick ==
    /\ Recording
    /\ clock < MaxClock
    /\ clock' = clock + 1
    /\ UNCHANGED recordVars

(* AttackGTLogger.log: the row is written and flushed before the frame is  *)
(* sent, and sending takes as long as it takes.                            *)
Log(k) ==
    /\ sending = NoKey /\ Len(gt) < MaxRows
    /\ gt' = Append(gt, [key |-> k, ts |-> clock])
    /\ sending' = k
    /\ UNCHANGED bus

Send ==
    /\ sending # NoKey
    /\ bus' = Append(bus, [key |-> sending, of |-> Len(gt)])
    /\ sending' = NoKey
    /\ UNCHANGED gt

Room == Len(bus) + Len(candump) < MaxFrames

(* Fault: the frame is sent first and logged when it is on its way. *)
SendsThenLogs ==
    /\ Recording /\ Room
    /\ \/ \E k \in Key :
            /\ sending = NoKey /\ Len(gt) < MaxRows
            /\ bus' = Append(bus, [key |-> k, of |-> Len(gt) + 1])
            /\ sending' = k
            /\ UNCHANGED gt
       \/ /\ sending # NoKey
          /\ gt' = Append(gt, [key |-> sending, ts |-> clock])
          /\ sending' = NoKey
          /\ UNCHANGED bus
    /\ UNCHANGED <<clock, candump>>

Inject ==
    /\ Recording /\ Room
    /\ (\E k \in Key : Log(k)) \/ Send
    /\ UNCHANGED <<clock, candump>>

Background ==
    /\ Recording /\ Room
    /\ \E k \in Key : bus' = Append(bus, [key |-> k, of |-> 0])
    /\ UNCHANGED <<clock, gt, sending, candump>>

Capture ==
    /\ Recording
    /\ bus # <<>>
    /\ candump' = Append(candump, [key |-> Head(bus).key, of |-> Head(bus).of, ts |-> clock])
    /\ bus' = Tail(bus)
    /\ UNCHANGED <<clock, gt, sending>>

Lose ==
    /\ Recording
    /\ bus # <<>>
    /\ bus' = Tail(bus)
    /\ UNCHANGED <<clock, gt, sending, candump>>

(* The processes are stopped wherever they are and the matcher is called. *)
Stop ==
    /\ phase = "record" /\ phase' = "match"
    /\ bus' = <<>>
    /\ UNCHANGED <<clock, gt, sending, candump, matched>>

-----------------------------------------------------------------------------
(* The matcher takes the rows in the order of the log.                     *)

Apart(s, t) == IF s < t THEN t - s ELSE s - t

Used == {matched[i] : i \in DOMAIN matched} \ {0}

InReach(i, c) ==
    /\ candump[c].key = gt[i].key
    /\ Apart(candump[c].ts, gt[i].ts) <= Tol

(* Fault: a capture stays available when a row has taken it. *)
CandidatesUsedToo(i) == {c \in DOMAIN candump : InReach(i, c)}

Candidates(i) == {c \in DOMAIN candump \ Used : InReach(i, c)}

(* The first of the nearest. *)
Nearest(i, c, C) ==
    LET away(d) == Apart(candump[d].ts, gt[i].ts)
    IN  \A d \in C : away(c) < away(d) \/ (away(c) = away(d) /\ c <= d)

Row == Len(matched) + 1

(* Fault: the nearest is sought among all, and given up when it is used. *)
MatchNearestOfAll ==
    LET C == {c \in DOMAIN candump : InReach(Row, c)}
    IN  \/ \E c \in C \ Used : Nearest(Row, c, C) /\ matched' = Append(matched, c)
        \/ /\ \A c \in C : Nearest(Row, c, C) => c \in Used
           /\ matched' = Append(matched, 0)

MatchNearest ==
    LET C == Candidates(Row)
    IN  \/ \E c \in C : Nearest(Row, c, C) /\ matched' = Append(matched, c)
        \/ C = {} /\ matched' = Append(matched, 0)

MatchRow ==
    /\ phase = "match" /\ Row <= Len(gt)
    /\ MatchNearest
    /\ UNCHANGED <<clock, recordVars, phase>>

Report ==
    /\ phase = "match" /\ Row > Len(gt)
    /\ phase' = "done"
    /\ UNCHANGED <<clock, recordVars, matched>>

Next == Tick \/ Inject \/ Background \/ Capture \/ Lose \/ Stop \/ MatchRow \/ Report

Spec == Init /\ [][Next]_vars

-----------------------------------------------------------------------------
Frame == [key : Key, of : 0 .. MaxRows]
Captured == [key : Key, of : 0 .. MaxRows, ts : 0 .. MaxClock]

(* The rows, frames and captures are what the files hold. *)
TypeOK ==
    /\ clock \in 0 .. MaxClock
    /\ gt \in Seq([key : Key, ts : 0 .. MaxClock]) /\ Len(gt) <= MaxRows
    /\ sending \in Key \cup {NoKey}
    /\ bus \in Seq(Frame) /\ candump \in Seq(Captured)
    /\ phase \in {"record", "match", "done"}
    /\ matched \in Seq(0 .. Len(candump)) /\ Len(matched) <= Len(gt)

(* The matching is one to one and true to the log: no capture stands for   *)
(* two rows, which makes 44_evaluate_icsim_independent_gt.py stop, and     *)
(* every pair agrees in content and, to the tolerance, in time.            *)
OneToOne ==
    \A i \in DOMAIN matched :
        matched[i] # 0 =>
            /\ InReach(i, matched[i])
            /\ \A j \in DOMAIN matched : matched[j] = matched[i] => j = i

(* Although every row takes what is best for it alone, no row that stays   *)
(* without a capture could have had one that is left over.                 *)
UnmatchedHasNone ==
    \A i \in DOMAIN matched :
        matched[i] = 0 => \A c \in DOMAIN candump \ Used : ~InReach(i, c)

(* Keys that only attack frames have, all of them captured in time. *)
Clean(k) == \A c \in DOMAIN candump : candump[c].key = k => candump[c].of # 0
Timely(k) ==
    \A c \in DOMAIN candump :
        candump[c].key = k /\ candump[c].of \in DOMAIN gt =>
            candump[c].ts - gt[candump[c].of].ts <= Tol

(* Whatever candump missed, no attack frame it has captured is left to     *)
(* count as normal traffic, provided the content is the attack's own and   *)
(* the captures are within the tolerance of the log.                       *)
CapturedAttacksLabelled ==
    phase = "done" =>
        \A c \in DOMAIN candump :
            Clean(candump[c].key) /\ Timely(candump[c].key) => c \in Used
=============================================================================
