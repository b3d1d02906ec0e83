------------------------ MODULE IndependentEvaluation ------------------------
(***************************************************************************)
(* The evaluation against the independent ground truth,                    *)
(* src/src/44_evaluate_icsim_independent_gt.py, of the predictions that    *)
(* src/src/23_icsim_realtime_detect.py writes while candump records.       *)
(*                                                                         *)
(* A frame on the bus reaches candump, the socket of the detector, or      *)
(* both.  The detector stamps a prediction when it writes it, so after the *)
(* frame waited in the socket and went through the features; it does not   *)
(* say of which frame it is, and the evaluation has the identifier and the *)
(* time alone to find out.  Which captures are attacks GroundTruth says.   *)
(***************************************************************************)
EXTENDS Integers, Sequences, FiniteSets

CONSTANTS
    Id,          \* CAN identifiers
    Tol,         \* TOL_SEC
    Reach,       \* captures before and after the time that are looked at: 8
    MaxClock,    \* bound: instants of the recording
    MaxFrames    \* bound: frames on the bus


VARIABLES
    clock,
    frames,     \* how many frames were on the bus
    candump,    \* the captures: id, time, attack or not, number of the frame
    socket,     \* frames the detector has not received: id and number
    pred,       \* the predictions: id, time, label, number of the frame
    phase,      \* "record", then "attach", then "done"
    attached    \* for the predictions attached so far: the capture, or 0

recordVars == <<clock, frames, candump, socket, pred>>
vars == <<recordVars, phase, attached>>

Init ==
    /\ clock = 0 /\ frames = 0
    /\ candump = <<>> /\ socket = <<>> /\ pred = <<>>
    /\ phase = "record" /\ attached = <<>>

Recording == phase = "record" /\ UNCHANGED <<phase, attached>>

-----------------------------------------------------------------------------
(* The recording.                                                          *)

Tick ==
    /\ Recording
    /\ clock < MaxClock
    /\ clock' = clock + 1
    /\ UNCHANGED <<frames, candump, socket, pred>>

(* candump or the socket may miss the frame; one that both miss is as if   *)
(* it had not been sent.                                                   *)
Frame ==
    /\ Recording
    /\ frames < MaxFrames
    /\ frames' = frames + 1
    /\ \E id \in Id, attack \in BOOLEAN, captured \in BOOLEAN, received \in BOOLEAN :
         /\ captured \/ received
         /\ candump' = IF captured
                       THEN Append(candump, [id |-> id, ts |-> clock, attack |-> attack, of |-> frames'])
                       ELSE candump
         /\ socket' = IF received THEN Append(socket, [id |-> id, of |-> frames']) ELSE socket
    /\ UNCHANGED <<clock, pred>>

Detect ==
    /\ Recording
    /\ socket # <<>>
    /\ \E label \in {"anomaly", "normal"} :
         pred' = Append(pred, [id |-> Head(socket).id, ts |-> clock, label |-> label, of |-> Head(socket).of])
    /\ socket' = Tail(socket)
    /\ UNCHANGED <<clock, frames, candump>>

Stop ==
    /\ phase = "record" /\ phase' = "attach"
    /\ socket' = <<>>
    /\ UNCHANGED <<clock, frames, candump, pred, attached>>

-----------------------------------------------------------------------------
(* The predictions are attached in the order of the file.                  *)

Apart(s, t) == IF s < t THEN t - s ELSE s - t

Used == {attached[p] : p \in DOMAIN attached} \ {0}

SameId(p) == {c \in DOMAIN candump : candump[c].id = pred[p].id}

Earlier(p) == {c \in SameId(p) : candump[c].ts < pred[p].ts}

InReach(p, c) == c \in SameId(p) /\ Apart(candump[c].ts, pred[p].ts) <= Tol

(* The captures that bisect puts between c and the time of the prediction. *)
Between(p, c) ==
    {d \in SameId(p) : (d > c /\ d \in Earlier(p)) \/ (d < c /\ d \notin Earlier(p))}

(* Fault: the end of the range is taken for its last element. *)
NeighbourhoodTooShort(p) == {c \in SameId(p) : Cardinality(Between(p, c)) < Reach}

(* candidate_indices[pos - Reach .. pos + Reach], where pos is the number  *)
(* of captures earlier than the prediction: Reach of those, and Reach + 1  *)
(* of the others.                                                          *)
Neighbourhood(p) ==
    {c \in SameId(p) : Cardinality(Between(p, c)) < IF c \in Earlier(p) THEN Reach ELSE Reach + 1}

(* Fault: a capture with a prediction is taken again. *)
CandidatesUsedToo(p) == {c \in Neighbourhood(p) : InReach(p, c)}

Candidates(p) == {c \in Neighbourhood(p) \ Used : InReach(p, c)}

(* Fault: the search ends at the first capture in reach. *)
FirstInReach(p, c) == \A d \in Candidates(p) : c <= d

Nearest(p, c) ==
    LET away(d) == Apart(candump[d].ts, pred[p].ts)
    IN  \A d \in Candidates(p) : away(c) < away(d) \/ (away(c) = away(d) /\ c <= d)

Attach ==
    LET p == Len(attached) + 1
    IN  /\ phase = "attach" /\ p <= Len(pred)
        /\ \/ \E c \in Candidates(p) : Nearest(p, c) /\ attached' = Append(attached, c)
           \/ Candidates(p) = {} /\ attached' = Append(attached, 0)
        /\ UNCHANGED <<recordVars, phase>>

Report ==
    /\ phase = "attach" /\ Len(attached) = Len(pred)
    /\ phase' = "done"
    /\ UNCHANGED <<recordVars, attached>>

(* What the report counts: the detected attacks, and the frames that have  *)
(* a prediction, each capture having the one attached last.                *)
Label(c) ==
    LET P == {p \in DOMAIN attached : attached[p] = c}
    IN  pred[CHOOSE p \in P : \A q \in P : q <= p].label

Attacks == {c \in DOMAIN candump : candump[c].attack}
TruePositives == {c \in Attacks \cap Used : Label(c) = "anomaly"}
AttacksProcessed == Attacks \cap Used
NormalProcessed == (DOMAIN candump \ Attacks) \cap Used

Next == Tick \/ Frame \/ Detect \/ Stop \/ Attach \/ Report

Spec == Init /\ [][Next]_vars

-----------------------------------------------------------------------------
TypeOK ==
    /\ clock \in 0 .. MaxClock /\ frames \in 0 .. MaxFrames
    /\ candump \in Seq([id : Id, ts : 0 .. clock, attack : BOOLEAN, of : 1 .. frames])
    /\ socket \in Seq([id : Id, of : 1 .. frames])
    /\ pred \in Seq([id : Id, ts : 0 .. clock, label : {"anomaly", "normal"}, of : 1 .. frames])
    /\ phase \in {"record", "attach", "done"}
    /\ attached \in Seq(0 .. Len(candump)) /\ Len(attached) <= Len(pred)

(* The coverage the report gives for the captures and the one it gives for *)
(* the predictions speak of the same pairs: no prediction replaces another *)
(* on a capture, so none is counted that does not decide anything.         *)
CoverageAgrees ==
    phase = "done" =>
        Cardinality(AttacksProcessed) + Cardinality(NormalProcessed)
            = Cardinality({p \in DOMAIN attached : attached[p] # 0})

(* Looking at Reach captures on either side is enough: when no more than   *)
(* that lie within the tolerance, a prediction that stays alone has no     *)
(* capture in reach that is left over.                                     *)
NeighbourhoodSuffices ==
    \A p \in DOMAIN attached :
        LET near == {c \in DOMAIN candump : InReach(p, c)}
        IN  /\ attached[p] = 0
            /\ Cardinality(near \cap Earlier(p)) <= Reach
            /\ Cardinality(near \ Earlier(p)) <= Reach + 1
            => near \subseteq Used

(* When the frames of an identifier come further apart than twice the time *)
(* the detector takes for any of them, and candump has all of those it     *)
(* judged, every verdict counts for the frame it was passed on: it neither *)
(* credits nor blames the detector for a neighbour.                        *)
CaptureOf(p) == {c \in DOMAIN candump : candump[c].of = pred[p].of}
Lag(p) == pred[p].ts - candump[CHOOSE c \in CaptureOf(p) : TRUE].ts
Sparse(id) ==
    \A p \in DOMAIN pred :
        pred[p].id = id =>
            /\ CaptureOf(p) # {} /\ Lag(p) <= Tol
            /\ \A c, d \in SameId(p) : c < d => candump[d].ts - candump[c].ts > 2 * Lag(p)

VerdictForOwnFrame ==
    \A p \in DOMAIN attached :
        Sparse(pred[p].id) => attached[p] \in CaptureOf(p)

(* The comment over the attack evaluation: an attack frame for which the   *)
(* detector produced no prediction counts as not detected.  Stated for     *)
(* recordings in which candump has every frame the detector judged.        *)
UnprocessedIsMissed ==
    phase = "done" /\ (\A p \in DOMAIN pred : CaptureOf(p) # {}) =>
        \A c \in TruePositives : \E p \in DOMAIN pred : pred[p].of = candump[c].of
=============================================================================
