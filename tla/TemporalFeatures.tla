-------------------------- MODULE TemporalFeatures --------------------------
(***************************************************************************)
(* The state that the builders of the V3 and V4 features keep for each     *)
(* identifier while they go through a log, src/src/34_build_features_      *)
(* v3_temporal.py and 38_build_features_v4_byte_temporal.py: bounded       *)
(* histories and a run length, against the definitions over the whole log. *)
(*                                                                         *)
(* A payload is a number, the distance of two payloads their difference.   *)
(* Time stamps may go backwards.  The window over all identifiers and the  *)
(* features taken from it are those of FeatureWindow.                      *)
(***************************************************************************)
EXTENDS Integers, SequencesExt

CONSTANTS Ids, Payloads, Stamps,
          TEMP_WINDOW, BYTE_WINDOW,
          MaxFrames   \* bound

VARIABLES
    log,            \* the rows gone through
    last_payload,   \* of the identifiers met
    last_ts,
    delta_hist, iat_hist, run_length,   \* of V3
    payload_hist                        \* of V4

vars == <<log, last_payload, last_ts, delta_hist, iat_hist, run_length, payload_hist>>

Frames == [id : Ids, pl : Payloads, ts : Stamps]

Init ==
    /\ log = <<>> /\ last_payload = <<>> /\ last_ts = <<>>
    /\ delta_hist = [id \in Ids |-> <<>>] /\ iat_hist = [id \in Ids |-> <<>>]
    /\ run_length = [id \in Ids |-> 0]
    /\ payload_hist = [id \in Ids |-> <<>>]

-----------------------------------------------------------------------------
Distance(m, n) == IF m >= n THEN m - n ELSE n - m

(* append to a deque of bounded length.                                    *)
Push(hist, x, max) ==
    IF Len(hist) < max THEN Append(hist, x) ELSE Append(Tail(hist), x)

Known(f) == f.id \in DOMAIN last_payload
Delta(f) == IF Known(f) THEN Distance(f.pl, last_payload[f.id]) ELSE 0

(* Fault: the payload is compared with that of the frame before, whatever  *)
(* its identifier.                                                         *)
RunOnBus(f) ==
    IF Known(f) /\ f.pl = Last(log).pl THEN run_length[f.id] + 1 ELSE 1

Run(f) ==
    IF Known(f) /\ f.pl = last_payload[f.id] THEN run_length[f.id] + 1 ELSE 1

(* Fault: the interval to the last frame but that with the latest stamp. *)
ArrivalSinceLatest(f) ==
    IF ~Known(f) THEN iat_hist[f.id]
    ELSE LET seen == {log[i].ts : i \in {j \in DOMAIN log : log[j].id = f.id}}
         IN  Push(iat_hist[f.id], Max({f.ts - Max(seen), 0}), TEMP_WINDOW)

Arrival(f) ==
    IF Known(f) THEN Push(iat_hist[f.id], Max({f.ts - last_ts[f.id], 0}), TEMP_WINDOW)
    ELSE iat_hist[f.id]

Bytes(f) == Push(payload_hist[f.id], f.pl, BYTE_WINDOW)

Remember(map, id, x) == [k \in DOMAIN map \cup {id} |-> IF k = id THEN x ELSE map[k]]

Process(f) ==
    /\ Len(log) < MaxFrames /\ log' = Append(log, f)
    /\ delta_hist' = [delta_hist EXCEPT ![f.id] = Push(@, Delta(f), TEMP_WINDOW)]
    /\ run_length' = [run_length EXCEPT ![f.id] = Run(f)]
    /\ iat_hist' = [iat_hist EXCEPT ![f.id] = Arrival(f)]
    /\ payload_hist' = [payload_hist EXCEPT ![f.id] = Bytes(f)]
    /\ last_payload' = Remember(last_payload, f.id, f.pl)
    /\ last_ts' = Remember(last_ts, f.id, f.ts)

Next == \E f \in Frames : Process(f)
Spec == Init /\ [][Next]_vars

-----------------------------------------------------------------------------
(* The log of an identifier, read backwards.                               *)
Seen(id) == {i \in DOMAIN log : log[i].id = id}
Count(id) == Cardinality(Seen(id))

(* The frame of the identifier that n others of it have followed.          *)
Since(id, i) == Cardinality({j \in Seen(id) : j > i})
Ago(id, n) == log[CHOOSE i \in Seen(id) : Since(id, i) = n]

TypeOK ==
    /\ log \in Seq(Frames)
    /\ DOMAIN last_payload \subseteq Ids /\ DOMAIN last_ts = DOMAIN last_payload
    /\ \A id \in Ids :
        /\ run_length[id] \in 0 .. MaxFrames
        /\ run_length[id] = 0 <=> id \notin DOMAIN last_payload
        /\ Len(delta_hist[id]) <= TEMP_WINDOW /\ Len(payload_hist[id]) <= BYTE_WINDOW
        /\ Len(iat_hist[id]) <= TEMP_WINDOW

(* However the frames of the identifiers are mixed, and wherever the       *)
(* histories overflow: the payloads kept are the most recent ones, and so  *)
(* are the intervals and the changes from each frame of an identifier to   *)
(* the next, with a zero for the first frame.                              *)
HistoriesAreRecent == \A id \in Ids :
    LET deltas == delta_hist[id]
        iats == iat_hist[id]
        payloads == payload_hist[id]
    IN  /\ Len(payloads) = Min({Count(id), BYTE_WINDOW})
        /\ \A n \in 0 .. Len(payloads) - 1 : payloads[Len(payloads) - n] = Ago(id, n).pl
        /\ Len(deltas) = Min({Count(id), TEMP_WINDOW})
        /\ \A n \in 0 .. Len(deltas) - 1 :
             deltas[Len(deltas) - n] =
                 IF n + 1 = Count(id) THEN 0 ELSE Distance(Ago(id, n).pl, Ago(id, n + 1).pl)
        /\ Len(iats) = IF Count(id) = 0 THEN 0 ELSE Min({Count(id) - 1, TEMP_WINDOW})
        /\ \A n \in 0 .. Len(iats) - 1 :
             iats[Len(iats) - n] = Max({Ago(id, n).ts - Ago(id, n + 1).ts, 0})

(* The run length is the number of equal payloads the identifier ends on,  *)
(* not capped, and agrees with the history of its changes: all of it is    *)
(* zero just when the run reaches back past it or to the first frame.      *)
RunLengthIsRun == \A id \in Ids :
    LET r == run_length[id]
        still == \A i \in DOMAIN delta_hist[id] : delta_hist[id][i] = 0
    IN  Count(id) > 0 =>
          /\ \A n \in 0 .. r - 1 : Ago(id, n).pl = Ago(id, 0).pl
          /\ r < Count(id) => Ago(id, r).pl # Ago(id, 0).pl
          /\ still <=> r = Count(id) \/ r > TEMP_WINDOW
=============================================================================
