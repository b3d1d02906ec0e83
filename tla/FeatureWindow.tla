---------------------------- MODULE FeatureWindow ----------------------------
(***************************************************************************)
(* What the V2 feature stream promises, as the Python definitions of the   *)
(* features state it (src/src/13_build_features_v2.py, PythonReference of  *)
(* src/models_c/f6_v2/test_feature_parity.py, and                          *)
(* src/dashboard/v2_stream.py, which also refuses identifiers): a list of  *)
(* the identifiers seen last and a dictionary of the last payload of each. *)
(* The mean byte and the value z-score, which are functions of the payload *)
(* alone, computed position by position, are left out.                     *)
(***************************************************************************)
EXTENDS Integers, Sequences, FiniteSets

CONSTANTS
    Window,          \* WINDOW
    NumIds,          \* identifiers below this are accepted
    CallerIds,       \* identifiers the callers pass
    Payload,         \* payloads, functions from positions to bytes
    Distance(_, _)   \* sum of the absolute differences of two payloads

VARIABLES
    recent,   \* id_window
    last,     \* last_payload_per_id
    out,      \* the features of the last accepted frame
    rc        \* 0, or -1 when the frame was refused

windowVars == <<recent, last, out, rc>>

NoFeatures == [same |-> 0, length |-> 0, unique |-> 0, classes |-> <<>>, delta |-> 0]

(* np.unique(b, return_counts=True): how many byte values occur n times.   *)
Multiplicities(p) ==
    [n \in 1 .. Cardinality(DOMAIN p) |->
        Cardinality({v \in {p[i] : i \in DOMAIN p} :
                        Cardinality({i \in DOMAIN p : p[i] = v}) = n})]

(* id_window.append(cid), then pop(0) when longer than WINDOW. *)
Slide(s, id) ==
    IF Len(s) < Window THEN Append(s, id) ELSE Append(Tail(s), id)

Features(s, id, p) ==
    [same |-> Cardinality({i \in 1 .. Len(s) : s[i] = id}),
     length |-> Len(s),
     unique |-> Cardinality({s[i] : i \in 1 .. Len(s)}),
     classes |-> Multiplicities(p),
     delta |-> IF id \in DOMAIN last THEN Distance(p, last[id]) ELSE 0]

Init ==
    /\ recent = <<>>
    /\ last = [x \in {} |-> 0]
    /\ out = NoFeatures
    /\ rc = 0

Reset ==
    /\ recent' = <<>>
    /\ last' = [x \in {} |-> 0]
    /\ UNCHANGED <<out, rc>>

Process(id, p) ==
    /\ id < NumIds
    /\ recent' = Slide(recent, id)
    /\ last' = [x \in DOMAIN last \cup {id} |-> IF x = id THEN p ELSE last[x]]
    /\ out' = Features(recent', id, p)
    /\ rc' = 0

Refuse(id) ==
    /\ id >= NumIds
    /\ rc' = -1
    /\ UNCHANGED <<recent, last, out>>

Next ==
    \/ Reset
    \/ \E id \in CallerIds, p \in Payload : Process(id, p)
    \/ \E id \in CallerIds : Refuse(id)

Spec == Init /\ [][Next]_windowVars
=============================================================================
