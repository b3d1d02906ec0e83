---------------------------- MODULE FeatureStream ----------------------------
(***************************************************************************)
(* The streaming V2 feature extractor the firmware runs,                   *)
(* src/models_c/f6_v2/feature_v2_stream.c.  It keeps the identifiers seen  *)
(* last in a circular array and the last payload of every identifier in a  *)
(* directly indexed table, with a bitmap of the entries that are valid,    *)
(* where the Python definition keeps a list and a dictionary.              *)
(***************************************************************************)
EXTENDS Integers, Sequences, FiniteSets

CONSTANTS
    Window,          \* V2_WINDOW_SIZE
    NumIds,          \* V2_NUM_CAN_IDS
    CallerIds,       \* uint16_t identifiers the callers pass
    Length,          \* bytes of a payload
    Payload,         \* payloads the callers pass
    ZeroPayload,     \* the payload of zeroes the table is cleared with
    Distance(_, _)   \* sum of the absolute differences of two payloads

ASSUME WindowAssumption == Window \in Nat /\ Window >= 1
ASSUME IdsAssumption ==
    /\ NumIds \in Nat /\ NumIds >= 8 /\ NumIds % 8 = 0
    /\ CallerIds \subseteq Nat
ASSUME PayloadAssumption ==
    /\ Length \in Nat
    /\ Payload \subseteq [1 .. Length -> 0 .. 255]
    /\ ZeroPayload \in [1 .. Length -> {0}]

VARIABLES
    id_window,
    id_window_count,
    id_window_next,
    last_payload,
    last_payload_valid,   \* a byte of the bitmap is the set of its bits
    out,                  \* the features written to the caller's array
    rc                    \* what feature_v2_process returned last

vars == <<id_window, id_window_count, id_window_next, last_payload,
          last_payload_valid, out, rc>>

Slot == 0 .. Window - 1
CanId == 0 .. NumIds - 1
ValidByte == 0 .. (NumIds \div 8) - 1

ClearedWindow == [i \in Slot |-> 0]
ClearedPayloads == [id \in CanId |-> ZeroPayload]
ClearedBitmap == [b \in ValidByte |-> {}]
NoFeatures == [same |-> 0, length |-> 0, unique |-> 0, classes |-> <<>>, delta |-> 0]

payload_was_seen(bitmap, can_id) == can_id % 8 \in bitmap[can_id \div 8]

mark_payload_seen(bitmap, can_id) ==
    [bitmap EXCEPT ![can_id \div 8] = @ \cup {can_id % 8}]

(* The log terms depend only on the counts of equal bytes.  A position is  *)
(* visited when an earlier one holds the same byte, and a byte is counted  *)
(* from its first position on.                                             *)
payload_entropy(payload) ==
    LET First == {i \in DOMAIN payload :
                    ~ \E j \in DOMAIN payload : j < i /\ payload[j] = payload[i]}
        Count(i) == Cardinality({j \in DOMAIN payload :
                                   j >= i /\ payload[j] = payload[i]})
    IN  [n \in 1 .. Cardinality(DOMAIN payload) |->
            Cardinality({i \in First : Count(i) = n})]

SameId(window, count, can_id) ==
    Cardinality({i \in 0 .. count - 1 : window[i] = can_id})

UniqueIds(window, count) ==
    Cardinality({i \in 0 .. count - 1 :
                    ~ \E j \in 0 .. i - 1 : window[j] = window[i]})

NextSlot(i) == IF i + 1 = Window THEN 0 ELSE i + 1

-----------------------------------------------------------------------------
Init ==
    /\ id_window = ClearedWindow
    /\ id_window_count = 0
    /\ id_window_next = 0
    /\ last_payload = ClearedPayloads
    /\ last_payload_valid = ClearedBitmap
    /\ out = NoFeatures
    /\ rc = 0

(* Fault: the bitmap survives the reset. *)
ResetKeepsBitmap ==
    /\ id_window' = ClearedWindow
    /\ id_window_count' = 0
    /\ id_window_next' = 0
    /\ last_payload' = ClearedPayloads
    /\ UNCHANGED <<last_payload_valid, out, rc>>

feature_v2_reset ==
    /\ id_window' = ClearedWindow
    /\ id_window_count' = 0
    /\ id_window_next' = 0
    /\ last_payload' = ClearedPayloads
    /\ last_payload_valid' = ClearedBitmap
    /\ UNCHANGED <<out, rc>>

InvalidId(can_id) ==
    /\ can_id >= NumIds
    /\ rc' = -1
    /\ UNCHANGED <<id_window, id_window_count, id_window_next, last_payload,
                   last_payload_valid, out>>

feature_v2_process(can_id, payload) ==
    /\ can_id < NumIds
    /\ id_window' = [id_window EXCEPT ![id_window_next] = can_id]
    /\ id_window_next' = NextSlot(id_window_next)
    /\ id_window_count' = IF id_window_count < Window
                          THEN id_window_count + 1 ELSE id_window_count
    /\ last_payload' = [last_payload EXCEPT ![can_id] = payload]
    /\ last_payload_valid' = mark_payload_seen(last_payload_valid, can_id)
    /\ out' = [same |-> SameId(id_window', id_window_count', can_id),
               length |-> id_window_count',
               unique |-> UniqueIds(id_window', id_window_count'),
               classes |-> payload_entropy(payload),
               delta |-> IF payload_was_seen(last_payload_valid, can_id)
                         THEN Distance(payload, last_payload[can_id]) ELSE 0]
    /\ rc' = 0

Next ==
    \/ feature_v2_reset
    \/ \E can_id \in CallerIds : InvalidId(can_id)
    \/ \E can_id \in CallerIds, payload \in Payload :
           feature_v2_process(can_id, payload)

Spec == Init /\ [][Next]_vars

-----------------------------------------------------------------------------
(* Properties.                                                             *)

(* Indices stay inside the window and the tables, and the slots written    *)
(* are the first ones until the window is full.                            *)
TypeOK ==
    /\ id_window \in [Slot -> CanId]
    /\ id_window_count \in 0 .. Window
    /\ id_window_next \in Slot
    /\ id_window_count < Window => id_window_next = id_window_count
    /\ last_payload \in [CanId -> Payload \cup {ZeroPayload}]
    /\ last_payload_valid \in [ValidByte -> SUBSET (0 .. 7)]
    /\ rc \in {0, -1}

(* The counts behind freq_in_window and unique_ids_in_window fit together: *)
(* the frame counts itself, no ratio exceeds one, and what repeats the     *)
(* frame's identifier is not distinct, before the window is full, while it *)
(* is overwritten, and after a reset.                                      *)
CountsFit ==
    out # NoFeatures =>
        /\ out.same >= 1
        /\ out.length <= Window
        /\ out.unique >= 1
        /\ out.unique + out.same <= out.length + 1

(* The circular array read from its oldest entry, and the valid part of    *)
(* the table.                                                              *)
Position(k) ==
    IF id_window_count < Window \/ id_window_next + k <= Window
    THEN (IF id_window_count < Window THEN k - 1 ELSE id_window_next + k - 1)
    ELSE id_window_next + k - 1 - Window

RecentIds == [k \in 1 .. id_window_count |-> id_window[Position(k)]]

Seen == {id \in CanId : payload_was_seen(last_payload_valid, id)}

Python == INSTANCE FeatureWindow
    WITH recent <- RecentIds,
         last <- [id \in Seen |-> last_payload[id]]

(* feature_v2_stream.h:11 and the parity test: every call has the outcome  *)
(* and the features the Python list and dictionary give, for any sequence  *)
(* of frames, refused identifiers and resets.                              *)
ImplementsPython == Python!Spec
=============================================================================
