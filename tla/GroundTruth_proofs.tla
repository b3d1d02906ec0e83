-------------------------- MODULE GroundTruth_proofs --------------------------
(***************************************************************************)
(* Theorems about GroundTruth, for all keys, tolerances, clocks and        *)
(* numbers of rows and frames.                                             *)
(***************************************************************************)
EXTENDS GroundTruth, SequenceTheorems, TLAPS

-----------------------------------------------------------------------------
(* Type correctness.  The captures grow while nothing is matched.          *)
NothingMatched == phase = "record" => matched = <<>>

TypeInv == TypeOK /\ NothingMatched

(* A matching step appends a capture that is there, or none.               *)
LEMMA MatchAppends ==
    ASSUME TypeInv, MatchRow
    PROVE  \E m \in 0 .. Len(candump) :
              /\ matched' = Append(matched, m)
              /\ m # 0 => m \in Candidates(Row) /\ Nearest(Row, m, Candidates(Row))
              /\ m = 0 => Candidates(Row) = {}
<1>1. Candidates(Row) \subseteq 1 .. Len(candump)
  BY DEF Candidates, TypeInv, TypeOK
<1>2. CASE \E c \in Candidates(Row) :
              Nearest(Row, c, Candidates(Row)) /\ matched' = Append(matched, c)
  BY <1>1, <1>2
<1>3. CASE Candidates(Row) = {} /\ matched' = Append(matched, 0)
  BY <1>3, LenProperties DEF TypeInv, TypeOK
<1> QED
  BY <1>2, <1>3 DEF MatchRow, MatchNearest

LEMMA TypeInvariant == Spec => []TypeInv
<1>1. Init => TypeInv
  <2> SUFFICES ASSUME Init PROVE TypeInv
    OBVIOUS
  <2>1. /\ gt = <<>> /\ bus = <<>> /\ candump = <<>> /\ matched = <<>>
        /\ clock = 0 /\ sending = NoKey /\ phase = "record"
    BY DEF Init
  <2> QED
    BY <2>1, EmptySeq, BoundAssumption DEF TypeInv, TypeOK, NothingMatched
<1>2. TypeInv /\ [Next]_vars => TypeInv'
  <2> SUFFICES ASSUME TypeInv, [Next]_vars
               PROVE  TypeInv'
    OBVIOUS
  <2> USE DEF TypeInv, NothingMatched
  <2>1. CASE UNCHANGED vars
    BY <2>1 DEF vars, recordVars, TypeOK
  <2>2. CASE Tick
    BY <2>2, BoundAssumption DEF Tick, Recording, recordVars, TypeOK
  <2>3. CASE Inject
    <3>1. CASE \E k \in Key : Log(k)
      <4>1. PICK k \in Key : Log(k)
        BY <3>1
      <4>2. [key |-> k, ts |-> clock] \in [key : Key, ts : 0 .. MaxClock]
        BY DEF TypeOK
      <4>3. /\ gt' \in Seq([key : Key, ts : 0 .. MaxClock])
            /\ Len(gt') = Len(gt) + 1 /\ Len(gt) \in Nat /\ Len(gt) < MaxRows
        BY <4>1, <4>2, AppendProperties, LenProperties DEF Log, TypeOK
      <4>4. matched = <<>> /\ matched' = <<>>
        BY <2>3 DEF Inject, Recording
      <4>5. Len(matched') = 0
        BY <4>4
      <4> QED
        BY <2>3, <4>1, <4>3, <4>4, <4>5, BoundAssumption DEF Inject, Recording, Log, TypeOK
    <3>2. CASE Send
      <4>1. [key |-> sending, of |-> Len(gt)] \in Frame
        BY <3>2, LenProperties DEF Send, Frame, TypeOK
      <4>2. bus' \in Seq(Frame)
        BY <3>2, <4>1, AppendProperties DEF Send, TypeOK
      <4> QED
        BY <2>3, <3>2, <4>2 DEF Inject, Recording, Send, TypeOK
    <3> QED
      BY <2>3, <3>1, <3>2 DEF Inject
  <2>4. CASE Background
    <3>1. PICK k \in Key : bus' = Append(bus, [key |-> k, of |-> 0])
      BY <2>4 DEF Background
    <3>2. [key |-> k, of |-> 0] \in Frame
      BY BoundAssumption DEF Frame
    <3>3. bus' \in Seq(Frame)
      BY <3>1, <3>2, AppendProperties DEF TypeOK
    <3> QED
      BY <2>4, <3>3 DEF Background, Recording, TypeOK
  <2>5. CASE Capture
    <3>1. Head(bus) \in Frame /\ bus' \in Seq(Frame)
      BY <2>5, HeadTailProperties DEF Capture, TypeOK
    <3>2. [key |-> Head(bus).key, of |-> Head(bus).of, ts |-> clock] \in Captured
      BY <3>1 DEF Frame, Captured, TypeOK
    <3>3. candump' \in Seq(Captured) /\ matched' = <<>>
      BY <2>5, <3>2, AppendProperties DEF Capture, Recording, TypeOK
    <3>4. matched' \in Seq(0 .. Len(candump')) /\ Len(matched') = 0
      BY <3>3, EmptySeq
    <3> QED
      BY <2>5, <3>1, <3>3, <3>4, LenProperties DEF Capture, Recording, TypeOK
  <2>6. CASE Lose
    <3>1. bus' \in Seq(Frame)
      BY <2>6, HeadTailProperties DEF Lose, TypeOK
    <3> QED
      BY <2>6, <3>1 DEF Lose, Recording, TypeOK
  <2>7. CASE Stop
    BY <2>7, EmptySeq DEF Stop, TypeOK
  <2>8. CASE MatchRow
    <3>1. PICK m \in 0 .. Len(candump) : matched' = Append(matched, m)
      BY <2>8, MatchAppends
    <3>2. matched' \in Seq(0 .. Len(candump)) /\ Len(matched') = Len(matched) + 1
      BY <3>1, AppendProperties DEF TypeOK
    <3>3. Len(matched') <= Len(gt)
      BY <2>8, <3>2 DEF MatchRow, Row
    <3> QED
      BY <2>8, <3>2, <3>3 DEF MatchRow, recordVars, TypeOK
  <2>9. CASE Report
    BY <2>9 DEF Report, recordVars, TypeOK
  <2> QED
    BY <2>1, <2>2, <2>3, <2>4, <2>5, <2>6, <2>7, <2>8, <2>9 DEF Next
<1> QED
  BY <1>1, <1>2, PTL DEF Spec

(* Every reachable state is well typed; a row is matched with a capture    *)
(* that exists.                                                            *)
THEOREM TypeCorrect == Spec => []TypeOK
<1>1. TypeInv => TypeOK
  BY DEF TypeInv
<1> QED
  BY <1>1, TypeInvariant, PTL

-----------------------------------------------------------------------------
(* The pairs.  A matching step adds one pair and touches no other.         *)
LEMMA MatchEffect ==
    ASSUME TypeInv, NEW m \in 0 .. Len(candump), matched' = Append(matched, m)
    PROVE  /\ DOMAIN matched = 1 .. Len(matched) /\ Len(matched) \in Nat
           /\ DOMAIN matched' = 1 .. Row
           /\ Row = Len(matched) + 1 /\ Row \in Nat \ {0}
           /\ \A i \in DOMAIN matched : matched'[i] = matched[i] /\ i # Row
           /\ matched'[Row] = m
           /\ Used' = Used \cup ({m} \ {0})
<1>1. matched \in Seq(0 .. Len(candump))
  BY DEF TypeInv, TypeOK
<1>2. DOMAIN matched = 1 .. Len(matched) /\ Len(matched) \in Nat
  BY <1>1, LenProperties
<1>3. /\ matched' \in Seq(0 .. Len(candump)) /\ Len(matched') = Row
      /\ \A i \in 1 .. Len(matched) : matched'[i] = matched[i]
      /\ matched'[Row] = m
  BY <1>1, AppendProperties DEF Row
<1>4. DOMAIN matched' = 1 .. Row
  BY <1>3, LenProperties
<1>5. Row = Len(matched) + 1 /\ Row \in Nat \ {0}
  BY <1>2 DEF Row
<1>6. \A i \in DOMAIN matched : matched'[i] = matched[i] /\ i # Row
  BY <1>2, <1>3, <1>5
<1>7. DOMAIN matched' = DOMAIN matched \cup {Row}
  BY <1>2, <1>4, <1>5
<1>8. Used' = Used \cup ({m} \ {0})
  BY <1>3, <1>6, <1>7 DEF Used
<1> QED
  BY <1>2, <1>3, <1>4, <1>5, <1>6, <1>8

PairsInv == OneToOne /\ UnmatchedHasNone

LEMMA PairsKept ==
    ASSUME TypeInv, PairsInv, [Next]_vars
    PROVE  PairsInv'
<1>1. CASE UNCHANGED <<gt, candump, matched>>
  BY <1>1 DEF PairsInv, OneToOne, UnmatchedHasNone, InReach, Used
<1>2. CASE Inject \/ Background \/ Capture \/ Tick \/ Lose
  <2>1. matched' = <<>>
    BY <1>2 DEF Inject, Background, Capture, Tick, Lose, Recording, TypeInv, NothingMatched
  <2>2. DOMAIN matched' = {}
    BY <2>1
  <2> QED
    BY <2>2 DEF PairsInv, OneToOne, UnmatchedHasNone
<1>3. CASE MatchRow
  <2>1. PICK m \in 0 .. Len(candump) :
           /\ matched' = Append(matched, m)
           /\ m # 0 => m \in Candidates(Row) /\ Nearest(Row, m, Candidates(Row))
           /\ m = 0 => Candidates(Row) = {}
    BY <1>3, MatchAppends
  <2>2. /\ DOMAIN matched' = 1 .. Row
        /\ DOMAIN matched = 1 .. Len(matched) /\ Len(matched) \in Nat
        /\ Row = Len(matched) + 1
        /\ \A i \in DOMAIN matched : matched'[i] = matched[i] /\ i # Row
        /\ matched'[Row] = m
        /\ Used' = Used \cup ({m} \ {0})
    BY <2>1, MatchEffect
  <2>3. gt' = gt /\ candump' = candump
    BY <1>3 DEF MatchRow, recordVars
  <2>4. \A i, c : InReach(i, c)' <=> InReach(i, c)
    BY <2>3 DEF InReach
  <2>5. \A i \in DOMAIN matched' : i # Row => i \in DOMAIN matched
    BY <2>2
  <2>6. \A i \in DOMAIN matched : matched[i] # 0 => matched[i] \in Used
    BY DEF Used
  <2>7. m # 0 => m \notin Used /\ InReach(Row, m)
    BY <2>1 DEF Candidates
  <2>8. OneToOne'
    <3> SUFFICES ASSUME NEW i \in DOMAIN matched', matched'[i] # 0
                 PROVE  /\ InReach(i, matched'[i])
                        /\ \A j \in DOMAIN matched' : matched'[j] = matched'[i] => j = i
      BY <2>4 DEF OneToOne
    <3>1. CASE i = Row
      BY <2>2, <2>5, <2>6, <2>7, <3>1
    <3>2. CASE i # Row
      <4>1. i \in DOMAIN matched /\ matched'[i] = matched[i] /\ matched[i] \in Used
        BY <2>2, <2>5, <2>6, <3>2
      <4>2. InReach(i, matched[i]) /\ \A j \in DOMAIN matched : matched[j] = matched[i] => j = i
        BY <4>1 DEF PairsInv, OneToOne
      <4> QED
        BY <2>2, <2>5, <2>7, <4>1, <4>2
    <3> QED
      BY <3>1, <3>2
  <2>9. UnmatchedHasNone'
    <3> SUFFICES ASSUME NEW i \in DOMAIN matched', matched'[i] = 0,
                        NEW c \in DOMAIN candump, c \notin Used'
                 PROVE  ~InReach(i, c)
      BY <2>3, <2>4 DEF UnmatchedHasNone
    <3>1. c \notin Used
      BY <2>2
    <3>2. CASE i = Row
      BY <2>1, <2>2, <3>1, <3>2 DEF Candidates
    <3>3. CASE i # Row
      <4>1. i \in DOMAIN matched /\ matched[i] = 0
        BY <2>2, <2>5, <3>3
      <4> QED
        BY <3>1, <4>1 DEF PairsInv, UnmatchedHasNone
    <3> QED
      BY <3>2, <3>3
  <2> QED
    BY <2>8, <2>9 DEF PairsInv
<1>4. CASE Stop \/ Report \/ UNCHANGED vars
  <2>1. UNCHANGED <<gt, candump, matched>>
    BY <1>4 DEF Stop, Report, vars, recordVars
  <2> QED
    BY <1>1, <2>1
<1> QED
  BY <1>2, <1>3, <1>4 DEF Next

LEMMA PairsInvariant == Spec => []PairsInv
<1>1. Init => PairsInv
  <2> SUFFICES ASSUME Init PROVE PairsInv
    OBVIOUS
  <2>1. DOMAIN matched = {}
    BY DEF Init
  <2> QED
    BY <2>1 DEF PairsInv, OneToOne, UnmatchedHasNone
<1>2. TypeInv /\ PairsInv /\ [Next]_vars => PairsInv'
  BY PairsKept
<1> QED
  BY <1>1, <1>2, TypeInvariant, PTL DEF Spec

(* The matching never gives a capture to two rows, nor a row a capture of  *)
(* another content or outside the tolerance: for any number of rows.       *)
THEOREM MatchingIsOneToOne == Spec => []OneToOne
<1>1. PairsInv => OneToOne
  BY DEF PairsInv
<1> QED
  BY <1>1, PairsInvariant, PTL

(* A row is left without a capture only when none in reach is left over.   *)
THEOREM MatchingIsMaximal == Spec => []UnmatchedHasNone
<1>1. PairsInv => UnmatchedHasNone
  BY DEF PairsInv
<1> QED
  BY <1>1, PairsInvariant, PTL

-----------------------------------------------------------------------------
(* The recording.  Time stamps do not decrease, an attack frame carries    *)
(* the content of a row logged before it, and attack frames keep the order *)
(* of their rows, on the bus and behind it.                                *)
Clocked ==
    /\ \A i \in DOMAIN gt : gt[i].ts <= clock
    /\ \A c \in DOMAIN candump : candump[c].ts <= clock
    /\ \A c, d \in DOMAIN candump : c < d => candump[c].ts <= candump[d].ts

FromRow(f) == f.of # 0 => f.of \in DOMAIN gt /\ f.key = gt[f.of].key

Logged ==
    /\ \A c \in DOMAIN candump : FromRow(candump[c])
    /\ \A c \in DOMAIN candump : candump[c].of # 0 => gt[candump[c].of].ts <= candump[c].ts
    /\ \A b \in DOMAIN bus : FromRow(bus[b])
    /\ sending # NoKey => Len(gt) > 0 /\ sending = gt[Len(gt)].key

Ordered ==
    /\ \A c, d \in DOMAIN candump :
          c < d /\ candump[c].of # 0 /\ candump[d].of # 0 => candump[c].of < candump[d].of
    /\ \A a, b \in DOMAIN bus :
          a < b /\ bus[a].of # 0 /\ bus[b].of # 0 => bus[a].of < bus[b].of
    /\ \A c \in DOMAIN candump, b \in DOMAIN bus :
          bus[b].of # 0 => candump[c].of < bus[b].of
    /\ sending # NoKey => /\ \A c \in DOMAIN candump : candump[c].of < Len(gt)
                          /\ \A b \in DOMAIN bus : bus[b].of < Len(gt)

RecordInv == Clocked /\ Logged /\ Ordered

(* What the types say of the elements.                                     *)
LEMMA Elements ==
    ASSUME TypeInv
    PROVE  /\ clock \in Nat /\ Len(gt) \in Nat /\ DOMAIN gt = 1 .. Len(gt)
           /\ Len(bus) \in Nat /\ DOMAIN bus = 1 .. Len(bus)
           /\ Len(candump) \in Nat /\ DOMAIN candump = 1 .. Len(candump)
           /\ \A i \in DOMAIN gt : gt[i].ts \in Nat
           /\ \A b \in DOMAIN bus : bus[b].of \in Nat
           /\ \A c \in DOMAIN candump : candump[c].of \in Nat /\ candump[c].ts \in Nat
<1>1. /\ gt \in Seq([key : Key, ts : 0 .. MaxClock])
      /\ bus \in Seq(Frame) /\ candump \in Seq(Captured) /\ clock \in 0 .. MaxClock
  BY DEF TypeInv, TypeOK
<1>2. /\ Len(gt) \in Nat /\ DOMAIN gt = 1 .. Len(gt)
      /\ \A i \in DOMAIN gt : gt[i] \in [key : Key, ts : 0 .. MaxClock]
  BY <1>1, LenProperties, ElementOfSeq
<1>3. /\ Len(bus) \in Nat /\ DOMAIN bus = 1 .. Len(bus)
      /\ \A i \in DOMAIN bus : bus[i] \in Frame
  BY <1>1, LenProperties, ElementOfSeq
<1>4. /\ Len(candump) \in Nat /\ DOMAIN candump = 1 .. Len(candump)
      /\ \A i \in DOMAIN candump : candump[i] \in Captured
  BY <1>1, LenProperties, ElementOfSeq
<1> QED
  BY <1>1, <1>2, <1>3, <1>4, BoundAssumption DEF Frame, Captured

LEMMA LogKeepsRecord ==
    ASSUME TypeInv, RecordInv, NEW k \in Key, Log(k), UNCHANGED <<clock, candump>>
    PROVE  RecordInv'
<1>1. /\ DOMAIN gt' = 1 .. Len(gt) + 1 /\ Len(gt') = Len(gt) + 1
      /\ \A i \in DOMAIN gt : gt'[i] = gt[i]
      /\ gt'[Len(gt) + 1] = [key |-> k, ts |-> clock]
  <2>1. gt \in Seq([key : Key, ts : 0 .. MaxClock]) /\ clock \in 0 .. MaxClock
    BY DEF TypeInv, TypeOK
  <2>2. gt' = Append(gt, [key |-> k, ts |-> clock])
    BY DEF Log
  <2>3. [key |-> k, ts |-> clock] \in [key : Key, ts : 0 .. MaxClock]
    BY <2>1
  <2>4. gt' \in Seq([key : Key, ts : 0 .. MaxClock])
    BY <2>1, <2>2, <2>3, AppendProperties
  <2> QED
    BY <2>1, <2>2, <2>3, <2>4, AppendProperties, LenProperties
<1>2. bus' = bus /\ candump' = candump /\ clock' = clock /\ sending' = k
  BY DEF Log
<1>3. \A i \in DOMAIN gt' : i \in DOMAIN gt \/ i = Len(gt) + 1
  BY <1>1, Elements
<1>4. Clocked'
  BY <1>1, <1>2, <1>3, Elements DEF RecordInv, Clocked
<1>5. Logged'
  <2>1. \A f : FromRow(f) => FromRow(f)'
    BY <1>1, Elements DEF FromRow
  <2> QED
    BY <1>1, <1>2, <2>1, Elements DEF RecordInv, Logged, FromRow
<1>6. Ordered'
  <2>1. /\ \A c \in DOMAIN candump : candump[c].of <= Len(gt)
        /\ \A b \in DOMAIN bus : bus[b].of <= Len(gt)
    BY Elements DEF RecordInv, Logged, FromRow
  <2>2. /\ \A c \in DOMAIN candump : candump[c].of < Len(gt')
        /\ \A b \in DOMAIN bus : bus[b].of < Len(gt')
    BY <1>1, <2>1, Elements
  <2> QED
    BY <1>2, <2>2 DEF RecordInv, Ordered
<1> QED
  BY <1>4, <1>5, <1>6 DEF RecordInv

(* A frame put on the bus: of the last row, or of none.                    *)
LEMMA FrameKeepsRecord ==
    ASSUME TypeInv, RecordInv, NEW f \in Frame, bus' = Append(bus, f),
           UNCHANGED <<clock, gt, candump>>,
           \/ f.of = 0 /\ sending' = sending
           \/ /\ sending # NoKey /\ f = [key |-> sending, of |-> Len(gt)]
              /\ sending' = NoKey
    PROVE  RecordInv'
<1>1. /\ DOMAIN bus' = 1 .. Len(bus) + 1
      /\ \A b \in DOMAIN bus : bus'[b] = bus[b]
      /\ bus'[Len(bus) + 1] = f
  <2>1. bus \in Seq(Frame)
    BY DEF TypeInv, TypeOK
  <2> QED
    BY <2>1, AppendProperties, LenProperties
<1>2. \A b \in DOMAIN bus' : b \in DOMAIN bus \/ b = Len(bus) + 1
  BY <1>1, Elements
<1>3. Clocked'
  BY DEF RecordInv, Clocked
<1>4. FromRow(f)
  BY Elements DEF RecordInv, Logged, FromRow
<1>5. Logged'
  <2>1. \A b \in DOMAIN bus' : FromRow(bus'[b])
    BY <1>1, <1>2, <1>4 DEF RecordInv, Logged
  <2> QED
    BY <2>1 DEF RecordInv, Logged, FromRow
<1>6. Ordered'
  <2>1. f.of # 0 => /\ \A b \in DOMAIN bus : bus[b].of < f.of
                    /\ \A c \in DOMAIN candump : candump[c].of < f.of
    BY DEF RecordInv, Ordered
  <2>2. \A a, b \in DOMAIN bus' :
           a < b /\ bus'[a].of # 0 /\ bus'[b].of # 0 => bus'[a].of < bus'[b].of
    BY <1>1, <1>2, <2>1, Elements DEF RecordInv, Ordered
  <2>3. \A c \in DOMAIN candump, b \in DOMAIN bus' :
           bus'[b].of # 0 => candump[c].of < bus'[b].of
    BY <1>1, <1>2, <2>1 DEF RecordInv, Ordered
  <2>4. sending' # NoKey => /\ sending' = sending /\ f.of = 0 /\ Len(gt) > 0
    BY DEF RecordInv, Logged
  <2>5. sending' # NoKey => \A b \in DOMAIN bus' : bus'[b].of < Len(gt)
    BY <1>1, <1>2, <2>4 DEF RecordInv, Ordered
  <2> QED
    BY <2>2, <2>3, <2>4, <2>5 DEF RecordInv, Ordered
<1> QED
  BY <1>3, <1>5, <1>6 DEF RecordInv

(* The first frame leaves the bus.                                         *)
LEMMA BusMoves ==
    ASSUME TypeInv, bus # <<>>, bus' = Tail(bus)
    PROVE  /\ 1 \in DOMAIN bus /\ Head(bus) = bus[1]
           /\ \A b \in DOMAIN bus' : b + 1 \in DOMAIN bus /\ bus'[b] = bus[b + 1]
           /\ \A b \in DOMAIN bus' : b \in Nat /\ b >= 1
<1>1. bus \in Seq(Frame)
  BY DEF TypeInv, TypeOK
<1>2. /\ Head(bus) = bus[1] /\ Len(bus') = Len(bus) - 1 /\ bus' \in Seq(Frame)
      /\ \A i \in 1 .. Len(bus') : bus'[i] = bus[i + 1]
  BY <1>1, HeadTailProperties
<1>3. /\ DOMAIN bus = 1 .. Len(bus) /\ Len(bus) \in Nat /\ DOMAIN bus' = 1 .. Len(bus')
      /\ Len(bus') \in Nat
  BY <1>1, <1>2, LenProperties
<1> QED
  BY <1>2, <1>3

LEMMA BusKeepsRecord ==
    ASSUME TypeInv, RecordInv, bus # <<>>, bus' = Tail(bus),
           UNCHANGED <<clock, gt, sending, candump>>
    PROVE  RecordInv'
<1>1. \A b \in DOMAIN bus' : /\ b + 1 \in DOMAIN bus /\ bus'[b] = bus[b + 1]
                             /\ b \in Nat
  BY BusMoves
<1>2. Clocked'
  BY DEF RecordInv, Clocked
<1>3. Logged'
  BY <1>1 DEF RecordInv, Logged, FromRow
<1>4. Ordered'
  <2>1. \A a, b \in DOMAIN bus' :
           a < b /\ bus'[a].of # 0 /\ bus'[b].of # 0 => bus'[a].of < bus'[b].of
    <3> SUFFICES ASSUME NEW a \in DOMAIN bus', NEW b \in DOMAIN bus', a < b,
                        bus'[a].of # 0, bus'[b].of # 0
                 PROVE  bus'[a].of < bus'[b].of
      OBVIOUS
    <3>1. a + 1 \in DOMAIN bus /\ b + 1 \in DOMAIN bus /\ a + 1 < b + 1
      BY <1>1
    <3> QED
      BY <1>1, <3>1 DEF RecordInv, Ordered
  <2> QED
    BY <1>1, <2>1 DEF RecordInv, Ordered
<1> QED
  BY <1>2, <1>3, <1>4 DEF RecordInv

LEMMA CaptureKeepsRecord ==
    ASSUME TypeInv, RecordInv, Capture
    PROVE  RecordInv'
<1> DEFINE new == [key |-> Head(bus).key, of |-> Head(bus).of, ts |-> clock]
<1>1. /\ bus # <<>> /\ bus' = Tail(bus) /\ candump' = Append(candump, new)
      /\ clock' = clock /\ gt' = gt /\ sending' = sending
  BY DEF Capture
<1>2. /\ 1 \in DOMAIN bus /\ Head(bus) = bus[1]
      /\ \A b \in DOMAIN bus' : b + 1 \in DOMAIN bus /\ bus'[b] = bus[b + 1]
      /\ \A b \in DOMAIN bus' : b \in Nat /\ b >= 1
  BY <1>1, BusMoves
<1>3. new.of = bus[1].of /\ new.key = bus[1].key /\ new.ts = clock /\ new \in Captured
  <2>1. bus[1] \in Frame /\ clock \in 0 .. MaxClock
    <3>1. bus \in Seq(Frame)
      BY DEF TypeInv, TypeOK
    <3>2. 1 \in 1 .. Len(bus)
      BY <1>2, Elements
    <3> QED
      BY <3>1, <3>2, ElementOfSeq DEF TypeInv, TypeOK
  <2> QED
    BY <1>2, <2>1 DEF Frame, Captured
<1> HIDE DEF new
<1>4. /\ DOMAIN candump' = 1 .. Len(candump) + 1
      /\ \A c \in DOMAIN candump : candump'[c] = candump[c]
      /\ candump'[Len(candump) + 1] = new
  <2>1. candump \in Seq(Captured)
    BY DEF TypeInv, TypeOK
  <2>2. candump' \in Seq(Captured)
    BY <1>1, <1>3, <2>1, AppendProperties
  <2> QED
    BY <1>1, <1>3, <2>1, <2>2, AppendProperties, LenProperties
<1>5. \A c \in DOMAIN candump' : c \in DOMAIN candump \/ c = Len(candump) + 1
  BY <1>4, Elements
<1>6. Clocked'
  BY <1>1, <1>3, <1>4, <1>5, Elements DEF RecordInv, Clocked
<1>7. Logged'
  <2>1. FromRow(new) /\ (new.of # 0 => gt[new.of].ts <= new.ts)
    BY <1>2, <1>3 DEF RecordInv, Logged, Clocked, FromRow
  <2>2. \A c \in DOMAIN candump' :
           FromRow(candump'[c]) /\ (candump'[c].of # 0 => gt[candump'[c].of].ts <= candump'[c].ts)
    BY <1>4, <1>5, <2>1 DEF RecordInv, Logged
  <2> QED
    BY <1>1, <1>2, <2>2 DEF RecordInv, Logged, FromRow
<1>8. Ordered'
  <2>1. \A c \in DOMAIN candump : new.of # 0 => candump[c].of < new.of
    BY <1>2, <1>3 DEF RecordInv, Ordered
  <2>2. \A c, d \in DOMAIN candump' :
           c < d /\ candump'[c].of # 0 /\ candump'[d].of # 0 => candump'[c].of < candump'[d].of
    BY <1>4, <1>5, <2>1, Elements DEF RecordInv, Ordered
  <2>3. \A b \in DOMAIN bus' : bus'[b].of # 0 => new.of < bus'[b].of
    <3> SUFFICES ASSUME NEW b \in DOMAIN bus', bus'[b].of # 0
                 PROVE  new.of < bus'[b].of
      OBVIOUS
    <3>1. b + 1 \in DOMAIN bus /\ 1 < b + 1 /\ bus'[b] = bus[b + 1]
      BY <1>2
    <3>2. bus[1].of # 0 => bus[1].of < bus[b + 1].of
      BY <1>2, <3>1 DEF RecordInv, Ordered
    <3>3. bus[b + 1].of \in Nat
      BY <3>1, Elements
    <3> QED
      BY <1>3, <3>1, <3>2, <3>3
  <2>4. \A c \in DOMAIN candump', b \in DOMAIN bus' :
           bus'[b].of # 0 => candump'[c].of < bus'[b].of
    BY <1>2, <1>4, <1>5, <2>3 DEF RecordInv, Ordered
  <2>5. \A a, b \in DOMAIN bus' :
           a < b /\ bus'[a].of # 0 /\ bus'[b].of # 0 => bus'[a].of < bus'[b].of
    <3> SUFFICES ASSUME NEW a \in DOMAIN bus', NEW b \in DOMAIN bus', a < b,
                        bus'[a].of # 0, bus'[b].of # 0
                 PROVE  bus'[a].of < bus'[b].of
      OBVIOUS
    <3>1. a + 1 \in DOMAIN bus /\ b + 1 \in DOMAIN bus /\ a + 1 < b + 1
      BY <1>2
    <3> QED
      BY <1>2, <3>1 DEF RecordInv, Ordered
  <2>6. sending # NoKey => /\ \A c \in DOMAIN candump' : candump'[c].of < Len(gt)
                           /\ \A b \in DOMAIN bus' : bus'[b].of < Len(gt)
    BY <1>2, <1>3, <1>4, <1>5 DEF RecordInv, Ordered
  <2> QED
    BY <1>1, <2>2, <2>4, <2>5, <2>6 DEF Ordered
<1> QED
  BY <1>6, <1>7, <1>8 DEF RecordInv

LEMMA RecordKept ==
    ASSUME TypeInv, RecordInv, [Next]_vars
    PROVE  RecordInv'
<1>1. CASE UNCHANGED recordVars /\ UNCHANGED clock
  BY <1>1 DEF recordVars, RecordInv, Clocked, Logged, FromRow, Ordered
<1>2. CASE Tick
  BY <1>2, Elements DEF Tick, recordVars, RecordInv, Clocked, Logged, FromRow, Ordered
<1>3. CASE Inject
  <2>1. CASE \E k \in Key : Log(k)
    BY <1>3, <2>1, LogKeepsRecord DEF Inject
  <2>2. CASE Send
    <3>1. [key |-> sending, of |-> Len(gt)] \in Frame
      BY <2>2, LenProperties DEF Send, Frame, TypeInv, TypeOK
    <3> QED
      BY <1>3, <2>2, <3>1, FrameKeepsRecord DEF Inject, Send
  <2> QED
    BY <1>3, <2>1, <2>2 DEF Inject
<1>4. CASE Background
  <2>1. PICK k \in Key : bus' = Append(bus, [key |-> k, of |-> 0])
    BY <1>4 DEF Background
  <2>2. [key |-> k, of |-> 0] \in Frame /\ [key |-> k, of |-> 0].of = 0
    BY BoundAssumption DEF Frame
  <2>3. UNCHANGED <<clock, gt, sending, candump>>
    BY <1>4 DEF Background
  <2> QED
    BY <2>1, <2>2, <2>3, FrameKeepsRecord
<1>5. CASE Capture
  BY <1>5, CaptureKeepsRecord
<1>6. CASE Lose
  BY <1>6, BusKeepsRecord DEF Lose
<1>7. CASE Stop
  <2>1. DOMAIN bus' = {}
    BY <1>7 DEF Stop
  <2> QED
    BY <1>7, <2>1 DEF Stop, RecordInv, Clocked, Logged, FromRow, Ordered
<1>8. CASE MatchRow \/ Report \/ UNCHANGED vars
  BY <1>1, <1>8 DEF MatchRow, Report, vars, recordVars
<1> QED
  BY <1>2, <1>3, <1>4, <1>5, <1>6, <1>7, <1>8 DEF Next

(* The log before the frame, in order: nothing about the matching.         *)
LEMMA RecordInvariant == Spec => []RecordInv
<1>1. Init => RecordInv
  <2> SUFFICES ASSUME Init PROVE RecordInv
    OBVIOUS
  <2>1. DOMAIN gt = {} /\ DOMAIN bus = {} /\ DOMAIN candump = {} /\ sending = NoKey
    BY DEF Init
  <2> QED
    BY <2>1 DEF RecordInv, Clocked, Logged, Ordered
<1>2. TypeInv /\ RecordInv /\ [Next]_vars => RecordInv'
  BY RecordKept
<1> QED
  BY <1>1, <1>2, TypeInvariant, PTL DEF Spec

-----------------------------------------------------------------------------
(* The labels.  When the rows up to one are matched, so are all captures   *)
(* of them whose content no normal frame has and which came in time.       *)
Settled ==
    /\ \A c \in DOMAIN candump :
          /\ Clean(candump[c].key) /\ Timely(candump[c].key)
          /\ candump[c].of <= Len(matched)
          => c \in Used
    /\ phase = "done" => Len(matched) = Len(gt)

(* The row's own capture is taken already or the nearest: any other that   *)
(* is left belongs to a later row and was made no earlier.                 *)
LEMMA OwnCaptureTaken ==
    ASSUME TypeInv, RecordInv, Settled, NEW m \in 0 .. Len(candump),
           m # 0 => m \in Candidates(Row) /\ Nearest(Row, m, Candidates(Row)),
           m = 0 => Candidates(Row) = {},
           NEW c \in DOMAIN candump,
           Clean(candump[c].key), Timely(candump[c].key), candump[c].of = Row
    PROVE  c \in Used \/ c = m
<1> SUFFICES ASSUME c \notin Used, c # m PROVE FALSE
  OBVIOUS
<1>1. Row \in Nat \ {0} /\ Row = Len(matched) + 1 /\ Len(matched) \in Nat
  BY LenProperties DEF Row, TypeInv, TypeOK
<1>2. Row \in DOMAIN gt /\ candump[c].key = gt[Row].key /\ gt[Row].ts <= candump[c].ts
  BY <1>1 DEF RecordInv, Logged, FromRow
<1>3. candump[c].ts - gt[Row].ts <= Tol
  BY <1>2 DEF Timely
<1>4. gt[Row].ts \in Nat /\ candump[c].ts \in Nat
  BY <1>2, Elements
<1>5. c \in Candidates(Row)
  BY <1>2, <1>3, <1>4, TolAssumption DEF Candidates, InReach, Apart
<1>6. m \in Candidates(Row) /\ Nearest(Row, m, Candidates(Row))
  BY <1>5
<1>7. m \in DOMAIN candump /\ m \notin Used /\ candump[m].key = candump[c].key
  BY <1>2, <1>6 DEF Candidates, InReach
<1>8. candump[m].of # 0 /\ candump[m].of > Len(matched)
  <2>1. Clean(candump[m].key) /\ Timely(candump[m].key) /\ candump[m].of \in Nat
    BY <1>7, Elements
  <2>2. candump[m].of # 0
    BY <1>7, <2>1 DEF Clean
  <2>3. ~(candump[m].of <= Len(matched))
    BY <1>7, <2>1 DEF Settled
  <2> QED
    BY <1>1, <2>1, <2>2, <2>3
<1>9. c < m
  <2>1. c \in Nat /\ m \in Nat /\ candump[m].of \in Nat
    BY <1>7, Elements
  <2>2. ~(m < c)
    BY <1>1, <1>7, <1>8, <2>1 DEF RecordInv, Ordered
  <2> QED
    BY <2>1, <2>2
<1>10. candump[c].ts <= candump[m].ts /\ candump[m].ts \in Nat
  BY <1>7, <1>9, Elements DEF RecordInv, Clocked
<1>11. Apart(candump[c].ts, gt[Row].ts) = candump[c].ts - gt[Row].ts
  BY <1>2, <1>4 DEF Apart
<1>12. Apart(candump[m].ts, gt[Row].ts) = candump[m].ts - gt[Row].ts
  <2>1. ~(candump[m].ts < gt[Row].ts)
    BY <1>2, <1>4, <1>10
  <2> QED
    BY <1>4, <1>10, <2>1 DEF Apart
<1>13. \/ Apart(candump[m].ts, gt[Row].ts) < Apart(candump[c].ts, gt[Row].ts)
       \/ m <= c
  BY <1>5, <1>6 DEF Nearest
<1> QED
  BY <1>4, <1>7, <1>9, <1>10, <1>11, <1>12, <1>13, Elements

LEMMA SettledKept ==
    ASSUME TypeInv, TypeInv', RecordInv, Settled, [Next]_vars
    PROVE  Settled'
<1>1. CASE Inject \/ Background \/ Capture \/ Tick \/ Lose
  <2>1. matched' = <<>> /\ Len(matched') = 0 /\ phase' = "record"
    BY <1>1 DEF Inject, Background, Capture, Tick, Lose, Recording, TypeInv, NothingMatched
  <2>2. \A c \in DOMAIN candump' : candump'[c].of \in Nat
    <3>1. candump' \in Seq(Captured)
      BY DEF TypeInv, TypeOK
    <3>2. \A c \in DOMAIN candump' : candump'[c] \in Captured
      BY <3>1, LenProperties, ElementOfSeq
    <3> QED
      BY <3>2, BoundAssumption DEF Captured
  <2> QED
    BY <2>1, <2>2 DEF Settled, Clean
<1>2. CASE MatchRow
  <2>1. PICK m \in 0 .. Len(candump) :
           /\ matched' = Append(matched, m)
           /\ m # 0 => m \in Candidates(Row) /\ Nearest(Row, m, Candidates(Row))
           /\ m = 0 => Candidates(Row) = {}
    BY <1>2, MatchAppends
  <2>2. /\ Len(matched) \in Nat /\ Row = Len(matched) + 1
        /\ Used' = Used \cup ({m} \ {0})
    BY <2>1, MatchEffect
  <2>3. Len(matched') = Row
    BY <2>1, AppendProperties DEF Row, TypeInv, TypeOK
  <2>4. gt' = gt /\ candump' = candump /\ phase' # "done"
    BY <1>2 DEF MatchRow, recordVars
  <2>5. \A k : (Clean(k)' <=> Clean(k)) /\ (Timely(k)' <=> Timely(k))
    BY <2>4 DEF Clean, Timely
  <2> SUFFICES ASSUME NEW c \in DOMAIN candump,
                      Clean(candump[c].key), Timely(candump[c].key),
                      candump[c].of <= Row
               PROVE  c \in Used'
    BY <2>3, <2>4, <2>5 DEF Settled
  <2>6. candump[c].of \in Nat /\ c \in Nat /\ c # 0
    BY Elements
  <2>7. CASE candump[c].of <= Len(matched)
    BY <2>2, <2>7 DEF Settled
  <2>8. CASE candump[c].of = Row
    BY <2>1, <2>2, <2>6, <2>8, OwnCaptureTaken
  <2> QED
    BY <2>2, <2>6, <2>7, <2>8
<1>3. CASE Stop \/ UNCHANGED vars
  BY <1>3 DEF Stop, vars, recordVars, Settled, Clean, Timely, Used
<1>4. CASE Report
  <2>1. Len(matched) = Len(gt)
    BY <1>4, LenProperties DEF Report, Row, TypeInv, TypeOK
  <2> QED
    BY <1>4, <2>1 DEF Report, recordVars, Settled, Clean, Timely, Used
<1> QED
  BY <1>1, <1>2, <1>3, <1>4 DEF Next

LEMMA SettledInvariant == Spec => []Settled
<1>1. Init => Settled
  <2> SUFFICES ASSUME Init PROVE Settled
    OBVIOUS
  <2>1. DOMAIN candump = {} /\ phase = "record"
    BY DEF Init
  <2> QED
    BY <2>1 DEF Settled
<1>2. TypeInv /\ TypeInv' /\ RecordInv /\ Settled /\ [Next]_vars => Settled'
  BY SettledKept
<1> QED
  BY <1>1, <1>2, TypeInvariant, RecordInvariant, PTL DEF Spec

(* When the matching is done, no attack frame in the capture is left to    *)
(* count as normal, provided its content is the attack's alone and the     *)
(* captures of it are within the tolerance: however many frames candump    *)
(* missed, and however close together the attack frames were.              *)
THEOREM AttacksAreLabelled == Spec => []CapturedAttacksLabelled
<1>1. TypeInv /\ RecordInv /\ Settled => CapturedAttacksLabelled
  <2> SUFFICES ASSUME TypeInv, RecordInv, Settled, phase = "done",
                      NEW c \in DOMAIN candump,
                      Clean(candump[c].key), Timely(candump[c].key)
               PROVE  c \in Used
    BY DEF CapturedAttacksLabelled
  <2>1. candump[c].of # 0
    BY DEF Clean
  <2>2. candump[c].of \in DOMAIN gt
    BY <2>1 DEF RecordInv, Logged, FromRow
  <2>3. candump[c].of <= Len(gt)
    BY <2>2, Elements
  <2> QED
    BY <2>3 DEF Settled
<1> QED
  BY <1>1, TypeInvariant, RecordInvariant, SettledInvariant, PTL
=============================================================================
