----------------------- MODULE FeatureStream_proofs -----------------------
(***************************************************************************)
(* Proofs about FeatureStream: its indices stay in range, and the circular *)
(* array and the bitmap compute what the Python list and dictionary do,    *)
(* for every window size, every table size and every sequence of calls.    *)
(*                                                                         *)
(* The last part is about HybridPredict, which takes the features over:    *)
(* for any number of classes, any scores, and any softmax that keeps their *)
(* order, firmware and dashboard give one verdict but for a near-tie or a  *)
(* form within rounding of the threshold.                                  *)
(***************************************************************************)
EXTENDS FeatureStream, HybridPredict, FiniteSetTheorems, FunctionTheorems,
        WellFoundedInduction, TLAPS

-----------------------------------------------------------------------------
(* Counting.                                                               *)

LEMMA LeastElement ==
    ASSUME NEW T, T \subseteq Nat, T # {}
    PROVE  \E i \in T : \A j \in T : ~(j < i)
<1> DEFINE Below(n) == 0 .. n - 1
           C == {Below(n) : n \in T}
<1>1. \A n \in Nat : Below(n) \in FiniteSubsetsOf(Nat)
  BY FS_Interval DEF FiniteSubsetsOf
<1>2. PICK x \in C : \A y \in C : ~(<<y, x>> \in StrictSubsetOrdering(Nat))
  <2>1. C \subseteq FiniteSubsetsOf(Nat) /\ C # {}
    BY <1>1
  <2> HIDE DEF C
  <2> QED
    BY <2>1, FS_StrictSubsetOrderingWellFounded, WFMin
<1>3. PICK i \in T : x = Below(i)
  OBVIOUS
<1>4. ASSUME NEW j \in T, j < i
      PROVE  FALSE
  <2>1. Below(j) \subseteq Below(i) /\ Below(j) # Below(i)
    <3>1. j \in Below(i) /\ j \notin Below(j)
      BY <1>4
    <3>2. i \in Nat /\ j \in Nat
      OBVIOUS
    <3>3. Below(j) \subseteq Below(i)
      BY <1>4, <3>2
    <3> QED
      BY <3>1, <3>3
  <2>2. <<Below(j), Below(i)>> \in StrictSubsetOrdering(Nat)
    BY <2>1 DEF StrictSubsetOrdering
  <2> QED
    BY <1>2, <1>3, <2>2
<1> QED
  BY <1>4

(* Counting a value at its first position counts every value once.         *)
LEMMA FirstPositions ==
    ASSUME NEW f, DOMAIN f \subseteq Nat, IsFiniteSet(DOMAIN f),
           NEW V, V \subseteq {f[i] : i \in DOMAIN f}
    PROVE  Cardinality({i \in DOMAIN f :
                          /\ f[i] \in V
                          /\ ~ \E j \in DOMAIN f : j < i /\ f[j] = f[i]})
             = Cardinality(V)
<1> DEFINE First == {i \in DOMAIN f :
                       /\ f[i] \in V
                       /\ ~ \E j \in DOMAIN f : j < i /\ f[j] = f[i]}
           g == [i \in First |-> f[i]]
<1>1. IsFiniteSet(First)
  BY FS_Subset
<1>2. g \in [First -> V]
  OBVIOUS
<1>3. ASSUME NEW i \in First, NEW j \in First, g[i] = g[j]
      PROVE  i = j
  <2>1. i \in Nat /\ j \in Nat /\ f[i] = f[j] /\ i \in DOMAIN f /\ j \in DOMAIN f
    BY <1>3
  <2>2. ~(i < j) /\ ~(j < i)
    BY <2>1
  <2> QED
    BY <2>1, <2>2
<1>4. ASSUME NEW v \in V
      PROVE  \E i \in First : g[i] = v
  <2> DEFINE At == {i \in DOMAIN f : f[i] = v}
  <2>1. At \subseteq Nat /\ At # {}
    OBVIOUS
  <2>2. PICK i \in At : \A j \in At : ~(j < i)
    BY <2>1, LeastElement
  <2>3. \A j \in DOMAIN f : f[j] = v => j \in Nat /\ i \in Nat /\ ~(j < i)
    BY <2>2
  <2>4. i \in First
    BY <2>2, <2>3
  <2> QED
    BY <2>2, <2>4
<1>5. g \in Bijection(First, V)
  <2> HIDE DEF First
  <2>1. g \in Surjection(First, V)
    BY <1>2, <1>4, Fun_IsSurj
  <2>2. g \in Injection(First, V)
    BY <1>2, <1>3, Fun_IsInj
  <2> QED
    BY <2>1, <2>2 DEF Bijection
<1>6. ExistsBijection(First, V)
  <2> HIDE DEF g
  <2> QED
    BY <1>5 DEF ExistsBijection
<1> QED
  <2> HIDE DEF First
  <2> SUFFICES Cardinality(First) = Cardinality(V)
    BY DEF First
  <2> QED
    BY <1>1, <1>6, FS_Bijection

-----------------------------------------------------------------------------
(* The bitmap.                                                             *)

LEMMA BitmapAddress ==
    ASSUME NEW c \in CanId, NEW d \in CanId
    PROVE  /\ c \div 8 \in ValidByte
           /\ c % 8 \in 0 .. 7
           /\ c \div 8 = d \div 8 /\ c % 8 = d % 8 => c = d
  BY IdsAssumption DEF CanId, ValidByte

LEMMA MarkedIsSeen ==
    ASSUME NEW bitmap \in [ValidByte -> SUBSET (0 .. 7)],
           NEW c \in CanId, NEW d \in CanId
    PROVE  payload_was_seen(mark_payload_seen(bitmap, c), d)
             <=> d = c \/ payload_was_seen(bitmap, d)
  BY BitmapAddress DEF payload_was_seen, mark_payload_seen

-----------------------------------------------------------------------------
(* Type correctness.                                                       *)

LEMMA ProcessTyped ==
    ASSUME TypeOK, NEW can_id \in CallerIds, NEW payload \in Payload,
           feature_v2_process(can_id, payload)
    PROVE  TypeOK'
<1> USE DEF Slot, CanId
<1>1. can_id \in CanId
  BY IdsAssumption DEF feature_v2_process
<1>2. id_window' \in [Slot -> CanId]
  BY <1>1, WindowAssumption DEF feature_v2_process, TypeOK
<1>3. id_window_count' \in 0 .. Window /\ id_window_next' \in Slot
  BY WindowAssumption DEF feature_v2_process, TypeOK, NextSlot
<1>4. id_window_count' < Window => id_window_next' = id_window_count'
  BY WindowAssumption DEF feature_v2_process, TypeOK, NextSlot
<1>5. last_payload' \in [CanId -> Payload \cup {ZeroPayload}]
  BY <1>1 DEF feature_v2_process, TypeOK
<1>6. last_payload_valid' \in [ValidByte -> SUBSET (0 .. 7)]
  BY <1>1, BitmapAddress DEF feature_v2_process, TypeOK, mark_payload_seen
<1> QED
  BY <1>2, <1>3, <1>4, <1>5, <1>6 DEF TypeOK, feature_v2_process

(* Every index stays inside its table.                                     *)
THEOREM StreamTyped == Spec => []TypeOK
<1>1. Init => TypeOK
  BY WindowAssumption, IdsAssumption
  DEF Init, TypeOK, ClearedWindow, ClearedPayloads, ClearedBitmap, Slot, CanId
<1>2. TypeOK /\ [Next]_vars => TypeOK'
  <2> SUFFICES ASSUME TypeOK, [Next]_vars
               PROVE  TypeOK'
    OBVIOUS
  <2>1. CASE feature_v2_reset
    BY <2>1, WindowAssumption, IdsAssumption
    DEF feature_v2_reset, TypeOK, ClearedWindow, ClearedPayloads, ClearedBitmap,
        Slot, CanId
  <2>2. ASSUME NEW can_id \in CallerIds, InvalidId(can_id)
        PROVE  TypeOK'
    BY <2>2 DEF InvalidId, TypeOK
  <2>3. ASSUME NEW can_id \in CallerIds, NEW payload \in Payload,
               feature_v2_process(can_id, payload)
        PROVE  TypeOK'
    BY <2>3, ProcessTyped
  <2>4. CASE UNCHANGED vars
    BY <2>4 DEF vars, TypeOK
  <2> QED
    BY <2>1, <2>2, <2>3, <2>4 DEF Next
<1> QED
  BY <1>1, <1>2, PTL DEF Spec

-----------------------------------------------------------------------------
(* The features.                                                           *)

(* Reading the circular array from its oldest entry visits every valid     *)
(* slot once.                                                              *)
LEMMA PositionBijection ==
    ASSUME TypeOK
    PROVE  /\ \A k \in 1 .. id_window_count : Position(k) \in 0 .. id_window_count - 1
           /\ \A k, m \in 1 .. id_window_count : Position(k) = Position(m) => k = m
           /\ \A i \in 0 .. id_window_count - 1 :
                \E k \in 1 .. id_window_count : Position(k) = i
<1> USE WindowAssumption DEF TypeOK, Position, Slot
<1>1. \A k \in 1 .. id_window_count : Position(k) \in 0 .. id_window_count - 1
  OBVIOUS
<1>2. \A k, m \in 1 .. id_window_count : Position(k) = Position(m) => k = m
  OBVIOUS
<1>3. ASSUME NEW i \in 0 .. id_window_count - 1
      PROVE  \E k \in 1 .. id_window_count : Position(k) = i
  <2>1. CASE id_window_count < Window
    <3> WITNESS i + 1 \in 1 .. id_window_count
    <3> QED
      BY <2>1
  <2>2. CASE id_window_count = Window /\ id_window_next <= i
    <3> DEFINE k == i - id_window_next + 1
    <3>1. k \in 1 .. id_window_count /\ Position(k) = i
      BY <2>2
    <3> QED
      BY <3>1
  <2>3. CASE id_window_count = Window /\ i < id_window_next
    <3> DEFINE k == i + Window - id_window_next + 1
    <3>1. k \in 1 .. id_window_count /\ Position(k) = i
      BY <2>3
    <3> QED
      BY <3>1
  <2> QED
    BY <2>1, <2>2, <2>3
<1> QED
  BY <1>1, <1>2, <1>3

(* freq_in_window: the loop over the array counts what list.count counts.  *)
LEMMA SameCount ==
    ASSUME TypeOK, NEW id
    PROVE  SameId(id_window, id_window_count, id)
             = Cardinality({k \in 1 .. id_window_count : RecentIds[k] = id})
<1> DEFINE A == {k \in 1 .. id_window_count : RecentIds[k] = id}
           B == {i \in 0 .. id_window_count - 1 : id_window[i] = id}
           g == [k \in A |-> Position(k)]
<1>1. IsFiniteSet(A)
  BY FS_Interval, FS_Subset DEF TypeOK
<1>2. \A k \in 1 .. id_window_count : RecentIds[k] = id_window[Position(k)]
  BY DEF RecentIds
<1>3. g \in Bijection(A, B)
  <2>1. g \in [A -> B]
    BY <1>2, PositionBijection
  <2>2. \A k, m \in A : g[k] = g[m] => k = m
    BY PositionBijection
  <2>3. \A i \in B : \E k \in A : g[k] = i
    BY <1>2, PositionBijection
  <2> HIDE DEF A, B, g
  <2> QED
    BY <2>1, <2>2, <2>3, Fun_IsBij
<1> HIDE DEF A, B, g
<1>4. Cardinality(B) = Cardinality(A)
  BY <1>1, <1>3, FS_Bijection DEF ExistsBijection
<1> QED
  BY <1>4 DEF A, B, SameId

(* unique_ids_in_window: first occurrences in array order are as many as   *)
(* the elements of set(id_window).                                         *)
LEMMA UniqueCount ==
    ASSUME TypeOK
    PROVE  UniqueIds(id_window, id_window_count)
             = Cardinality({RecentIds[k] : k \in 1 .. id_window_count})
<1> DEFINE f == [i \in 0 .. id_window_count - 1 |-> id_window[i]]
           V == {f[i] : i \in DOMAIN f}
           W == {RecentIds[k] : k \in 1 .. id_window_count}
           First == {i \in 0 .. id_window_count - 1 :
                       ~ \E j \in 0 .. i - 1 : id_window[j] = id_window[i]}
           FirstOf == {i \in DOMAIN f :
                         /\ f[i] \in V
                         /\ ~ \E j \in DOMAIN f : j < i /\ f[j] = f[i]}
<1>1. V = W
  <2>1. \A k \in 1 .. id_window_count : RecentIds[k] = id_window[Position(k)]
    BY DEF RecentIds
  <2> QED
    BY <2>1, PositionBijection
<1>2. First = FirstOf
  <2>1. \A i \in 0 .. id_window_count - 1 :
          (\E j \in 0 .. i - 1 : id_window[j] = id_window[i])
            <=> \E j \in 0 .. id_window_count - 1 : j < i /\ id_window[j] = id_window[i]
    BY DEF TypeOK
  <2>2. \A i \in 0 .. id_window_count - 1 : i \in First <=> i \in FirstOf
    BY <2>1
  <2> QED
    BY <2>2
<1>3. Cardinality(FirstOf) = Cardinality(V)
  <2>1. DOMAIN f \subseteq Nat /\ IsFiniteSet(DOMAIN f)
    BY FS_Interval DEF TypeOK
  <2> HIDE DEF f
  <2> QED
    BY <2>1, FirstPositions
<1> QED
  BY <1>1, <1>2, <1>3 DEF UniqueIds

(* The abstract module counts with its own copy of Cardinality. *)
LEMMA SameCardinality ==
    ASSUME NEW S
    PROVE  Python!Cardinality(S) = Cardinality(S)
  BY DEF Cardinality, Python!Cardinality, IsFiniteSet, Python!IsFiniteSet

(* entropy: counting equal bytes from their first position on gives the    *)
(* counts of np.unique.                                                    *)
LEMMA EntropyCounts ==
    ASSUME NEW p \in Payload
    PROVE  payload_entropy(p) = Python!Multiplicities(p)
<1> DEFINE Here == DOMAIN p
           Values == {p[i] : i \in Here}
           First == {i \in Here : ~ \E j \in Here : j < i /\ p[j] = p[i]}
           Count(i) == Cardinality({j \in Here : j >= i /\ p[j] = p[i]})
           Total(v) == Cardinality({i \in Here : p[i] = v})
<1>1. Here \subseteq Nat /\ IsFiniteSet(Here)
  <2>1. Here = 1 .. Length
    BY PayloadAssumption
  <2> QED
    BY <2>1, PayloadAssumption, FS_Interval
<1>2. \A i \in First : Count(i) = Total(p[i])
  <2> TAKE i \in First
  <2>1. {j \in Here : j >= i /\ p[j] = p[i]} = {j \in Here : p[j] = p[i]}
    BY <1>1
  <2> QED
    BY <2>1
<1>3. ASSUME NEW n \in 1 .. Cardinality(Here)
      PROVE  Cardinality({i \in First : Count(i) = n})
               = Cardinality({v \in Values : Total(v) = n})
  <2> DEFINE V == {v \in Values : Total(v) = n}
  <2>1. {i \in First : Count(i) = n}
          = {i \in Here : p[i] \in V /\ ~ \E j \in Here : j < i /\ p[j] = p[i]}
    BY <1>2
  <2>2. V \subseteq {p[i] : i \in DOMAIN p}
    OBVIOUS
  <2> HIDE DEF V
  <2>3. Cardinality({i \in DOMAIN p : p[i] \in V /\ ~ \E j \in DOMAIN p : j < i /\ p[j] = p[i]})
          = Cardinality(V)
    BY <1>1, <2>2, FirstPositions
  <2> QED
    BY <2>1, <2>3 DEF V
<1> QED
  BY <1>3, SameCardinality DEF payload_entropy, Python!Multiplicities

-----------------------------------------------------------------------------
(* Refinement.                                                             *)

FeatureCounts ==
    /\ RecentIds = [k \in 1 .. id_window_count |-> RecentIds[k]]
    /\ RecentIds \in Seq(CanId)
    /\ Len(RecentIds) = id_window_count
    /\ \A id \in CallerIds :
         SameId(id_window, id_window_count, id)
           = Cardinality({k \in 1 .. id_window_count : RecentIds[k] = id})
    /\ UniqueIds(id_window, id_window_count)
         = Cardinality({RecentIds[k] : k \in 1 .. id_window_count})

LEMMA FeaturesCounted == TypeOK => FeatureCounts
<1> SUFFICES ASSUME TypeOK
             PROVE  FeatureCounts
  OBVIOUS
<1>1. id_window_count \in Nat
  BY WindowAssumption DEF TypeOK
<1>2. \A k \in 1 .. id_window_count : id_window[Position(k)] \in CanId
  <2> TAKE k \in 1 .. id_window_count
  <2>1. Position(k) \in Slot
    BY PositionBijection, WindowAssumption DEF TypeOK, Slot
  <2> HIDE DEF Position
  <2> QED
    BY <2>1 DEF TypeOK
<1>3. RecentIds \in Seq(CanId) /\ Len(RecentIds) = id_window_count
  BY <1>1, <1>2 DEF RecentIds
<1>4. RecentIds = [k \in 1 .. id_window_count |-> RecentIds[k]]
  BY DEF RecentIds
<1> QED
  BY <1>3, <1>4, SameCount, UniqueCount DEF FeatureCounts

LEMMA FeaturesCountedNext == TypeOK' => FeatureCounts'
  BY FeaturesCounted, PTL

(* Overwriting the oldest slot is appending and popping the first.         *)
LEMMA RecentSlides ==
    ASSUME TypeOK, TypeOK', NEW can_id \in CallerIds, NEW payload \in Payload,
           feature_v2_process(can_id, payload)
    PROVE  RecentIds' = Python!Slide(RecentIds, can_id)
<1> DEFINE s == RecentIds
           n == id_window_count
<1>1. /\ s \in Seq(CanId) /\ Len(s) = n
      /\ n \in Nat /\ n <= Window /\ n' = IF n < Window THEN n + 1 ELSE n
  BY WindowAssumption, FeaturesCounted DEF FeatureCounts, TypeOK, feature_v2_process
<1>2. /\ RecentIds' \in Seq(CanId) /\ Len(RecentIds') = n'
  BY FeaturesCountedNext DEF FeatureCounts
<1>3. can_id \in CanId
  BY IdsAssumption DEF feature_v2_process, CanId
<1>4. CASE n < Window
  <2>1. \A k \in 1 .. n : RecentIds'[k] = s[k]
    BY <1>1, <1>4, WindowAssumption
    DEF RecentIds, Position, feature_v2_process, TypeOK, Slot, NextSlot
  <2>2. RecentIds'[n + 1] = can_id
    BY <1>1, <1>4, WindowAssumption
    DEF RecentIds, Position, feature_v2_process, TypeOK, Slot, NextSlot
  <2>3. RecentIds' = Append(s, can_id)
    <3> HIDE DEF s
    <3> QED
      BY <1>1, <1>2, <1>3, <1>4, <2>1, <2>2
  <2> QED
    BY <1>1, <1>4, <2>3 DEF Python!Slide
<1>5. CASE n = Window
  <2>1. \A k \in 1 .. n - 1 : RecentIds'[k] = s[k + 1]
    BY <1>1, <1>5, WindowAssumption
    DEF RecentIds, Position, feature_v2_process, TypeOK, Slot, NextSlot
  <2>2. RecentIds'[n] = can_id
    BY <1>1, <1>5, WindowAssumption
    DEF RecentIds, Position, feature_v2_process, TypeOK, Slot, NextSlot
  <2>3. RecentIds' = Append(Tail(s), can_id)
    <3> HIDE DEF s
    <3> QED
      BY <1>1, <1>2, <1>3, <1>5, <2>1, <2>2, WindowAssumption
  <2> QED
    BY <1>1, <1>5, <2>3 DEF Python!Slide
<1> QED
  BY <1>1, <1>4, <1>5, WindowAssumption

LEMMA ProcessIsProcess ==
    ASSUME TypeOK, TypeOK', NEW can_id \in CallerIds, NEW payload \in Payload,
           feature_v2_process(can_id, payload)
    PROVE  Python!Process(can_id, payload)
<1> DEFINE Table == [id \in Seen |-> last_payload[id]]
<1>1. can_id \in CanId /\ last_payload_valid \in [ValidByte -> SUBSET (0 .. 7)]
  BY IdsAssumption DEF feature_v2_process, CanId, TypeOK
<1>2. Seen' = Seen \cup {can_id}
  BY <1>1, MarkedIsSeen DEF Seen, feature_v2_process
<1>3. Table' = [x \in Seen \cup {can_id} |-> IF x = can_id THEN payload ELSE Table[x]]
  <2>1. \A x \in Seen' : last_payload'[x] = IF x = can_id THEN payload ELSE last_payload[x]
    BY DEF feature_v2_process, TypeOK, Seen
  <2> QED
    BY <1>2, <2>1
<1>4. payload_was_seen(last_payload_valid, can_id) <=> can_id \in Seen
  BY <1>1 DEF Seen
<1>5. out' = Python!Features(RecentIds', can_id, payload)
  <2>1. /\ SameId(id_window', id_window_count', can_id)
             = Cardinality({k \in 1 .. Len(RecentIds') : RecentIds'[k] = can_id})
        /\ UniqueIds(id_window', id_window_count')
             = Cardinality({RecentIds'[k] : k \in 1 .. Len(RecentIds')})
        /\ id_window_count' = Len(RecentIds')
    BY FeaturesCountedNext DEF FeatureCounts
  <2>2. (IF payload_was_seen(last_payload_valid, can_id)
         THEN Distance(payload, last_payload[can_id]) ELSE 0)
           = IF can_id \in DOMAIN Table THEN Distance(payload, Table[can_id]) ELSE 0
    BY <1>4
  <2> HIDE DEF Table
  <2> QED
    BY <2>1, <2>2, EntropyCounts, SameCardinality
    DEF Python!Features, feature_v2_process, Table
<1> QED
  BY <1>2, <1>3, <1>5, RecentSlides DEF Python!Process, feature_v2_process

(* The circular array and the bitmap give every caller what the list and   *)
(* the dictionary would.                                                   *)
THEOREM StreamIsPython == Spec => ImplementsPython
<1>1. Init => Python!Init
  <2> SUFFICES ASSUME Init
               PROVE  Python!Init
    OBVIOUS
  <2>1. Seen = {}
    BY IdsAssumption, BitmapAddress DEF Init, Seen, payload_was_seen, ClearedBitmap
  <2>2. RecentIds = <<>>
    BY DEF Init, RecentIds
  <2> QED
    BY <2>1, <2>2 DEF Init, Python!Init, NoFeatures, Python!NoFeatures
<1>2. TypeOK /\ TypeOK' /\ [Next]_vars => [Python!Next]_(Python!windowVars)
  <2> SUFFICES ASSUME TypeOK, TypeOK', [Next]_vars
               PROVE  [Python!Next]_(Python!windowVars)
    OBVIOUS
  <2>1. CASE feature_v2_reset
    <3>1. Seen' = {}
      BY <2>1, BitmapAddress
      DEF feature_v2_reset, Seen, payload_was_seen, ClearedBitmap
    <3>2. RecentIds' = <<>>
      BY <2>1 DEF feature_v2_reset, RecentIds
    <3> QED
      BY <2>1, <3>1, <3>2 DEF feature_v2_reset, Python!Reset, Python!Next
  <2>2. ASSUME NEW can_id \in CallerIds, InvalidId(can_id)
        PROVE  Python!Next
    <3>1. RecentIds' = RecentIds /\ Seen' = Seen
      BY <2>2 DEF InvalidId, RecentIds, Position, Seen
    <3> QED
      BY <2>2, <3>1 DEF InvalidId, Python!Refuse, Python!Next
  <2>3. ASSUME NEW can_id \in CallerIds, NEW payload \in Payload,
               feature_v2_process(can_id, payload)
        PROVE  Python!Next
    BY <2>3, ProcessIsProcess DEF Python!Next
  <2>4. CASE UNCHANGED vars
    BY <2>4 DEF vars, RecentIds, Position, Seen, Python!windowVars
  <2> QED
    BY <2>1, <2>2, <2>3, <2>4 DEF Next
<1> QED
  BY <1>1, <1>2, StreamTyped, PTL DEF Spec, Python!Spec, ImplementsPython

-----------------------------------------------------------------------------
(* The counts.                                                             *)

(* Of n entries, those that hold id add one distinct value between them.   *)
LEMMA RepeatsAreNotDistinct ==
    ASSUME NEW n \in Nat, NEW s, NEW id, NEW here \in 1 .. n, s[here] = id
    PROVE  /\ Cardinality({k \in 1 .. n : s[k] = id}) >= 1
           /\ Cardinality({s[k] : k \in 1 .. n}) >= 1
           /\ Cardinality({s[k] : k \in 1 .. n})
                + Cardinality({k \in 1 .. n : s[k] = id}) <= n + 1
<1> DEFINE A == {k \in 1 .. n : s[k] = id}
           B == {k \in 1 .. n : s[k] # id}
           V == {s[k] : k \in 1 .. n}
           W == {s[k] : k \in B}
           g == [k \in B |-> s[k]]
<1>1. /\ IsFiniteSet(A) /\ IsFiniteSet(B)
      /\ Cardinality(A) \in Nat /\ Cardinality(B) \in Nat
  <2>1. IsFiniteSet(1 .. n)
    BY FS_Interval
  <2>2. A \in SUBSET (1 .. n) /\ B \in SUBSET (1 .. n)
    OBVIOUS
  <2> HIDE DEF A, B
  <2> QED
    BY <2>1, <2>2, FS_Subset, FS_CardinalityType
<1>2. Cardinality(A) + Cardinality(B) = n
  <2>1. A \cup B = 1 .. n /\ A \cap B = {}
    OBVIOUS
  <2>2. Cardinality(1 .. n) = n
    BY FS_Interval
  <2> HIDE DEF A, B
  <2>3. Cardinality(A \cup B) = Cardinality(A) + Cardinality(B) - Cardinality(A \cap B)
    BY <1>1, FS_Union
  <2>4. Cardinality(A \cap B) = 0
    BY <2>1, FS_EmptySet, Zenon
  <2>5. Cardinality(A \cup B) = n
    BY <2>1, <2>2
  <2> QED
    BY <1>1, <2>3, <2>4, <2>5
<1>3. IsFiniteSet(W) /\ Cardinality(W) <= Cardinality(B) /\ Cardinality(W) \in Nat
  <2>1. g \in Surjection(B, W)
    BY Fun_IsSurj
  <2> HIDE DEF A, B, W, g
  <2> QED
    BY <1>1, <2>1, FS_Surjection, FS_CardinalityType
<1>4. V = W \cup {id} /\ id \notin W
  OBVIOUS
<1>5. Cardinality(V) = Cardinality(W) + 1
  <2> HIDE DEF V, W
  <2> QED
    BY <1>3, <1>4, FS_AddElement
<1>6. Cardinality(A) >= 1
  <2>1. here \in A
    OBVIOUS
  <2> HIDE DEF A
  <2> QED
    BY <1>1, <2>1, FS_EmptySet
<1> HIDE DEF A, B, V, W
<1>7. /\ Cardinality(A) >= 1 /\ Cardinality(V) >= 1
      /\ Cardinality(V) + Cardinality(A) <= n + 1
  BY <1>1, <1>2, <1>3, <1>5, <1>6
<1> QED
  BY <1>7 DEF A, V

NewestCounts ==
    \A id \in CallerIds :
        id_window_count >= 1 /\ RecentIds[id_window_count] = id =>
            /\ SameId(id_window, id_window_count, id) >= 1
            /\ UniqueIds(id_window, id_window_count) >= 1
            /\ UniqueIds(id_window, id_window_count)
                 + SameId(id_window, id_window_count, id) <= id_window_count + 1

LEMMA NewestCounted == TypeOK => NewestCounts
<1> SUFFICES ASSUME TypeOK, NEW id \in CallerIds,
                    id_window_count >= 1, RecentIds[id_window_count] = id
             PROVE  /\ SameId(id_window, id_window_count, id) >= 1
                    /\ UniqueIds(id_window, id_window_count) >= 1
                    /\ UniqueIds(id_window, id_window_count)
                         + SameId(id_window, id_window_count, id) <= id_window_count + 1
  BY DEF NewestCounts
<1> DEFINE s == RecentIds
           n == id_window_count
<1>1. n \in Nat /\ n \in 1 .. n /\ s[n] = id
  BY WindowAssumption DEF TypeOK
<1>2. /\ SameId(id_window, id_window_count, id) = Cardinality({k \in 1 .. n : s[k] = id})
      /\ UniqueIds(id_window, id_window_count) = Cardinality({s[k] : k \in 1 .. n})
  BY FeaturesCounted DEF FeatureCounts
<1> HIDE DEF s, n
<1>3. /\ Cardinality({k \in 1 .. n : s[k] = id}) >= 1
      /\ Cardinality({s[k] : k \in 1 .. n}) >= 1
      /\ Cardinality({s[k] : k \in 1 .. n})
           + Cardinality({k \in 1 .. n : s[k] = id}) <= n + 1
  BY <1>1, RepeatsAreNotDistinct
<1> QED
  BY <1>2, <1>3 DEF n

LEMMA NewestCountedNext == TypeOK' => NewestCounts'
  BY NewestCounted, PTL

(* freq_in_window and unique_ids_in_window never contradict each other.    *)
THEOREM CountsAlwaysFit == Spec => []CountsFit
<1>1. Init => CountsFit
  BY DEF Init, CountsFit
<1>2. TypeOK /\ TypeOK' /\ CountsFit /\ [Next]_vars => CountsFit'
  <2> SUFFICES ASSUME TypeOK, TypeOK', CountsFit, [Next]_vars
               PROVE  CountsFit'
    OBVIOUS
  <2>1. CASE UNCHANGED out
    BY <2>1 DEF CountsFit
  <2>2. ASSUME NEW can_id \in CallerIds, NEW payload \in Payload,
               feature_v2_process(can_id, payload)
        PROVE  CountsFit'
    <3>1. id_window_count' >= 1 /\ id_window_count' <= Window
      BY <2>2, WindowAssumption DEF TypeOK, feature_v2_process
    <3>2. RecentIds'[id_window_count'] = can_id
      <4>1. /\ RecentIds' = Python!Slide(RecentIds, can_id)
            /\ Len(RecentIds') = id_window_count'
        BY <2>2, RecentSlides, FeaturesCountedNext DEF FeatureCounts
      <4>2. RecentIds \in Seq(CanId) /\ (Len(RecentIds) < Window \/ Len(RecentIds) = Window)
        BY FeaturesCounted, WindowAssumption DEF FeatureCounts, TypeOK
      <4>3. can_id \in CanId
        BY <2>2, IdsAssumption DEF feature_v2_process, CanId
      <4> QED
        BY <4>1, <4>2, <4>3, WindowAssumption DEF Python!Slide
    <3>3. /\ out'.same = SameId(id_window', id_window_count', can_id)
          /\ out'.unique = UniqueIds(id_window', id_window_count')
          /\ out'.length = id_window_count'
      BY <2>2 DEF feature_v2_process
    <3> QED
      BY <3>1, <3>2, <3>3, NewestCountedNext DEF NewestCounts, CountsFit
  <2>3. CASE feature_v2_reset
    BY <2>1, <2>3 DEF feature_v2_reset
  <2>4. ASSUME NEW can_id \in CallerIds, InvalidId(can_id)
        PROVE  CountsFit'
    BY <2>1, <2>4 DEF InvalidId
  <2>5. CASE UNCHANGED vars
    BY <2>1, <2>5 DEF vars
  <2> QED
    BY <2>2, <2>3, <2>4, <2>5 DEF Next
<1> QED
  BY <1>1, <1>2, StreamTyped, PTL DEF Spec

-----------------------------------------------------------------------------
(* HybridPredict: can_ids_predict.                                        *)

(* The verdict stays among the six codes.                                  *)
THEOREM VerdictTyped == PredictSpec => []PredictTyped
<1>1. PredictInit => PredictTyped
  <2> SUFFICES ASSUME PredictInit PROVE PredictTyped
    OBVIOUS
  <2>1. best \in Class /\ cls \in 1 .. NumClasses /\ code \in 0 .. 5
    BY ClassesAssumption DEF PredictInit, Class
  <2> QED
    BY <2>1 DEF PredictInit, PredictTyped
<1>2. PredictTyped /\ [PredictNext]_predictVars => PredictTyped'
  <2> SUFFICES ASSUME PredictTyped, [PredictNext]_predictVars
               PROVE  PredictTyped'
    OBVIOUS
  <2>0. UNCHANGED <<scores, raw, dist2, form>>
    BY DEF PredictNext, Compare, KnownAttack, Unknown, Normal, Return, predictVars
  <2>1. /\ (scores \in [Class -> Scores] /\ raw \in Softmax(scores))'
        /\ (dist2 \in Forms /\ form \in Forms /\ Near(form, dist2))'
    BY <2>0 DEF PredictTyped
  <2>2. /\ pc' \in {"loop", "done"} /\ best' \in Class
        /\ cls' \in 1 .. NumClasses /\ code' \in 0 .. 5
    <3> USE ClassesAssumption DEF PredictTyped, Class
    <3>1. CASE Compare
      BY <3>1 DEF Compare
    <3>2. CASE KnownAttack
      BY <3>2 DEF KnownAttack, Return
    <3>3. CASE Unknown \/ Normal
      BY <3>3 DEF Unknown, Normal, Return
    <3>4. CASE UNCHANGED predictVars
      BY <3>4 DEF predictVars
    <3> QED
      BY <3>1, <3>2, <3>3, <3>4 DEF PredictNext
  <2> QED
    BY <2>1, <2>2 DEF PredictTyped
<1> QED
  BY <1>1, <1>2, PTL DEF PredictSpec

-----------------------------------------------------------------------------
(* best is the first of the largest scores looked at so far.               *)
BestSoFar ==
    /\ best < cls
    /\ \A c \in 0 .. cls - 1 : scores[c] <= scores[best]
    /\ \A c \in 0 .. cls - 1 : c < best => scores[c] < scores[best]

(* What was returned follows from best and the form.                       *)
Returned ==
    pc = "done" =>
        /\ cls = NumClasses
        /\ code = IF best # NormalIdx THEN CodeMap[best]
                  ELSE IF maha_predict(dist2) THEN 5 ELSE 0

LEMMA BestInvariant == PredictSpec => [](BestSoFar /\ Returned)
<1>1. PredictInit => BestSoFar /\ Returned
  <2> SUFFICES ASSUME PredictInit PROVE BestSoFar /\ Returned
    OBVIOUS
  <2>1. pc = "loop" /\ best = 0 /\ cls = 1 /\ scores[0] \in Int
    <3>1. 0 \in Class /\ scores \in [Class -> Scores] /\ Scores \subseteq Int
      BY ClassesAssumption, ScoresAssumption DEF PredictInit, Class
    <3>2. scores[0] \in Scores
      BY <3>1
    <3> QED
      BY <3>1, <3>2 DEF PredictInit
  <2>2. \A c \in 0 .. cls - 1 : c = 0
    BY <2>1
  <2> QED
    BY <2>1, <2>2 DEF BestSoFar, Returned
<1>2. PredictTyped /\ BestSoFar /\ Returned /\ [PredictNext]_predictVars
        => BestSoFar' /\ Returned'
  <2> SUFFICES ASSUME PredictTyped, BestSoFar, Returned, [PredictNext]_predictVars
               PROVE  BestSoFar' /\ Returned'
    OBVIOUS
  <2>1. CASE Compare
    <3>0. \A c \in Class : scores[c] \in Int
      BY ScoresAssumption DEF PredictTyped
    <3>1. /\ best \in Class /\ cls \in Class /\ cls \in Nat /\ best \in Nat /\ best < cls
          /\ scores' = scores /\ cls' = cls + 1
      BY <2>1, ClassesAssumption DEF Compare, PredictTyped, Class, BestSoFar
    <3>2. \A c \in 0 .. cls - 1 : c \in Class
      BY <3>1, ClassesAssumption DEF Class
    <3>3. /\ \A c \in 0 .. cls - 1 : scores[c] <= scores[best]
          /\ \A c \in 0 .. cls - 1 : c < best => scores[c] < scores[best]
      BY DEF BestSoFar
    <3>4. Returned'
      BY <2>1 DEF Compare, Returned
    <3>5. CASE scores[cls] > scores[best]
      <4>1. best' = cls
        BY <2>1, <3>5 DEF Compare
      <4>2. \A c \in 0 .. cls - 1 : scores[c] < scores[cls]
        BY <3>0, <3>1, <3>2, <3>3, <3>5
      <4>3. \A c \in 0 .. cls : c = cls \/ c \in 0 .. cls - 1
        BY <3>1
      <4>4. \A c \in 0 .. cls : scores[c] <= scores[cls]
        BY <3>0, <3>1, <3>2, <4>2, <4>3
      <4>5. cls' - 1 = cls /\ best' < cls' /\ scores'[best'] = scores[cls]
        BY <3>1, <4>1
      <4>6. \A c \in 0 .. cls : c < best' => scores[c] < scores[cls]
        BY <3>1, <4>1, <4>2, <4>3
      <4>7. BestSoFar'
        BY <3>1, <4>4, <4>5, <4>6 DEF BestSoFar
      <4> QED
        BY <3>4, <4>7
    <3>6. CASE ~(scores[cls] > scores[best])
      <4>1. best' = best
        BY <2>1, <3>6 DEF Compare
      <4>2. \A c \in 0 .. cls : c = cls \/ c \in 0 .. cls - 1
        BY <3>1
      <4>3. scores[cls] <= scores[best]
        BY <3>0, <3>1, <3>6
      <4>4. cls' - 1 = cls /\ best' < cls' /\ scores'[best'] = scores[best]
        BY <3>1, <4>1
      <4>5. /\ \A c \in 0 .. cls : scores[c] <= scores[best]
            /\ \A c \in 0 .. cls : c < best' => scores[c] < scores[best]
        BY <3>1, <3>3, <4>1, <4>2, <4>3
      <4>6. BestSoFar'
        BY <3>1, <4>4, <4>5 DEF BestSoFar
      <4> QED
        BY <3>4, <4>6
    <3> QED
      BY <3>5, <3>6
  <2>2. CASE KnownAttack \/ Unknown \/ Normal
    BY <2>2 DEF KnownAttack, Unknown, Normal, Return, BestSoFar, Returned
  <2>3. CASE UNCHANGED predictVars
    BY <2>3 DEF predictVars, BestSoFar, Returned
  <2> QED
    BY <2>1, <2>2, <2>3 DEF PredictNext
<1> QED
  BY <1>1, <1>2, VerdictTyped, PTL DEF PredictSpec

(* numpy's answer exists: the first class as probable as one whose score   *)
(* is the largest.                                                         *)
LEMMA ArgMaxExists ==
    ASSUME PredictTyped, NEW b \in Class, \A c \in Class : scores[c] <= scores[b]
    PROVE  /\ IsArgMax(best_idx)
           /\ raw[best_idx] = raw[b]
           /\ best_idx <= b
<1>1. /\ raw \in [Class -> Probabilities]
      /\ \A c, d \in Class : scores[c] <= scores[d] => raw[c] <= raw[d]
  BY DEF PredictTyped, Softmax
<1>2. \A c \in Class : raw[c] \in Int
  BY <1>1, ScoresAssumption
<1>3. \A c \in Class : raw[c] <= raw[b]
  BY <1>1
<1> DEFINE Top == {c \in Class : raw[c] = raw[b]}
<1>4. Top \subseteq Nat /\ b \in Top /\ Class \subseteq Int
  BY DEF Class
<1>5. PICK f \in Top : \A c \in Top : ~(c < f)
  <2> HIDE DEF Top
  <2> QED
    BY <1>4, LeastElement
<1>6. f \in Class /\ raw[f] = raw[b]
  OBVIOUS
<1>7. IsArgMax(f)
  <2>1. \A c \in Class : raw[c] <= raw[f]
    BY <1>3, <1>6
  <2>2. ASSUME NEW c \in Class, c < f
        PROVE  raw[c] < raw[f]
    <3>1. raw[c] # raw[f]
      BY <1>5, <1>6, <2>2
    <3>2. raw[c] \in Int /\ raw[f] \in Int /\ raw[c] <= raw[f]
      BY <1>2, <1>6, <2>1
    <3> QED
      BY <3>1, <3>2
  <2> QED
    BY <1>6, <2>1, <2>2 DEF IsArgMax
<1> HIDE DEF Top
<1>8. best_idx \in Class /\ IsArgMax(best_idx)
  <2> HIDE DEF IsArgMax
  <2> QED
    BY <1>6, <1>7 DEF best_idx
<1>9. raw[best_idx] = raw[b] /\ best_idx <= b
  <2>1. best_idx \in Int /\ b \in Int
    BY <1>4, <1>8
  <2>2. raw[best_idx] \in Int /\ raw[b] \in Int
    BY <1>2, <1>8
  <2>3. raw[b] <= raw[best_idx] /\ raw[best_idx] <= raw[b]
    BY <1>3, <1>8 DEF IsArgMax
  <2>4. ~(b < best_idx)
    BY <1>8, <2>2, <2>3 DEF IsArgMax
  <2> QED
    BY <2>1, <2>2, <2>3, <2>4
<1> QED
  BY <1>8, <1>9

(* Firmware and dashboard agree on every feature vector, but for a near    *)
(* tie and a form within rounding of the threshold.                        *)
THEOREM SameVerdict == PredictSpec => []AgreesUpToRounding
<1>1. PredictTyped /\ BestSoFar /\ Returned => AgreesUpToRounding
  <2> SUFFICES ASSUME PredictTyped, BestSoFar, Returned, pc = "done"
               PROVE  code = hybrid_predict \/ NearTie \/ NearThreshold
    BY DEF AgreesUpToRounding
  <2>1. /\ best \in Class /\ best \in Int
        /\ \A c \in Class : scores[c] <= scores[best]
        /\ \A c \in Class : c < best => scores[c] < scores[best]
    BY ClassesAssumption DEF PredictTyped, BestSoFar, Returned, Class
  <2>2. /\ best_idx \in Class /\ best_idx \in Int /\ best_idx <= best
        /\ raw[best_idx] = raw[best]
    <3>1. IsArgMax(best_idx) /\ raw[best_idx] = raw[best] /\ best_idx <= best
      BY <2>1, ArgMaxExists
    <3> QED
      BY <3>1 DEF IsArgMax, Class
  <2>3. CASE best_idx < best
    <3>1. scores[best_idx] < scores[best]
      BY <2>1, <2>2, <2>3
    <3>2. scores[best_idx] + Gap <= scores[best] => raw[best_idx] < raw[best]
      <4>1. \A d \in Class : (\A c \in Class : scores[c] <= scores[d])
              => \A c \in Class : scores[c] + Gap <= scores[d] => raw[c] < raw[d]
        BY DEF PredictTyped, Softmax
      <4> QED
        BY <2>1, <2>2, <4>1
    <3>3. /\ raw[best_idx] \in Int /\ raw[best] \in Int /\ Gap \in Int
          /\ scores[best_idx] \in Int /\ scores[best] \in Int
      <4>1. raw \in [Class -> Probabilities] /\ scores \in [Class -> Scores]
        BY DEF PredictTyped, Softmax
      <4>2. /\ raw[best_idx] \in Probabilities /\ raw[best] \in Probabilities
            /\ scores[best_idx] \in Scores /\ scores[best] \in Scores
        BY <2>1, <2>2, <4>1
      <4>3. /\ \A x \in Probabilities : x \in Int
            /\ \A x \in Scores : x \in Int
            /\ Gap \in Int
        BY ScoresAssumption
      <4> QED
        BY <4>2, <4>3
    <3>4. scores[best] < scores[best_idx] + Gap
      BY <2>2, <3>2, <3>3
    <3> QED
      BY <2>2, <2>3, <3>1, <3>4 DEF NearTie
  <2>4. CASE best_idx = best /\ best # NormalIdx
    BY <2>4 DEF Returned, hybrid_predict
  <2>5. CASE best_idx = best /\ best = NormalIdx
    <3>1. /\ code = IF maha_predict(dist2) THEN 5 ELSE 0
          /\ hybrid_predict = IF RootExceeds(form) THEN 5 ELSE 0
      BY <2>5 DEF Returned, hybrid_predict
    <3>2. /\ dist2 \in Int /\ form \in Int /\ Near(form, dist2)
          /\ Noise \in Nat /\ Threshold \in Nat
      BY FormsAssumption DEF PredictTyped
    <3>3. \/ maha_predict(dist2) <=> RootExceeds(form)
          \/ dist2 - Threshold <= Noise /\ Threshold - dist2 <= Noise
      BY <3>2 DEF Near, maha_predict, maha_distance2, RootExceeds
    <3> QED
      BY <2>5, <3>1, <3>3 DEF NearThreshold
  <2>6. best_idx < best \/ best_idx = best
    BY <2>1, <2>2
  <2> QED
    BY <2>3, <2>4, <2>5, <2>6
<1> QED
  BY <1>1, VerdictTyped, BestInvariant, PTL
=============================================================================
