------------------------- MODULE Experiments_proofs -------------------------
(***************************************************************************)
(* Theorems about the measuring programs: for every value of the constants *)
(* the four invariants of the module Experiments hold.  One program runs at*)
(* a time and none touches the variables of another, so each has an        *)
(* invariant of its own; the parts follow one another:                     *)
(*                                                                         *)
(*   evaluation   AttachmentInv: captures, frames in the socket and verdicts*)
(*                come in the order of the frames, and no capture is attached*)
(*                to two predictions;                                      *)
(*   bursts       WindowsInv: whatever is on its way was sent since the start*)
(*                of its burst's window, and the windows are apart;        *)
(*   long run     RowsInv: the rows follow one another, and the file follows*)
(*                the rows;                                                *)
(*   features     FeatureInv: the histories and the run length, as functions*)
(*                of the log of the identifier read backwards.             *)
(*                                                                         *)
(* An instance has library operators of its own, Evaluation!Cardinality say;*)
(* SameCardinality and Counted relate them to those the theorems of the    *)
(* library are about.                                                      *)
(***************************************************************************)
EXTENDS Experiments, FiniteSetTheorems, TLAPS

-----------------------------------------------------------------------------
(***************************************************************************)
(* Part 1.  The evaluation against the independent ground truth.           *)
(***************************************************************************)

(* Frames are captured, received and judged in the order of their numbers. *)
InOrder ==
    /\ \A c, d \in 1 .. Len(candump) :
         c < d => candump[c].ts <= candump[d].ts /\ candump[c].of < candump[d].of
    /\ \A p, q \in 1 .. Len(verdicts) : p < q => verdicts[p].of < verdicts[q].of
    /\ \A i, j \in 1 .. Len(socket) : i < j => socket[i].of < socket[j].of
    /\ \A p \in 1 .. Len(verdicts), i \in 1 .. Len(socket) : verdicts[p].of < socket[i].of

(* What is written down of one frame agrees; the verdict comes after the   *)
(* capture.                                                                *)
OneFrame ==
    \A c \in 1 .. Len(candump) :
        /\ \A p \in 1 .. Len(verdicts) :
             candump[c].of = verdicts[p].of =>
                 candump[c].id = verdicts[p].id /\ candump[c].ts <= verdicts[p].ts
        /\ \A i \in 1 .. Len(socket) :
             candump[c].of = socket[i].of => candump[c].id = socket[i].id

(* A capture has one prediction at most, and one of its identifier.        *)
OneToOne ==
    /\ \A p \in 1 .. Len(attached) : attached[p] # 0 => attached[p] \in Evaluation!SameId(p)
    /\ \A p, q \in 1 .. Len(attached) : attached[p] # 0 /\ attached[p] = attached[q] => p = q
    /\ phase = "record" => attached = <<>>

EvaluationInv ==
    /\ Evaluation!TypeOK
    /\ InOrder
    /\ OneFrame
    /\ OneToOne
    /\ Evaluation!NeighbourhoodSuffices
    /\ Evaluation!VerdictForOwnFrame

AttachmentInv ==
    IF experiment = "evaluation" THEN EvaluationInv
    ELSE candump = <<>> /\ attached = <<>> /\ phase = "record"

-----------------------------------------------------------------------------
(* The cardinality of the instance is the one the library speaks of.       *)
LEMMA SameCardinality == \A S : Evaluation!Cardinality(S) = Cardinality(S)
BY DEF Evaluation!Cardinality, Cardinality

(* The rows of the recording, one by one.                                  *)
Recorded ==
    /\ clock \in Nat /\ frames \in Nat
    /\ Len(candump) \in Nat /\ Len(socket) \in Nat /\ Len(verdicts) \in Nat /\ Len(attached) \in Nat
    /\ DOMAIN candump = 1 .. Len(candump) /\ DOMAIN verdicts = 1 .. Len(verdicts)
    /\ DOMAIN attached = 1 .. Len(attached)
    /\ \A c \in 1 .. Len(candump) :
         candump[c].ts \in Nat /\ candump[c].ts <= clock /\ candump[c].of \in Nat /\ candump[c].of <= frames
    /\ \A i \in 1 .. Len(socket) : socket[i].of \in Nat /\ socket[i].of <= frames
    /\ \A p \in 1 .. Len(verdicts) :
         verdicts[p].ts \in Nat /\ verdicts[p].of \in Nat /\ verdicts[p].of <= frames
    /\ \A p \in 1 .. Len(attached) : attached[p] \in 0 .. Len(candump)
    /\ Len(attached) <= Len(verdicts)

LEMMA RecordTyped == Evaluation!TypeOK => Recorded
<1> SUFFICES ASSUME Evaluation!TypeOK
             PROVE  Recorded
  OBVIOUS
<1> DEFINE Capture == [id : Id, ts : 0 .. clock, attack : BOOLEAN, of : 1 .. frames]
           Waiting == [id : Id, of : 1 .. frames]
           Verdict == [id : Id, ts : 0 .. clock, label : {"anomaly", "normal"}, of : 1 .. frames]
<1>1. clock \in Nat /\ frames \in Nat
  BY EvaluationAssumption DEF Evaluation!TypeOK
<1>2. /\ candump \in Seq(Capture) /\ socket \in Seq(Waiting) /\ verdicts \in Seq(Verdict)
      /\ attached \in Seq(0 .. Len(candump)) /\ Len(attached) <= Len(verdicts)
  BY DEF Evaluation!TypeOK
<1>3. \A r \in Capture : r.ts \in Nat /\ r.ts <= clock /\ r.of \in Nat /\ r.of <= frames
  BY <1>1
<1>4. \A r \in Waiting : r.of \in Nat /\ r.of <= frames
  BY <1>1
<1>5. \A r \in Verdict : r.ts \in Nat /\ r.of \in Nat /\ r.of <= frames
  BY <1>1
<1> HIDE DEF Capture, Waiting, Verdict
<1>6. /\ \A c \in 1 .. Len(candump) : candump[c] \in Capture
      /\ \A i \in 1 .. Len(socket) : socket[i] \in Waiting
      /\ \A p \in 1 .. Len(verdicts) : verdicts[p] \in Verdict
      /\ \A p \in 1 .. Len(attached) : attached[p] \in 0 .. Len(candump)
  BY <1>2
<1> QED
  BY <1>1, <1>2, <1>3, <1>4, <1>5, <1>6 DEF Recorded

-----------------------------------------------------------------------------
(* The evaluation's first question: the captures within the tolerance are  *)
(* close enough to be looked at.                                           *)
LEMMA NearIsNeighbour ==
    ASSUME Recorded, InOrder, NEW p \in 1 .. Len(verdicts), NEW c \in Evaluation!SameId(p),
           Evaluation!InReach(p, c),
           LET near == {d \in 1 .. Len(candump) : Evaluation!InReach(p, d)}
           IN  /\ Cardinality(near \cap Evaluation!Earlier(p)) <= Reach
               /\ Cardinality(near \ Evaluation!Earlier(p)) <= Reach + 1
    PROVE  c \in Evaluation!Neighbourhood(p)
<1> DEFINE same == Evaluation!SameId(p)
           before == Evaluation!Earlier(p)
           near == {d \in 1 .. Len(candump) : Evaluation!InReach(p, d)}
           between == Evaluation!Between(p, c)
           t == verdicts[p].ts
<1>1. same \subseteq 1 .. Len(candump) /\ \A d \in same : d \in before <=> candump[d].ts < t
  BY DEF Evaluation!SameId, Evaluation!Earlier, Recorded
<1>2. /\ t \in Nat /\ Tol \in Nat /\ Reach \in Nat /\ Len(candump) \in Nat
      /\ \A d \in 1 .. Len(candump) : candump[d].ts \in Nat
  BY EvaluationAssumption DEF Recorded
<1>3. \A d \in same : d \in near <=> Evaluation!Apart(candump[d].ts, t) <= Tol
  BY <1>1 DEF Evaluation!InReach
<1>4. near \subseteq same /\ before \subseteq same
  BY DEF Evaluation!InReach, Evaluation!Earlier
<1>5. \A d, e \in same : d < e => candump[d].ts <= candump[e].ts
  BY <1>1 DEF InOrder
<1>6. c \in same /\ c \in near
  BY <1>1, <1>3 DEF Evaluation!InReach
<1>7. IsFiniteSet(near)
  <2>1. IsFiniteSet(1 .. Len(candump))
    BY <1>2, FS_Interval
  <2> QED
    BY <2>1, FS_Subset
<1>8. c \in Evaluation!Neighbourhood(p) <=>
        Cardinality(between) < IF c \in before THEN Reach ELSE Reach + 1
  BY SameCardinality DEF Evaluation!Neighbourhood
<1>12. \A d \in between : d \in same /\ ((d > c /\ d \in before) \/ (d < c /\ d \notin before))
  BY DEF Evaluation!Between
<1>9. Cardinality(near \cap before) <= Reach /\ Cardinality(near \ before) <= Reach + 1
  OBVIOUS
<1> HIDE DEF same, before, near, between, t
<1>10. CASE c \in before
  <2>1. candump[c].ts < t
    BY <1>1, <1>6, <1>10
  <2>2. \A d \in between : d \in near \cap before /\ d # c
    <3> SUFFICES ASSUME NEW d \in between
                 PROVE  d \in near \cap before /\ d # c
      OBVIOUS
    <3>1. d \in same /\ d \in 1 .. Len(candump) /\ c \in 1 .. Len(candump)
      BY <1>1, <1>6, <1>12
    <3>2. CASE d > c /\ d \in before
      <4>1. candump[d].ts < t /\ candump[c].ts <= candump[d].ts
        BY <3>1, <3>2, <1>1, <1>5, <1>6
      <4>2. Evaluation!Apart(candump[d].ts, t) <= Tol
        BY <2>1, <4>1, <3>1, <1>2, <1>3, <1>6 DEF Evaluation!Apart
      <4> QED
        BY <4>2, <3>1, <3>2, <1>3
    <3>3. CASE d < c /\ d \notin before
      <4>1. ~(candump[d].ts < t) /\ candump[d].ts <= candump[c].ts
        BY <3>1, <3>3, <1>1, <1>5, <1>6
      <4> QED
        BY <2>1, <4>1, <3>1, <1>2
    <3> QED
      BY <1>12, <3>2, <3>3
  <2>3. IsFiniteSet(near \cap before) /\ c \in near \cap before
    BY <1>6, <1>7, <1>10, FS_Subset
  <2> DEFINE others == (near \cap before) \ {c}
  <2>4. IsFiniteSet(others) /\ Cardinality(others) = Cardinality(near \cap before) - 1
    BY <2>3, FS_RemoveElement
  <2>5. between \in SUBSET others
    BY <2>2
  <2>6. Cardinality(between) <= Cardinality(others) /\ Cardinality(between) \in Nat
    BY <2>4, <2>5, FS_Subset, FS_CardinalityType
  <2>7. Cardinality(near \cap before) \in Nat
    BY <2>3, FS_CardinalityType
  <2> QED
    BY <2>4, <2>6, <2>7, <1>2, <1>8, <1>9, <1>10
<1>11. CASE c \notin before
  <2>1. t <= candump[c].ts
    BY <1>1, <1>2, <1>6, <1>11
  <2>2. \A d \in between : d \in near \ before /\ d # c
    <3> SUFFICES ASSUME NEW d \in between
                 PROVE  d \in near \ before /\ d # c
      OBVIOUS
    <3>1. d \in same /\ d \in 1 .. Len(candump) /\ c \in 1 .. Len(candump)
      BY <1>1, <1>6, <1>12
    <3>2. CASE d > c /\ d \in before
      <4>1. candump[d].ts < t /\ candump[c].ts <= candump[d].ts
        BY <3>1, <3>2, <1>1, <1>5, <1>6
      <4> QED
        BY <2>1, <4>1, <3>1, <1>2
    <3>3. CASE d < c /\ d \notin before
      <4>1. t <= candump[d].ts /\ candump[d].ts <= candump[c].ts
        BY <3>1, <3>3, <1>1, <1>2, <1>5, <1>6
      <4>2. Evaluation!Apart(candump[d].ts, t) <= Tol
        BY <2>1, <4>1, <3>1, <1>2, <1>3, <1>6 DEF Evaluation!Apart
      <4> QED
        BY <4>2, <3>1, <3>3, <1>3
    <3> QED
      BY <1>12, <3>2, <3>3
  <2>3. IsFiniteSet(near \ before) /\ c \in near \ before
    BY <1>6, <1>7, <1>11, FS_Subset
  <2> DEFINE others == (near \ before) \ {c}
  <2>4. IsFiniteSet(others) /\ Cardinality(others) = Cardinality(near \ before) - 1
    BY <2>3, FS_RemoveElement
  <2>5. between \in SUBSET others
    BY <2>2
  <2>6. Cardinality(between) <= Cardinality(others) /\ Cardinality(between) \in Nat
    BY <2>4, <2>5, FS_Subset, FS_CardinalityType
  <2>7. Cardinality(near \ before) \in Nat
    BY <2>3, FS_CardinalityType
  <2> QED
    BY <2>4, <2>6, <2>7, <1>2, <1>8, <1>9, <1>11
<1> QED
  BY <1>10, <1>11

(* What is more than twice a lag away from one time is further than the    *)
(* lag from a time that is later by it.                                    *)
LEMMA FurtherThanLag ==
    ASSUME NEW own \in Nat, NEW t \in Nat, NEW x \in Nat, own <= t,
           own - x > 2 * (t - own) \/ x - own > 2 * (t - own)
    PROVE  /\ t - own < Evaluation!Apart(x, t)
           /\ x < own => x < t
           /\ x > own => x > t
BY DEF Evaluation!Apart

(* The second: when frames are sparse, the capture of the frame itself is  *)
(* the nearest one, and in the neighbourhood.                              *)
LEMMA OwnCaptureNearest ==
    ASSUME Recorded, InOrder, OneFrame, NEW p \in 1 .. Len(verdicts),
           Evaluation!Sparse(verdicts[p].id)
    PROVE  \E own \in 1 .. Len(candump) :
             /\ Evaluation!CaptureOf(p) = {own}
             /\ own \in Evaluation!Neighbourhood(p)
             /\ Evaluation!InReach(p, own)
             /\ \A c \in Evaluation!SameId(p) \ {own} :
                  Evaluation!Apart(candump[own].ts, verdicts[p].ts)
                      < Evaluation!Apart(candump[c].ts, verdicts[p].ts)
<1> DEFINE same == Evaluation!SameId(p)
           before == Evaluation!Earlier(p)
           own == CHOOSE c \in Evaluation!CaptureOf(p) : TRUE
           t == verdicts[p].ts
           lag == t - candump[own].ts
<1>1. same \subseteq 1 .. Len(candump) /\ \A d \in same : d \in before <=> candump[d].ts < t
  BY DEF Evaluation!SameId, Evaluation!Earlier, Recorded
<1>2. /\ t \in Nat /\ Tol \in Nat /\ Reach \in Nat \ {0} /\ Len(candump) \in Nat
      /\ \A d \in 1 .. Len(candump) : candump[d].ts \in Nat /\ candump[d].of \in Nat
  BY EvaluationAssumption DEF Recorded
<1>3. /\ Evaluation!CaptureOf(p) # {} /\ lag <= Tol
      /\ \A c, d \in same : c < d => candump[d].ts - candump[c].ts > 2 * lag
  BY DEF Evaluation!Sparse, Evaluation!Lag, Recorded
<1>4. own \in Evaluation!CaptureOf(p)
  BY <1>3
<1>5. own \in 1 .. Len(candump) /\ candump[own].of = verdicts[p].of
  BY <1>4 DEF Evaluation!CaptureOf, Recorded
<1>6. Evaluation!CaptureOf(p) = {own}
  <2>1. ASSUME NEW c \in Evaluation!CaptureOf(p)
        PROVE  c = own
    <3>1. c \in 1 .. Len(candump) /\ candump[c].of = candump[own].of
      BY <1>5 DEF Evaluation!CaptureOf, Recorded
    <3> QED
      BY <3>1, <1>2, <1>5 DEF InOrder
  <2> QED
    BY <1>4, <2>1
<1>7. own \in same /\ candump[own].ts <= t
  BY <1>5 DEF OneFrame, Evaluation!SameId, Recorded
<1> HIDE DEF same, before, own, t
<1>8. lag \in Nat
  BY <1>2, <1>5, <1>7
<1>9. Evaluation!Apart(candump[own].ts, t) = lag
  BY <1>2, <1>5, <1>7 DEF Evaluation!Apart
<1>10. Evaluation!InReach(p, own)
  BY <1>3, <1>7, <1>9 DEF Evaluation!InReach, same, t
<1>11. own \in Evaluation!Neighbourhood(p)
  <2>1. Evaluation!Between(p, own) = {}
    <3> SUFFICES ASSUME NEW d \in same, (d > own /\ d \in before) \/ (d < own /\ d \notin before)
                 PROVE  FALSE
      BY DEF Evaluation!Between, same, before
    <3>1. /\ d \in 1 .. Len(candump) /\ candump[d].ts \in Nat /\ candump[own].ts \in Nat
          /\ d \in before <=> candump[d].ts < t
      BY <1>1, <1>2, <1>5
    <3>2. CASE d > own /\ d \in before
      <4>1. candump[d].ts - candump[own].ts > 2 * lag
        BY <3>2, <1>3, <1>7
      <4>2. candump[d].ts > candump[own].ts
        BY <4>1, <3>1, <1>8
      <4>3. candump[d].ts > t
        <5> DEFINE x == candump[d].ts
                   o == candump[own].ts
        <5>1. /\ x \in Nat /\ o \in Nat /\ t \in Nat /\ o <= t
              /\ x - o > 2 * (t - o) /\ x > o
          BY <4>1, <4>2, <3>1, <1>2, <1>7 DEF lag, t
        <5> HIDE DEF x, o, t
        <5>2. x > t
          BY <5>1, FurtherThanLag
        <5> QED
          BY <5>2 DEF x
      <4> QED
        BY <3>1, <3>2, <4>3, <1>2
    <3>3. CASE d < own /\ d \notin before
      <4>1. candump[own].ts - candump[d].ts > 2 * lag
        BY <3>3, <1>3, <1>7
      <4>2. candump[d].ts < candump[own].ts
        BY <4>1, <3>1, <1>8
      <4>3. candump[d].ts < t
        BY <4>2, <3>1, <1>2, <1>7
      <4> QED
        BY <3>1, <3>3, <4>3
    <3> QED
      BY <3>2, <3>3
  <2>2. Evaluation!Cardinality(Evaluation!Between(p, own)) = 0
    BY <2>1, SameCardinality, FS_EmptySet
  <2> QED
    BY <2>2, <1>2, <1>7 DEF Evaluation!Neighbourhood, same
<1>12. ASSUME NEW c \in same \ {own}
       PROVE  lag < Evaluation!Apart(candump[c].ts, t)
  <2>1. /\ candump[c].ts \in Nat /\ candump[own].ts \in Nat /\ c \in Nat /\ own \in Nat /\ c # own
        /\ t \in Nat /\ candump[own].ts <= t
    BY <1>1, <1>2, <1>5, <1>7
  <2>2. CASE c < own
    <3>1. candump[own].ts - candump[c].ts > 2 * lag
      BY <2>2, <1>3, <1>7
    <3> DEFINE x == candump[c].ts
               o == candump[own].ts
    <3>2. x \in Nat /\ o \in Nat /\ t \in Nat /\ o <= t
      BY <2>1
    <3>3. o - x > 2 * (t - o) \/ x - o > 2 * (t - o)
      BY <3>1
    <3> HIDE DEF x, o
    <3>4. t - o < Evaluation!Apart(x, t)
      BY <3>2, <3>3, FurtherThanLag
    <3> QED
      BY <3>4 DEF x, o
  <2>3. CASE own < c
    <3>1. candump[c].ts - candump[own].ts > 2 * lag
      BY <2>3, <1>3, <1>7
    <3> DEFINE x == candump[c].ts
               o == candump[own].ts
    <3>2. x \in Nat /\ o \in Nat /\ t \in Nat /\ o <= t
      BY <2>1
    <3>3. o - x > 2 * (t - o) \/ x - o > 2 * (t - o)
      BY <3>1
    <3> HIDE DEF x, o
    <3>4. t - o < Evaluation!Apart(x, t)
      BY <3>2, <3>3, FurtherThanLag
    <3> QED
      BY <3>4 DEF x, o
  <2> QED
    BY <2>1, <2>2, <2>3
<1> QED
  BY <1>5, <1>6, <1>9, <1>10, <1>11, <1>12 DEF same, t

(* The third: the predictions that are attached and the captures they are  *)
(* attached to are as many.                                                *)
LEMMA CoverageOfPairs ==
    ASSUME Recorded, OneToOne
    PROVE  Evaluation!CoverageAgrees
<1> DEFINE A == {p \in 1 .. Len(attached) : attached[p] # 0}
           used == Evaluation!Used
           f == [p \in A |-> attached[p]]
           att == Evaluation!AttacksProcessed
           nor == Evaluation!NormalProcessed
<1>1. used = {attached[p] : p \in 1 .. Len(attached)} \ {0}
  BY DEF Evaluation!Used, Recorded
<1>2. IsFiniteSet(A)
  <2>1. IsFiniteSet(1 .. Len(attached))
    BY FS_Interval DEF Recorded
  <2> QED
    BY <2>1, FS_Subset
<1>3. f \in Bijection(A, used)
  <2>1. f \in [A -> used]
    BY <1>1
  <2>2. \A p, q \in A : f[p] = f[q] => p = q
    BY DEF OneToOne
  <2>3. \A c \in used : \E p \in A : f[p] = c
    BY <1>1
  <2> QED
    BY <2>1, <2>2, <2>3 DEF Bijection, Injection, Surjection, IsInjective
<1>4. IsFiniteSet(used) /\ Cardinality(used) = Cardinality(A)
  BY <1>2, <1>3, FS_Bijection DEF ExistsBijection
<1>5. used \subseteq DOMAIN candump
  BY <1>1 DEF Recorded
<1>6. att \cup nor = used /\ att \cap nor = {}
  BY <1>5 DEF Evaluation!AttacksProcessed, Evaluation!NormalProcessed
<1> HIDE DEF att, nor, used
<1>7. IsFiniteSet(att) /\ IsFiniteSet(nor)
  BY <1>4, <1>6, FS_Subset
<1>8. Cardinality(att) + Cardinality(nor) = Cardinality(used)
  <2>1. Cardinality(att \cup nor) = Cardinality(att) + Cardinality(nor) - Cardinality(att \cap nor)
    BY <1>7, FS_Union
  <2>2. Cardinality(att \cap nor) = 0
    BY <1>6, FS_EmptySet
  <2>3. Cardinality(att) \in Nat /\ Cardinality(nor) \in Nat
    BY <1>7, FS_CardinalityType
  <2> QED
    BY <1>6, <2>1, <2>2, <2>3
<1>9. DOMAIN attached = 1 .. Len(attached)
  BY DEF Recorded
<1> QED
  BY <1>4, <1>8, <1>9, SameCardinality DEF Evaluation!CoverageAgrees, att, nor

-----------------------------------------------------------------------------
(* The recording.                                                          *)
Capture(t, n) == [id : Id, ts : 0 .. t, attack : BOOLEAN, of : 1 .. n]
Received(n) == [id : Id, of : 1 .. n]
Verdict(t, n) == [id : Id, ts : 0 .. t, label : {"anomaly", "normal"}, of : 1 .. n]

(* The rows stay typed as time goes on and frames are numbered.            *)
LEMMA RowsStayTyped ==
    ASSUME NEW t \in Nat, NEW u \in Nat, NEW n \in Nat, NEW m \in Nat, t <= u, n <= m
    PROVE  /\ Seq(Capture(t, n)) \subseteq Seq(Capture(u, m))
           /\ Seq(Received(n)) \subseteq Seq(Received(m))
           /\ Seq(Verdict(t, n)) \subseteq Seq(Verdict(u, m))
<1>1. 0 .. t \subseteq 0 .. u /\ 1 .. n \subseteq 1 .. m
  OBVIOUS
<1>2. Capture(t, n) \subseteq Capture(u, m) /\ Received(n) \subseteq Received(m)
  BY <1>1 DEF Capture, Received
<1>3. Verdict(t, n) \subseteq Verdict(u, m)
  BY <1>1 DEF Verdict
<1> QED
  BY <1>2, <1>3

RecordedRows(t, n) ==
    candump \in Seq(Capture(t, n)) /\ socket \in Seq(Received(n)) /\ verdicts \in Seq(Verdict(t, n))

RecordState ==
    /\ clock \in 0 .. RecordingClock /\ frames \in 0 .. MaxRecorded
    /\ RecordedRows(clock, frames)
    /\ phase \in {"record", "attach", "done"}
    /\ attached \in Seq(0 .. Len(candump)) /\ Len(attached) <= Len(verdicts)

LEMMA StateTyped == Evaluation!TypeOK <=> RecordState
BY Zenon DEF Evaluation!TypeOK, RecordState, RecordedRows, Capture, Received, Verdict

(* Before anything is attached there is nothing to say of it.              *)
Unattached == attached = <<>>

AttachedWell ==
    /\ OneToOne
    /\ Evaluation!NeighbourhoodSuffices
    /\ Evaluation!VerdictForOwnFrame

LEMMA NothingAttached == Unattached => AttachedWell
BY DEF Unattached, AttachedWell, OneToOne, Evaluation!NeighbourhoodSuffices,
   Evaluation!VerdictForOwnFrame

LEMMA AttachmentInit == Init => AttachmentInv
<1> SUFFICES ASSUME Init
             PROVE  AttachmentInv
  OBVIOUS
<1>1. /\ clock = 0 /\ frames = 0 /\ candump = <<>> /\ socket = <<>> /\ verdicts = <<>>
      /\ phase = "record" /\ attached = <<>>
  BY DEF Init, Evaluation!Init
<1>2. RecordState
  BY <1>1, EvaluationAssumption DEF RecordState, RecordedRows
<1>3. InOrder /\ OneFrame
  BY <1>1 DEF InOrder, OneFrame
<1> QED
  BY <1>1, <1>2, <1>3, StateTyped, NothingAttached
     DEF AttachmentInv, EvaluationInv, Unattached, AttachedWell

(* A step of the recording attaches nothing: what it has to keep.          *)
LEMMA RecordStep ==
    ASSUME EvaluationInv, phase = "record", attached' = attached,
           phase' \in {"record", "attach", "done"},
           clock' \in 0 .. RecordingClock, frames' \in 0 .. MaxRecorded,
           RecordedRows(clock, frames)', InOrder', OneFrame'
    PROVE  EvaluationInv'
<1>1. Unattached'
  BY DEF EvaluationInv, OneToOne, Unattached
<1>2. AttachedWell'
  BY <1>1, NothingAttached, PTL
<1>3. RecordState'
  BY <1>1 DEF RecordState, RecordedRows, Unattached
<1>4. Evaluation!TypeOK'
  BY <1>3, StateTyped, PTL
<1> QED
  BY <1>2, <1>4 DEF EvaluationInv, AttachedWell

LEMMA TickRecord ==
    ASSUME EvaluationInv, Evaluation!Tick
    PROVE  EvaluationInv'
<1>1. /\ phase = "record" /\ clock < RecordingClock /\ clock' = clock + 1
      /\ UNCHANGED <<phase, attached, frames, candump, socket, verdicts>>
  BY DEF Evaluation!Tick, Evaluation!Recording
<1>2. RecordState /\ clock \in Nat /\ frames \in Nat
  BY StateTyped, EvaluationAssumption DEF EvaluationInv, RecordState
<1>3. RecordedRows(clock, frames)'
  <2>1. RecordedRows(clock + 1, frames)
    BY <1>2, RowsStayTyped DEF RecordedRows, RecordState
  <2> QED
    BY <1>1, <2>1 DEF RecordedRows
<1>4. InOrder' /\ OneFrame'
  BY <1>1 DEF EvaluationInv, InOrder, OneFrame
<1> QED
  BY <1>1, <1>2, <1>3, <1>4, RecordStep, EvaluationAssumption DEF RecordState

(* A frame is captured, received or both.                                  *)
LEMMA FrameRecord ==
    ASSUME EvaluationInv, Evaluation!Frame
    PROVE  EvaluationInv'
<1> DEFINE n == frames + 1
<1>1. PICK id \in Id, attack \in BOOLEAN, captured \in BOOLEAN, received \in BOOLEAN :
        /\ candump' = IF captured
                      THEN Append(candump, [id |-> id, ts |-> clock, attack |-> attack, of |-> n])
                      ELSE candump
        /\ socket' = IF received THEN Append(socket, [id |-> id, of |-> n]) ELSE socket
  BY DEF Evaluation!Frame
<1>2. /\ phase = "record" /\ frames < MaxRecorded /\ frames' = n
      /\ UNCHANGED <<phase, attached, clock, verdicts>>
  BY DEF Evaluation!Frame, Evaluation!Recording
<1>3. RecordState /\ clock \in Nat /\ frames \in Nat
  BY StateTyped, EvaluationAssumption DEF EvaluationInv, RecordState
<1>4. RecordedRows(clock, n)
  BY <1>3, RowsStayTyped DEF RecordedRows, RecordState
<1>5. PICK r \in Capture(clock, n) : r = [id |-> id, ts |-> clock, attack |-> attack, of |-> n]
  <2>1. clock \in 0 .. clock /\ n \in 1 .. n
    BY <1>3
  <2>2. [id |-> id, ts |-> clock, attack |-> attack, of |-> n] \in Capture(clock, n)
    BY <2>1 DEF Capture
  <2> QED
    BY <2>2
<1>6. PICK w \in Received(n) : w = [id |-> id, of |-> n]
  <2>1. n \in 1 .. n
    BY <1>3
  <2>2. [id |-> id, of |-> n] \in Received(n)
    BY <2>1 DEF Received
  <2> QED
    BY <2>2
<1>7. /\ candump' \in {candump, Append(candump, r)} /\ socket' \in {socket, Append(socket, w)}
      /\ r.ts = clock /\ r.of = n /\ r.id = w.id /\ w.of = n /\ n = frames + 1
  BY <1>1, <1>5, <1>6
<1> HIDE DEF n
<1>8. /\ candump \in Seq(Capture(clock, n)) /\ socket \in Seq(Received(n))
      /\ candump' \in Seq(Capture(clock, n)) /\ socket' \in Seq(Received(n))
  <2>1. candump \in Seq(Capture(clock, n)) /\ socket \in Seq(Received(n))
    BY <1>4 DEF RecordedRows
  <2>2. Append(candump, r) \in Seq(Capture(clock, n)) /\ Append(socket, w) \in Seq(Received(n))
    BY <2>1
  <2> QED
    BY <1>7, <2>1, <2>2
<1>9. RecordedRows(clock, frames)'
  BY <1>2, <1>4, <1>8 DEF RecordedRows
<1>10. Recorded
  BY RecordTyped DEF EvaluationInv
<1>11. \A c \in 1 .. Len(candump') :
         \/ c \in 1 .. Len(candump) /\ candump'[c] = candump[c]
         \/ c = Len(candump) + 1 /\ candump'[c] = r
  BY <1>7, <1>8
<1>12. \A i \in 1 .. Len(socket') :
         \/ i \in 1 .. Len(socket) /\ socket'[i] = socket[i]
         \/ i = Len(socket) + 1 /\ socket'[i] = w
  BY <1>7, <1>8
<1>13. InOrder'
  <2>1. \A c, d \in 1 .. Len(candump') :
          c < d => candump'[c].ts <= candump'[d].ts /\ candump'[c].of < candump'[d].of
    <3> SUFFICES ASSUME NEW c \in 1 .. Len(candump'), NEW d \in 1 .. Len(candump'), c < d
                 PROVE  candump'[c].ts <= candump'[d].ts /\ candump'[c].of < candump'[d].of
      OBVIOUS
    <3>1. c \in 1 .. Len(candump) /\ candump'[c] = candump[c]
      BY <1>10, <1>11 DEF Recorded
    <3>2. CASE d \in 1 .. Len(candump) /\ candump'[d] = candump[d]
      BY <3>1, <3>2 DEF EvaluationInv, InOrder
    <3>3. CASE d = Len(candump) + 1 /\ candump'[d] = r
      BY <3>1, <3>3, <1>7, <1>10 DEF Recorded
    <3> QED
      BY <1>11, <3>2, <3>3
  <2>2. \A i, j \in 1 .. Len(socket') : i < j => socket'[i].of < socket'[j].of
    <3> SUFFICES ASSUME NEW i \in 1 .. Len(socket'), NEW j \in 1 .. Len(socket'), i < j
                 PROVE  socket'[i].of < socket'[j].of
      OBVIOUS
    <3>1. i \in 1 .. Len(socket) /\ socket'[i] = socket[i]
      BY <1>10, <1>12 DEF Recorded
    <3>2. CASE j \in 1 .. Len(socket) /\ socket'[j] = socket[j]
      BY <3>1, <3>2 DEF EvaluationInv, InOrder
    <3>3. CASE j = Len(socket) + 1 /\ socket'[j] = w
      BY <3>1, <3>3, <1>7, <1>10 DEF Recorded
    <3> QED
      BY <1>12, <3>2, <3>3
  <2>3. \A p \in 1 .. Len(verdicts), i \in 1 .. Len(socket') : verdicts[p].of < socket'[i].of
    <3> SUFFICES ASSUME NEW p \in 1 .. Len(verdicts), NEW i \in 1 .. Len(socket')
                 PROVE  verdicts[p].of < socket'[i].of
      OBVIOUS
    <3>1. CASE i \in 1 .. Len(socket) /\ socket'[i] = socket[i]
      BY <3>1 DEF EvaluationInv, InOrder
    <3>2. CASE socket'[i] = w
      <4>1. verdicts[p].of \in Nat /\ verdicts[p].of <= frames /\ frames \in Nat
        BY <1>10 DEF Recorded
      <4> QED
        BY <3>2, <4>1, <1>7
    <3> QED
      BY <1>12, <3>1, <3>2
  <2> QED
    BY <1>2, <2>1, <2>2, <2>3 DEF EvaluationInv, InOrder
<1>14. OneFrame'
  <2> SUFFICES ASSUME NEW c \in 1 .. Len(candump')
               PROVE  /\ \A p \in 1 .. Len(verdicts) :
                           candump'[c].of = verdicts[p].of =>
                               candump'[c].id = verdicts[p].id /\ candump'[c].ts <= verdicts[p].ts
                      /\ \A i \in 1 .. Len(socket') :
                           candump'[c].of = socket'[i].of => candump'[c].id = socket'[i].id
    BY <1>2 DEF OneFrame
  <2>1. CASE c \in 1 .. Len(candump) /\ candump'[c] = candump[c]
    <3>1. /\ \A p \in 1 .. Len(verdicts) :
               candump[c].of = verdicts[p].of =>
                   candump[c].id = verdicts[p].id /\ candump[c].ts <= verdicts[p].ts
          /\ \A i \in 1 .. Len(socket) :
               candump[c].of = socket[i].of => candump[c].id = socket[i].id
      BY <2>1 DEF EvaluationInv, OneFrame
    <3>2. candump[c].of # w.of
      BY <2>1, <1>7, <1>10 DEF Recorded
    <3> QED
      BY <2>1, <3>1, <3>2, <1>12
  <2>2. CASE c = Len(candump) + 1 /\ candump'[c] = r
    <3>1. \A p \in 1 .. Len(verdicts) : r.of # verdicts[p].of
      BY <1>7, <1>10 DEF Recorded
    <3>2. ASSUME NEW i \in 1 .. Len(socket'), r.of = socket'[i].of
          PROVE  r.id = socket'[i].id
      <4>1. \A k \in 1 .. Len(socket) : socket[k].of # r.of
        BY <1>7, <1>10 DEF Recorded
      <4>2. socket'[i] = w
        BY <3>2, <4>1, <1>12
      <4> QED
        BY <4>2, <1>7
    <3> QED
      BY <2>2, <3>1, <3>2
  <2> QED
    BY <1>11, <2>1, <2>2
<1>15. frames' \in 0 .. MaxRecorded
  BY <1>2, <1>3, <1>7, EvaluationAssumption
<1> QED
  BY <1>2, <1>3, <1>9, <1>13, <1>14, <1>15, RecordStep DEF RecordState

(* The next frame received is judged.                                      *)
LEMMA DetectRecord ==
    ASSUME EvaluationInv, Evaluation!Detect
    PROVE  EvaluationInv'
<1>1. PICK label \in {"anomaly", "normal"} :
        verdicts' = Append(verdicts, [id |-> Head(socket).id, ts |-> clock, label |-> label,
                                      of |-> Head(socket).of])
  BY DEF Evaluation!Detect
<1>2. /\ phase = "record" /\ socket # <<>> /\ socket' = Tail(socket)
      /\ UNCHANGED <<phase, attached, clock, frames, candump>>
  BY DEF Evaluation!Detect, Evaluation!Recording
<1>3. RecordState /\ clock \in Nat /\ frames \in Nat
  BY StateTyped, EvaluationAssumption DEF EvaluationInv, RecordState
<1>4. /\ candump \in Seq(Capture(clock, frames)) /\ socket \in Seq(Received(frames))
      /\ verdicts \in Seq(Verdict(clock, frames))
  BY <1>3 DEF RecordState, RecordedRows
<1>5. /\ Head(socket) = socket[1] /\ 1 \in 1 .. Len(socket) /\ socket[1] \in Received(frames)
      /\ socket' \in Seq(Received(frames)) /\ Len(socket') = Len(socket) - 1
      /\ \A i \in 1 .. Len(socket') : i + 1 \in 1 .. Len(socket) /\ socket'[i] = socket[i + 1]
  BY <1>2, <1>4
<1>6. PICK v \in Verdict(clock, frames) :
        v = [id |-> socket[1].id, ts |-> clock, label |-> label, of |-> socket[1].of]
  <2>1. clock \in 0 .. clock /\ socket[1].id \in Id /\ socket[1].of \in 1 .. frames
    BY <1>3, <1>5 DEF Received
  <2>2. [id |-> socket[1].id, ts |-> clock, label |-> label, of |-> socket[1].of]
          \in Verdict(clock, frames)
    BY <2>1 DEF Verdict
  <2> QED
    BY <2>2
<1>7. /\ verdicts' = Append(verdicts, v)
      /\ v.id = socket[1].id /\ v.ts = clock /\ v.of = socket[1].of
  BY <1>1, <1>5, <1>6
<1>8. /\ verdicts' \in Seq(Verdict(clock, frames))
      /\ \A p \in 1 .. Len(verdicts') :
           \/ p \in 1 .. Len(verdicts) /\ verdicts'[p] = verdicts[p]
           \/ p = Len(verdicts) + 1 /\ verdicts'[p] = v
  BY <1>4, <1>7
<1>9. RecordedRows(clock, frames)'
  BY <1>2, <1>4, <1>5, <1>8 DEF RecordedRows
<1>10. Recorded
  BY RecordTyped DEF EvaluationInv
<1>11. InOrder'
  <2>1. \A p, q \in 1 .. Len(verdicts') : p < q => verdicts'[p].of < verdicts'[q].of
    BY <1>5, <1>7, <1>8, <1>10 DEF EvaluationInv, InOrder, Recorded
  <2>2. \A i, j \in 1 .. Len(socket') : i < j => socket'[i].of < socket'[j].of
    <3>1. \A i, j \in 1 .. Len(socket) : i < j => socket[i].of < socket[j].of
      BY DEF EvaluationInv, InOrder
    <3> QED
      BY <3>1, <1>5
  <2>3. \A p \in 1 .. Len(verdicts'), i \in 1 .. Len(socket') : verdicts'[p].of < socket'[i].of
    <3>1. \A i, j \in 1 .. Len(socket) : i < j => socket[i].of < socket[j].of
      BY DEF EvaluationInv, InOrder
    <3>2. \A p \in 1 .. Len(verdicts), i \in 1 .. Len(socket) : verdicts[p].of < socket[i].of
      BY DEF EvaluationInv, InOrder
    <3>3. ASSUME NEW p \in 1 .. Len(verdicts'), NEW i \in 1 .. Len(socket')
          PROVE  verdicts'[p].of < socket'[i].of
      <4>1. i + 1 \in 1 .. Len(socket) /\ 1 < i + 1 /\ socket'[i] = socket[i + 1]
        BY <1>5
      <4>2. CASE p \in 1 .. Len(verdicts) /\ verdicts'[p] = verdicts[p]
        BY <4>1, <4>2, <3>2
      <4>3. CASE verdicts'[p] = v
        BY <4>1, <4>3, <3>1, <1>5, <1>7
      <4> QED
        BY <4>2, <4>3, <1>8
    <3> QED
      BY <3>3
  <2> QED
    BY <1>2, <2>1, <2>2, <2>3 DEF EvaluationInv, InOrder
<1>12. OneFrame'
  <2> SUFFICES ASSUME NEW c \in 1 .. Len(candump)
               PROVE  /\ \A p \in 1 .. Len(verdicts') :
                           candump[c].of = verdicts'[p].of =>
                               candump[c].id = verdicts'[p].id /\ candump[c].ts <= verdicts'[p].ts
                      /\ \A i \in 1 .. Len(socket') :
                           candump[c].of = socket'[i].of => candump[c].id = socket'[i].id
    BY <1>2 DEF OneFrame
  <2>1. /\ \A p \in 1 .. Len(verdicts) :
             candump[c].of = verdicts[p].of =>
                 candump[c].id = verdicts[p].id /\ candump[c].ts <= verdicts[p].ts
        /\ \A i \in 1 .. Len(socket) :
             candump[c].of = socket[i].of => candump[c].id = socket[i].id
    BY DEF EvaluationInv, OneFrame
  <2>2. candump[c].ts <= clock
    BY <1>10 DEF Recorded
  <2>3. ASSUME NEW p \in 1 .. Len(verdicts'), candump[c].of = verdicts'[p].of
        PROVE  candump[c].id = verdicts'[p].id /\ candump[c].ts <= verdicts'[p].ts
    <3>1. CASE p \in 1 .. Len(verdicts) /\ verdicts'[p] = verdicts[p]
      BY <2>1, <2>3, <3>1
    <3>2. CASE verdicts'[p] = v
      BY <2>1, <2>2, <2>3, <3>2, <1>5, <1>7
    <3> QED
      BY <3>1, <3>2, <1>8
  <2>4. \A i \in 1 .. Len(socket') : candump[c].of = socket'[i].of => candump[c].id = socket'[i].id
    BY <2>1, <1>5
  <2> QED
    BY <2>3, <2>4
<1> QED
  BY <1>2, <1>3, <1>9, <1>11, <1>12, RecordStep DEF RecordState

(* The recording ends; what is still to be received is lost.               *)
LEMMA StopRecord ==
    ASSUME EvaluationInv, Evaluation!Stop
    PROVE  EvaluationInv'
<1>1. /\ phase = "record" /\ phase' = "attach" /\ socket' = <<>>
      /\ UNCHANGED <<clock, frames, candump, verdicts, attached>>
  BY DEF Evaluation!Stop
<1>2. RecordState
  BY StateTyped DEF EvaluationInv
<1>3. RecordedRows(clock, frames)'
  BY <1>1, <1>2 DEF RecordState, RecordedRows
<1>4. InOrder' /\ OneFrame'
  BY <1>1 DEF EvaluationInv, InOrder, OneFrame
<1> QED
  BY <1>1, <1>2, <1>3, <1>4, RecordStep DEF RecordState

-----------------------------------------------------------------------------
(* What the recording says of a prediction does not change any more.       *)
LEMMA SameRecording ==
    ASSUME UNCHANGED <<candump, verdicts>>, NEW p, NEW id
    PROVE  /\ Evaluation!SameId(p)' = Evaluation!SameId(p)
           /\ Evaluation!Earlier(p)' = Evaluation!Earlier(p)
           /\ \A c : Evaluation!InReach(p, c)' <=> Evaluation!InReach(p, c)
           /\ Evaluation!CaptureOf(p)' = Evaluation!CaptureOf(p)
           /\ Evaluation!Sparse(id)' <=> Evaluation!Sparse(id)
BY DEF Evaluation!SameId, Evaluation!Earlier, Evaluation!InReach, Evaluation!CaptureOf,
       Evaluation!Sparse, Evaluation!Lag

(* The next prediction p is attached to x.                                 *)
Attaches(p, x) ==
    /\ p = Len(attached) + 1 /\ p <= Len(verdicts)
    /\ phase = "attach" /\ phase' = phase
    /\ UNCHANGED <<clock, frames, candump, socket, verdicts>>
    /\ attached' = Append(attached, x)
    /\ \/ x = 0 /\ Evaluation!Candidates(p) = {}
       \/ x \in Evaluation!Candidates(p) /\ Evaluation!Nearest(p, x)

LEMMA AttachAttaches ==
    ASSUME Evaluation!Attach
    PROVE  \E x : Attaches(Len(attached) + 1, x)
BY DEF Evaluation!Attach, Evaluation!recordVars, Attaches

(* A candidate is a capture that is left over.                             *)
LEMMA CandidateLeft ==
    ASSUME Recorded, NEW p, NEW c \in Evaluation!Candidates(p)
    PROVE  /\ c \in 1 .. Len(candump) /\ c \in Evaluation!SameId(p)
           /\ \A q \in 1 .. Len(attached) : attached[q] # c
BY DEF Recorded, Evaluation!Candidates, Evaluation!Neighbourhood, Evaluation!SameId, Evaluation!Used

(* The attached predictions, one more than before.                         *)
LEMMA OneMoreAttached ==
    ASSUME Evaluation!TypeOK, NEW p, NEW x, Attaches(p, x)
    PROVE  /\ p \in 1 .. Len(verdicts) /\ x \in 0 .. Len(candump)
           /\ attached' \in Seq(0 .. Len(candump)) /\ Len(attached') = p /\ attached'[p] = x
           /\ \A q \in 1 .. p : q = p \/ (q \in 1 .. Len(attached) /\ attached'[q] = attached[q])
           /\ DOMAIN attached = 1 .. Len(attached) /\ DOMAIN attached' = 1 .. p
<1>1. Recorded
  BY RecordTyped
<1>2. attached \in Seq(0 .. Len(candump)) /\ Len(attached) \in Nat
  BY DEF Evaluation!TypeOK
<1>3. x \in 0 .. Len(candump)
  BY <1>1, CandidateLeft DEF Attaches, Recorded
<1> QED
  BY <1>1, <1>2, <1>3 DEF Attaches, Recorded

LEMMA AttachOneToOne ==
    ASSUME EvaluationInv, NEW p, NEW x, Attaches(p, x)
    PROVE  OneToOne'
<1>1. Recorded
  BY RecordTyped DEF EvaluationInv
<1>2. /\ Len(attached') = p /\ attached'[p] = x
      /\ \A q \in 1 .. p : q = p \/ (q \in 1 .. Len(attached) /\ attached'[q] = attached[q])
  BY OneMoreAttached DEF EvaluationInv
<1>3. x # 0 => x \in Evaluation!SameId(p) /\ \A q \in 1 .. Len(attached) : attached[q] # x
  BY <1>1, CandidateLeft DEF Attaches
<1>4. /\ \A q \in 1 .. Len(attached) : attached[q] # 0 => attached[q] \in Evaluation!SameId(q)
      /\ \A q, r \in 1 .. Len(attached) : attached[q] # 0 /\ attached[q] = attached[r] => q = r
  BY DEF EvaluationInv, OneToOne
<1>5. \A q \in 1 .. p : attached'[q] # 0 => attached'[q] \in Evaluation!SameId(q)'
  <2>1. UNCHANGED <<candump, verdicts>>
    BY DEF Attaches
  <2> QED
    BY <1>2, <1>3, <1>4, <2>1, SameRecording
<1>6. \A q, r \in 1 .. p : attached'[q] # 0 /\ attached'[q] = attached'[r] => q = r
  BY <1>2, <1>3, <1>4
<1>7. phase' # "record"
  BY DEF Attaches
<1> QED
  BY <1>2, <1>5, <1>6, <1>7 DEF OneToOne

LEMMA AttachSuffices ==
    ASSUME EvaluationInv, NEW p, NEW x, Attaches(p, x)
    PROVE  Evaluation!NeighbourhoodSuffices'
<1>1. Recorded /\ InOrder
  BY RecordTyped DEF EvaluationInv
<1>2. /\ p \in 1 .. Len(verdicts) /\ attached'[p] = x
      /\ \A q \in 1 .. p : q = p \/ (q \in 1 .. Len(attached) /\ attached'[q] = attached[q])
      /\ DOMAIN attached = 1 .. Len(attached) /\ DOMAIN attached' = 1 .. p
  BY OneMoreAttached DEF EvaluationInv
<1>3. Evaluation!Used \subseteq Evaluation!Used'
  <2> SUFFICES ASSUME NEW q \in 1 .. Len(attached), attached[q] # 0
               PROVE  attached[q] \in Evaluation!Used'
    BY <1>2 DEF Evaluation!Used
  <2>1. q \in 1 .. p /\ q # p
    BY <1>1 DEF Attaches, Recorded
  <2> QED
    BY <2>1, <1>2 DEF Evaluation!Used
<1>4. UNCHANGED <<candump, verdicts>> /\ DOMAIN candump = 1 .. Len(candump)
  BY <1>1 DEF Attaches, Recorded
<1> DEFINE Near(q) == {c \in DOMAIN candump : Evaluation!InReach(q, c)}
<1>5. SUFFICES ASSUME NEW q \in 1 .. p, attached'[q] = 0,
                     Evaluation!Cardinality(Near(q) \cap Evaluation!Earlier(q)) <= Reach,
                     Evaluation!Cardinality(Near(q) \ Evaluation!Earlier(q)) <= Reach + 1
              PROVE  Near(q) \subseteq Evaluation!Used
  BY <1>2, <1>3, <1>4, SameRecording DEF Evaluation!NeighbourhoodSuffices
<1>6. CASE q \in 1 .. Len(attached) /\ attached'[q] = attached[q]
  BY <1>2, <1>5, <1>6 DEF EvaluationInv, Evaluation!NeighbourhoodSuffices
<1>7. CASE q = p
  <2>1. Evaluation!Candidates(p) = {}
    BY <1>1, <1>2, <1>5, <1>7, CandidateLeft DEF Attaches
  <2>2. ASSUME NEW c \in Near(p)
        PROVE  c \in Evaluation!Used
    <3>1. Evaluation!InReach(p, c) /\ c \in Evaluation!SameId(p)
      BY DEF Evaluation!InReach
    <3>2. c \in Evaluation!Neighbourhood(p)
      BY <1>1, <1>2, <1>4, <1>5, <1>7, <3>1, NearIsNeighbour, SameCardinality
    <3> QED
      BY <2>1, <3>1, <3>2 DEF Evaluation!Candidates
  <2> QED
    BY <1>7, <2>2
<1> QED
  BY <1>2, <1>6, <1>7

LEMMA AttachOwn ==
    ASSUME EvaluationInv, NEW p, NEW x, Attaches(p, x)
    PROVE  Evaluation!VerdictForOwnFrame'
<1>1. Recorded /\ InOrder /\ OneFrame /\ OneToOne
  BY RecordTyped DEF EvaluationInv
<1>2. /\ p \in 1 .. Len(verdicts) /\ attached'[p] = x
      /\ \A q \in 1 .. p : q = p \/ (q \in 1 .. Len(attached) /\ attached'[q] = attached[q])
      /\ DOMAIN attached = 1 .. Len(attached) /\ DOMAIN attached' = 1 .. p
  BY OneMoreAttached DEF EvaluationInv
<1>3. UNCHANGED <<candump, verdicts>>
  BY DEF Attaches
<1>4. SUFFICES ASSUME NEW q \in 1 .. p, Evaluation!Sparse(verdicts[q].id)
              PROVE  attached'[q] \in Evaluation!CaptureOf(q)
  BY <1>2, <1>3, SameRecording DEF Evaluation!VerdictForOwnFrame
<1>5. CASE q \in 1 .. Len(attached) /\ attached'[q] = attached[q]
  BY <1>2, <1>4, <1>5 DEF EvaluationInv, Evaluation!VerdictForOwnFrame
<1>6. CASE q = p
  <2>1. PICK own \in 1 .. Len(candump) :
          /\ Evaluation!CaptureOf(p) = {own}
          /\ own \in Evaluation!Neighbourhood(p)
          /\ Evaluation!InReach(p, own)
          /\ \A c \in Evaluation!SameId(p) \ {own} :
               Evaluation!Apart(candump[own].ts, verdicts[p].ts)
                   < Evaluation!Apart(candump[c].ts, verdicts[p].ts)
    BY <1>1, <1>2, <1>4, <1>6, OwnCaptureNearest
  <2>2. candump[own].of = verdicts[p].of /\ candump[own].id = verdicts[p].id /\ own # 0
    BY <2>1 DEF Evaluation!CaptureOf, Evaluation!Neighbourhood, Evaluation!SameId
  <2>3. ASSUME NEW r \in 1 .. Len(attached), attached[r] = own
        PROVE  FALSE
    <3>1. own \in Evaluation!SameId(r)
      BY <1>1, <2>2, <2>3 DEF OneToOne
    <3>2. verdicts[r].id = verdicts[p].id
      BY <2>2, <3>1 DEF Evaluation!SameId
    <3>3. own \in Evaluation!CaptureOf(r)
      BY <1>2, <1>4, <1>6, <2>3, <3>2 DEF EvaluationInv, Evaluation!VerdictForOwnFrame
    <3>4. verdicts[r].of = verdicts[p].of
      BY <2>2, <3>3 DEF Evaluation!CaptureOf
    <3>5. r \in 1 .. Len(verdicts) /\ r < p
      BY <1>1, <1>2 DEF Attaches, Recorded
    <3>6. verdicts[r].of < verdicts[p].of /\ verdicts[p].of \in Nat
      BY <1>1, <1>2, <3>5 DEF InOrder, Recorded
    <3> QED
      BY <3>4, <3>6
  <2>4. own \in Evaluation!Candidates(p)
    BY <1>2, <2>1, <2>3 DEF Evaluation!Candidates, Evaluation!Used
  <2>5. x \in Evaluation!SameId(p) /\ Evaluation!Nearest(p, x)
    BY <1>1, <2>4, CandidateLeft DEF Attaches
  <2>6. x = own
    <3> SUFFICES ASSUME x # own
                 PROVE  FALSE
      OBVIOUS
    <3> DEFINE a == Evaluation!Apart(candump[own].ts, verdicts[p].ts)
               b == Evaluation!Apart(candump[x].ts, verdicts[p].ts)
    <3>1. a < b
      BY <2>1, <2>5
    <3>2. b < a \/ b = a
      BY <2>4, <2>5 DEF Evaluation!Nearest
    <3>3. a \in Int /\ b \in Int
      BY <1>1, <1>2, <2>5 DEF Recorded, Evaluation!Apart, Evaluation!SameId
    <3> HIDE DEF a, b
    <3> QED
      BY <3>1, <3>2, <3>3
  <2> QED
    BY <1>2, <1>6, <2>1, <2>6
<1> QED
  BY <1>2, <1>5, <1>6

LEMMA AttachStep ==
    ASSUME EvaluationInv, Evaluation!Attach
    PROVE  EvaluationInv'
<1>1. PICK x : Attaches(Len(attached) + 1, x)
  BY AttachAttaches
<1>2. /\ OneToOne' /\ Evaluation!NeighbourhoodSuffices' /\ Evaluation!VerdictForOwnFrame'
      /\ attached' \in Seq(0 .. Len(candump)) /\ Len(attached') = Len(attached) + 1
      /\ Len(attached) + 1 <= Len(verdicts)
  BY <1>1, AttachOneToOne, AttachSuffices, AttachOwn, OneMoreAttached DEF EvaluationInv, Attaches
<1>3. phase' = phase /\ UNCHANGED <<clock, frames, candump, socket, verdicts>>
  BY <1>1 DEF Attaches
<1>4. RecordState'
  BY <1>2, <1>3, StateTyped DEF EvaluationInv, RecordState, RecordedRows
<1>5. Evaluation!TypeOK'
  BY <1>4, StateTyped, PTL
<1>6. InOrder' /\ OneFrame'
  BY <1>3 DEF EvaluationInv, InOrder, OneFrame
<1> QED
  BY <1>2, <1>5, <1>6 DEF EvaluationInv

(* Once every prediction is attached nothing changes any more.             *)
LEMMA ReportStep ==
    ASSUME EvaluationInv, phase' \in {phase, "done"},
           UNCHANGED <<clock, frames, candump, socket, verdicts, attached>>
    PROVE  EvaluationInv'
<1>1. RecordState'
  BY StateTyped DEF EvaluationInv, RecordState, RecordedRows
<1>2. Evaluation!TypeOK'
  BY <1>1, StateTyped, PTL
<1>3. UNCHANGED <<candump, verdicts>> /\ Evaluation!Used' = Evaluation!Used
  BY DEF Evaluation!Used
<1>4. OneToOne'
  BY <1>3, SameRecording DEF EvaluationInv, OneToOne
<1>5. Evaluation!NeighbourhoodSuffices'
  BY <1>3, SameRecording DEF EvaluationInv, Evaluation!NeighbourhoodSuffices
<1>6. Evaluation!VerdictForOwnFrame'
  BY <1>3, SameRecording DEF EvaluationInv, Evaluation!VerdictForOwnFrame
<1> QED
  BY <1>2, <1>4, <1>5, <1>6 DEF EvaluationInv, InOrder, OneFrame

(* Another program's step, or none, does not touch the evaluation.         *)
LEMMA AttachmentStep ==
    ASSUME AttachmentInv, [Next]_vars
    PROVE  AttachmentInv'
<1>1. CASE Burst \/ Build \/ Long(Stability!Next)
  BY <1>1 DEF Burst, Build, Long, evaluationVars, AttachmentInv
<1>2. CASE Evaluate
  <2>1. experiment = "evaluation" /\ experiment' = experiment /\ Evaluation!Next
    BY <1>2 DEF Evaluate
  <2>2. EvaluationInv
    BY <2>1 DEF AttachmentInv
  <2>3. ASSUME Evaluation!Report
        PROVE  EvaluationInv'
    <3>1. phase' = "done" /\ UNCHANGED <<clock, frames, candump, socket, verdicts, attached>>
      BY <2>3 DEF Evaluation!Report, Evaluation!recordVars
    <3> QED
      BY <2>2, <3>1, ReportStep
  <2>4. EvaluationInv'
    BY <2>1, <2>2, <2>3, TickRecord, FrameRecord, DetectRecord, StopRecord, AttachStep
       DEF Evaluation!Next
  <2> QED
    BY <2>1, <2>4 DEF AttachmentInv
<1>3. CASE UNCHANGED vars
  <2>1. UNCHANGED <<experiment, clock, frames, candump, socket, verdicts, phase, attached>>
    BY <1>3 DEF vars, evaluationVars
  <2>2. CASE experiment = "evaluation"
    BY <2>1, <2>2, ReportStep DEF AttachmentInv
  <2>3. CASE experiment # "evaluation"
    BY <2>1, <2>3 DEF AttachmentInv
  <2> QED
    BY <2>2, <2>3
<1> QED
  BY <1>1, <1>2, <1>3 DEF Next

LEMMA AttachmentOfInvariant == AttachmentInv => Attachment
<1> SUFFICES ASSUME AttachmentInv
             PROVE  Attachment
  OBVIOUS
<1>1. CASE experiment = "evaluation"
  <2>1. EvaluationInv
    BY <1>1 DEF AttachmentInv
  <2>2. Evaluation!CoverageAgrees
    BY <2>1, RecordTyped, CoverageOfPairs DEF EvaluationInv
  <2> QED
    BY <2>1, <2>2 DEF EvaluationInv, Attachment
<1>2. CASE experiment # "evaluation"
  <2>1. attached = <<>> /\ phase = "record"
    BY <1>2 DEF AttachmentInv
  <2>2. AttachedWell
    BY <2>1, NothingAttached DEF Unattached
  <2> QED
    BY <1>2, <2>1, <2>2 DEF AttachedWell, Attachment, Evaluation!CoverageAgrees
<1> QED
  BY <1>1, <1>2

(* However large the recording, whatever candump and the socket miss and   *)
(* however long the detector takes: the coverages agree, the neighbourhood *)
(* is wide enough, and among sparse frames a verdict finds its own.        *)
THEOREM EvaluationAttaches == Spec => []Attachment
BY AttachmentInit, AttachmentStep, AttachmentOfInvariant, PTL DEF Spec

-----------------------------------------------------------------------------
(***************************************************************************)
(* Part 2.  The bursts and their windows.                                  *)
(***************************************************************************)

(* The frames sent and without a prediction yet, but for those the detector *)
(* will never receive.                                                     *)
InTransit == {bus[i] : i \in 1 .. Len(bus)} \cup {f \in {frame} : det = "work"}

Attacking == gen \in {"test", "send", "label"}
Between == gen \in {"loop", "turn"}

(* A frame or a prediction of burst b at time t is not earlier than the    *)
(* window of the burst, whether it is written down or still to be.         *)
Placed(b, t) ==
    /\ b <= Len(gt) + 1 /\ t <= clock
    /\ b \in 1 .. Len(gt) => gt[b].start <= t
    /\ Attacking /\ b = Len(gt) + 1 => a_start <= t
    /\ Between => b <= Len(gt)

(* What is of burst b and seen from one time until another at the latest   *)
(* is seen after the windows before its own and before the windows after.  *)
Apart(b, from, until) ==
    /\ \A w \in 1 .. Len(gt) :
         /\ w < b => gt[w].end < from
         /\ 1 <= b /\ b < w => until < gt[w].start
    /\ Attacking /\ b \in 1 .. Len(gt) => until < a_start
    /\ Between /\ 1 <= b => until < next_attack_at

(* A burst that is sent late is sent late once.                            *)
LateInv ==
    /\ late <= 1
    /\ late = 1 => clock >= a_end
    /\ gen = "send" => late = 0
    /\ gen = "label" => clock >= a_end
    /\ Attacking => a_start <= clock

(* The detector keeps up, unless it has stopped.                           *)
KeepsUp == det # "done" => \A f \in InTransit : clock <= f.sent + MaxLag

AllPlaced ==
    /\ \A f \in InTransit : Placed(f.burst, f.sent)
    /\ \A p \in pred : Placed(p.burst, p.ts)

(* Windows are over before what comes next.                                *)
WindowsOver == \A w \in 1 .. Len(gt) :
    /\ Attacking => gt[w].end < a_start
    /\ Between => gt[w].end < next_attack_at

AllApart ==
    /\ WindowsOver
    /\ \A f \in InTransit : Apart(f.burst, f.sent, f.sent + MaxLag)
    /\ \A p \in pred : Apart(p.burst, p.ts, p.ts)

LongGaps == \A gap \in Gaps : MaxLag < gap

BurstInv ==
    /\ Bursts!TypeOK
    /\ LateInv
    /\ KeepsUp
    /\ AllPlaced
    /\ LongGaps => AllApart

WindowsInv ==
    IF experiment = "bursts" THEN BurstInv
    ELSE gt = <<>> /\ pred = {} /\ late = 0

-----------------------------------------------------------------------------
(* What is under way is typed, and what a step puts on the bus is the one  *)
(* thing new there.                                                        *)
LEMMA TransitTyped ==
    ASSUME bus \in Seq(Bursts!Frames), frame \in Bursts!Frames
    PROVE  \A f \in InTransit : f \in Bursts!Frames /\ f.burst \in Nat /\ f.sent \in Nat
<1> SUFFICES ASSUME NEW f \in InTransit
             PROVE  f \in Bursts!Frames /\ f.burst \in Nat /\ f.sent \in Nat
  OBVIOUS
<1>1. f \in Bursts!Frames
  BY DEF InTransit
<1> QED
  BY <1>1, BurstsAssumption DEF Bursts!Frames, Bursts!Time

LEMMA TransitAppended ==
    ASSUME bus \in Seq(Bursts!Frames), NEW x \in Bursts!Frames,
           bus' = Append(bus, x), det' = det, frame' = frame
    PROVE  \A f \in InTransit' : f \in InTransit \/ f = x
<1>1. Len(bus') = Len(bus) + 1 /\ Len(bus) \in Nat /\ bus'[Len(bus) + 1] = x
  OBVIOUS
<1>2. \A i \in 1 .. Len(bus) : bus'[i] = bus[i]
  OBVIOUS
<1> QED
  BY <1>1, <1>2 DEF InTransit

LEMMA TransitReceived ==
    ASSUME bus \in Seq(Bursts!Frames), Bursts!Receive
    PROVE  InTransit' \subseteq InTransit
<1>1. bus # <<>> /\ frame' = Head(bus) /\ bus' = Tail(bus)
  BY DEF Bursts!Receive
<1>2. /\ Len(bus) \in Nat /\ Len(bus) >= 1 /\ frame' = bus[1] /\ Len(bus') = Len(bus) - 1
      /\ \A i \in 1 .. Len(bus') : bus'[i] = bus[i + 1]
  BY <1>1
<1> QED
  BY <1>2 DEF InTransit

LEMMA TransitSame ==
    ASSUME bus' = bus, det' # "work" \/ det' = det, frame' = frame \/ det' # "work"
    PROVE  InTransit' \subseteq InTransit
BY DEF InTransit

-----------------------------------------------------------------------------
(* The generator's own variables, and what its steps do to what was there  *)
(* before.                                                                 *)
GeneratorTyped ==
    /\ clock \in Nat /\ a_start \in Nat /\ a_end \in Nat /\ next_attack_at \in Nat /\ late \in Nat
    /\ wake \in Nat /\ next_send \in Nat
    /\ gt \in Seq([start : Bursts!Time, end : Nat]) /\ Len(gt) \in Nat
    /\ \A w \in 1 .. Len(gt) : gt[w].start \in Nat /\ gt[w].end \in Nat

LEMMA GeneratorIsTyped == Bursts!TypeOK => GeneratorTyped
<1> SUFFICES ASSUME Bursts!TypeOK
             PROVE  GeneratorTyped
  OBVIOUS
<1>1. /\ clock \in Nat /\ a_start \in Nat /\ a_end \in Nat /\ next_attack_at \in Nat /\ late \in Nat
      /\ wake \in Nat /\ next_send \in Nat
  BY BurstsAssumption DEF Bursts!TypeOK, Bursts!Time
<1>2. gt \in Seq([start : Bursts!Time, end : Nat]) /\ Len(gt) \in Nat
  BY DEF Bursts!TypeOK
<1>3. ASSUME NEW w \in 1 .. Len(gt)
      PROVE  gt[w].start \in Nat /\ gt[w].end \in Nat
  <2> DEFINE Window == [start : Bursts!Time, end : Nat]
  <2>1. gt \in Seq(Window)
    BY <1>2
  <2>2. \A r \in Window : r.start \in Nat /\ r.end \in Nat
    BY BurstsAssumption DEF Bursts!Time
  <2> HIDE DEF Window
  <2>3. gt[w] \in Window
    BY <2>1
  <2> QED
    BY <2>2, <2>3
<1> QED
  BY <1>1, <1>2, <1>3 DEF GeneratorTyped

(* A window more is written down.                                          *)
LEMMA Labelled ==
    ASSUME GeneratorTyped, Bursts!Label
    PROVE  /\ Len(gt') = Len(gt) + 1
           /\ gt'[Len(gt) + 1].start = a_start /\ gt'[Len(gt) + 1].end = a_end
           /\ \A w \in 1 .. Len(gt) : gt'[w] = gt[w]
           /\ \A w \in 1 .. Len(gt') : w \in 1 .. Len(gt) \/ w = Len(gt) + 1
           /\ \E gap \in Gaps : next_attack_at' = clock + gap
           /\ gen = "label" /\ gen' = "loop"
           /\ UNCHANGED <<clock, a_start, a_end, wake, next_send, late, bus, det, frame, pred>>
<1> DEFINE r == [start |-> a_start, end |-> a_end]
<1>1. gt' = Append(gt, r) /\ r.start = a_start /\ r.end = a_end
  BY DEF Bursts!Label
<1> HIDE DEF r
<1>2. Len(gt') = Len(gt) + 1 /\ gt'[Len(gt) + 1] = r /\ \A w \in 1 .. Len(gt) : gt'[w] = gt[w]
  BY <1>1 DEF GeneratorTyped
<1>3. \A w \in 1 .. Len(gt') : w \in 1 .. Len(gt) \/ w = Len(gt) + 1
  BY <1>2 DEF GeneratorTyped
<1> QED
  BY <1>1, <1>2, <1>3 DEF Bursts!Label, Bursts!detVars

(* The other steps of the generator, by what they do to its place and to   *)
(* the times it plans with.                                                *)
Elsewhere ==
    /\ UNCHANGED <<clock, gt, next_attack_at>>
    /\ \/ gen' = gen /\ a_start' = a_start
       \/ Between /\ Between' /\ a_start' = a_start
       \/ Attacking /\ Attacking' /\ a_start' = a_start
       \/ gen' \in {"done", "killed"} /\ a_start' = a_start
       \/ Between /\ Attacking' /\ a_start' = clock /\ next_attack_at <= clock

LEMMA ElsewherePlaced ==
    ASSUME GeneratorTyped, Elsewhere \/ Bursts!Label, NEW b \in Nat, NEW t \in Nat, Placed(b, t)
    PROVE  Placed(b, t)'
<1>1. CASE Elsewhere
  BY <1>1 DEF Elsewhere, Placed, Between, Attacking, GeneratorTyped
<1>2. CASE Bursts!Label
  <2>1. /\ Len(gt') = Len(gt) + 1 /\ Len(gt) \in Nat
        /\ gt'[Len(gt) + 1].start = a_start /\ \A w \in 1 .. Len(gt) : gt'[w] = gt[w]
        /\ gen = "label" /\ gen' = "loop" /\ clock' = clock
    BY <1>2, Labelled DEF GeneratorTyped
  <2>2. b \in 1 .. Len(gt) \/ b = Len(gt) + 1 \/ b = 0
    BY <2>1 DEF Placed
  <2>3. b \in 1 .. Len(gt') => gt'[b].start <= t
    BY <2>1, <2>2 DEF Placed, Attacking
  <2> QED
    BY <2>1, <2>2, <2>3 DEF Placed, Attacking
<1> QED
  BY <1>1, <1>2

LEMMA ElsewhereApart ==
    ASSUME GeneratorTyped, LongGaps, Elsewhere \/ Bursts!Label, NEW b \in Nat, NEW from \in Nat,
           NEW until \in Nat, until <= clock + MaxLag, b <= Len(gt) + 1,
           Apart(b, from, until)
    PROVE  Apart(b, from, until)'
<1>1. CASE Elsewhere
  <2>1. gt' = gt /\ next_attack_at' = next_attack_at
    BY <1>1 DEF Elsewhere
  <2>2. Attacking' /\ b \in 1 .. Len(gt) => until < a_start'
    BY <1>1 DEF Elsewhere, Apart, Between, Attacking, GeneratorTyped
  <2>3. Between' /\ 1 <= b => until < next_attack_at
    BY <1>1 DEF Elsewhere, Apart, Between, Attacking, GeneratorTyped
  <2> QED
    BY <2>1, <2>2, <2>3 DEF Apart
<1>2. CASE Bursts!Label
  <2>1. PICK gap \in Gaps : next_attack_at' = clock + gap
    BY <1>2, Labelled
  <2>2. gap \in Nat /\ MaxLag \in Nat /\ MaxLag < gap
    BY BurstsAssumption DEF LongGaps
  <2>3. until < next_attack_at'
    BY <2>1, <2>2 DEF GeneratorTyped
  <2>4. Attacking /\ ~Attacking'
    BY <1>2, Labelled DEF Attacking
  <2>5. ASSUME NEW w \in 1 .. Len(gt')
        PROVE  /\ w < b => gt'[w].end < from
               /\ 1 <= b /\ b < w => until < gt'[w].start
    <3>1. CASE w \in 1 .. Len(gt)
      BY <3>1, <1>2, Labelled DEF Apart
    <3>2. CASE w = Len(gt) + 1
      <4>1. gt'[w].start = a_start /\ ~(w < b) /\ Len(gt) \in Nat
        BY <3>2, <1>2, Labelled DEF GeneratorTyped
      <4>2. 1 <= b /\ b < w => b \in 1 .. Len(gt)
        BY <3>2, <4>1
      <4> QED
        BY <4>1, <4>2, <2>4 DEF Apart
    <3> QED
      BY <2>5, <3>1, <3>2, <1>2, Labelled
  <2> QED
    BY <2>3, <2>4, <2>5 DEF Apart
<1> QED
  BY <1>1, <1>2

LEMMA ElsewhereOver ==
    ASSUME GeneratorTyped, LongGaps, LateInv, Elsewhere \/ Bursts!Label, WindowsOver
    PROVE  WindowsOver'
<1>1. CASE Elsewhere
  BY <1>1 DEF Elsewhere, WindowsOver, Between, Attacking, GeneratorTyped
<1>2. CASE Bursts!Label
  <2>1. PICK gap \in Gaps : next_attack_at' = clock + gap
    BY <1>2, Labelled
  <2>2. gap \in Nat /\ gap > 0
    BY BurstsAssumption DEF LongGaps
  <2>3. ~Attacking' /\ Attacking /\ a_start <= clock /\ a_end <= clock
    BY <1>2, Labelled DEF Attacking, LateInv, GeneratorTyped
  <2>4. ASSUME NEW w \in 1 .. Len(gt')
        PROVE  gt'[w].end < next_attack_at'
    <3>1. CASE w \in 1 .. Len(gt)
      <4>1. gt'[w] = gt[w] /\ gt[w].end < a_start
        BY <3>1, <1>2, <2>3, Labelled DEF WindowsOver
      <4> QED
        BY <4>1, <3>1, <2>1, <2>2, <2>3 DEF GeneratorTyped
    <3>2. CASE w = Len(gt) + 1
      BY <3>2, <1>2, <2>1, <2>2, <2>3, Labelled DEF GeneratorTyped
    <3> QED
      BY <2>4, <3>1, <3>2, <1>2, Labelled
  <2> QED
    BY <2>3, <2>4 DEF WindowsOver
<1> QED
  BY <1>1, <1>2

-----------------------------------------------------------------------------
(* The generator's steps.                                                  *)

(* What holds after a step that leaves the detector and the time alone and *)
(* puts nothing, or one frame of that moment, on the bus.                  *)
LEMMA GeneratorStep ==
    ASSUME BurstInv, Bursts!TypeOK', LateInv', Elsewhere \/ Bursts!Label,
           clock' = clock, UNCHANGED <<det, frame, pred>>,
           NEW put \in SUBSET Bursts!Frames,
           \A f \in InTransit' : f \in InTransit \/ f \in put,
           \A f \in put : /\ f.sent = clock
                          /\ f.burst = 0 \/ (f.burst = Len(gt) + 1 /\ Attacking /\ Attacking' /\ gt' = gt)
    PROVE  BurstInv'
<1> USE DEF BurstInv
<1>1. GeneratorTyped /\ GeneratorTyped' /\ LateInv
  <2>1. GeneratorTyped
    BY GeneratorIsTyped
  <2>2. GeneratorTyped'
    BY GeneratorIsTyped, PTL
  <2> QED
    BY <2>1, <2>2
<1>2. \A f \in InTransit : f.burst \in Nat /\ f.sent \in Nat /\ f.sent + MaxLag \in Nat
  <2>1. \A f \in InTransit : f.burst \in Nat /\ f.sent \in Nat
    BY TransitTyped DEF Bursts!TypeOK
  <2> QED
    BY <2>1, BurstsAssumption
<1>3. \A p \in pred : p.burst \in Nat /\ p.ts \in Nat
  <2> SUFFICES ASSUME NEW p \in pred
               PROVE  p.burst \in Nat /\ p.ts \in Nat
    OBVIOUS
  <2>1. p \in [burst : 0 .. Bursts!Burst, ts : Bursts!Time] /\ Bursts!Burst \in Nat
    BY <1>1 DEF Bursts!TypeOK, Bursts!Burst, GeneratorTyped
  <2>2. p.burst \in 0 .. Bursts!Burst /\ p.ts \in Bursts!Time
    BY <2>1
  <2> QED
    BY <2>1, <2>2, BurstsAssumption DEF Bursts!Time
<1>4. KeepsUp'
  <2> SUFFICES ASSUME det # "done", NEW f \in InTransit'
               PROVE  clock <= f.sent + MaxLag
    BY DEF KeepsUp
  <2>1. CASE f \in InTransit
    BY <2>1 DEF KeepsUp
  <2>2. CASE f \in put
    BY <2>2, <1>1, BurstsAssumption DEF GeneratorTyped
  <2> QED
    BY <2>1, <2>2
<1>5. AllPlaced'
  <2>1. ASSUME NEW f \in InTransit'
        PROVE  Placed(f.burst, f.sent)'
    <3>1. CASE f \in InTransit
      <4>1. Placed(f.burst, f.sent)
        BY <3>1 DEF AllPlaced
      <4> QED
        BY <4>1, <3>1, <1>1, <1>2, ElsewherePlaced
    <3>2. CASE f \in put
      <4>1. f.sent = clock /\ (f.burst = 0 \/ (f.burst = Len(gt) + 1 /\ Attacking /\ Attacking' /\ gt' = gt))
        BY <3>2
      <4>2. CASE f.burst = 0
        BY <4>1, <4>2, <1>1 DEF Placed, GeneratorTyped
      <4>3. CASE f.burst = Len(gt) + 1 /\ Attacking /\ Attacking' /\ gt' = gt
        <5>1. a_start' <= clock
          BY <4>3 DEF LateInv
        <5> QED
          BY <4>1, <4>3, <5>1, <1>1 DEF Placed, GeneratorTyped, Attacking, Between
      <4> QED
        BY <4>1, <4>2, <4>3
    <3> QED
      BY <3>1, <3>2
  <2>2. ASSUME NEW p \in pred
        PROVE  Placed(p.burst, p.ts)'
    <3>1. Placed(p.burst, p.ts)
      BY DEF AllPlaced
    <3> QED
      BY <3>1, <1>1, <1>3, ElsewherePlaced
  <2> QED
    BY <2>1, <2>2 DEF AllPlaced
<1>6. LongGaps => AllApart'
  <2> SUFFICES ASSUME LongGaps
               PROVE  AllApart'
    OBVIOUS
  <2> USE DEF AllApart
  <2>1. WindowsOver'
    BY <1>1, ElsewhereOver
  <2>2. ASSUME NEW f \in InTransit'
        PROVE  Apart(f.burst, f.sent, f.sent + MaxLag)'
    <3>1. CASE f \in InTransit
      <4>1. Apart(f.burst, f.sent, f.sent + MaxLag) /\ Placed(f.burst, f.sent)
        BY <3>1 DEF AllPlaced
      <4>2. f.sent + MaxLag <= clock + MaxLag /\ f.burst <= Len(gt) + 1
        <5>1. f.sent <= clock /\ f.burst <= Len(gt) + 1
          BY <4>1 DEF Placed
        <5>2. f.sent \in Nat /\ clock \in Nat /\ MaxLag \in Nat
          BY <3>1, <1>1, <1>2, BurstsAssumption DEF GeneratorTyped
        <5> QED
          BY <5>1, <5>2
      <4> QED
        BY <4>1, <4>2, <3>1, <1>1, <1>2, ElsewhereApart
    <3>2. CASE f \in put
      <4>1. f.sent = clock /\ (f.burst = 0 \/ (f.burst = Len(gt) + 1 /\ Attacking /\ Attacking' /\ gt' = gt))
        BY <3>2
      <4>2. CASE f.burst = 0
        BY <4>1, <4>2, <1>1 DEF Apart, GeneratorTyped
      <4>3. CASE f.burst = Len(gt) + 1 /\ Attacking /\ Attacking' /\ gt' = gt
        <5>1. \A w \in 1 .. Len(gt) : gt[w].end < clock
          <6>1. a_start \in Nat /\ clock \in Nat /\ a_start <= clock
            BY <4>3, <1>1 DEF LateInv, GeneratorTyped
          <6>2. \A w \in 1 .. Len(gt) : gt[w].end \in Nat /\ gt[w].end < a_start
            BY <4>3, <1>1 DEF WindowsOver, GeneratorTyped
          <6> QED
            BY <6>1, <6>2
        <5> QED
          BY <4>1, <4>3, <5>1, <1>1 DEF Apart, GeneratorTyped, Attacking, Between
      <4> QED
        BY <4>1, <4>2, <4>3
    <3> QED
      BY <3>1, <3>2
  <2>3. ASSUME NEW p \in pred
        PROVE  Apart(p.burst, p.ts, p.ts)'
    <3>1. Apart(p.burst, p.ts, p.ts) /\ Placed(p.burst, p.ts)
      BY DEF AllPlaced
    <3>2. p.ts <= clock + MaxLag /\ p.burst <= Len(gt) + 1
      BY <3>1, <1>1, <1>3, BurstsAssumption DEF Placed, GeneratorTyped
    <3> QED
      BY <3>1, <3>2, <1>1, <1>3, ElsewhereApart
  <2> QED
    BY <2>1, <2>2, <2>3
<1> QED
  BY <1>4, <1>5, <1>6

LEMMA LoopBurst ==
    ASSUME BurstInv, Bursts!Loop \/ Bursts!Test \/ Bursts!Kill \/ Bursts!Begin
    PROVE  BurstInv'
<1> USE DEF BurstInv
<1>1. GeneratorTyped
  BY GeneratorIsTyped
<1>2. /\ clock' = clock /\ UNCHANGED <<det, frame, pred, bus, gt, next_attack_at, next_send>>
  BY DEF Bursts!Loop, Bursts!Test, Bursts!Kill, Bursts!Begin, Bursts!detVars
<1>3. \/ UNCHANGED <<a_start, a_end, wake, late>>
      \/ /\ a_start' = clock /\ a_end' = clock + BurstLength /\ wake' = clock /\ late' = 0
         /\ gen = "turn" /\ gen' = "test" /\ next_attack_at <= clock
  BY <1>1 DEF Bursts!Loop, Bursts!Test, Bursts!Kill, Bursts!Begin, GeneratorTyped
<1>4. Elsewhere
  BY <1>1, <1>2 DEF Elsewhere, Between, Attacking, GeneratorTyped, Bursts!Loop, Bursts!Test, Bursts!Kill, Bursts!Begin
<1>5. Bursts!TypeOK'
  <2>1. /\ gen' \in {"loop", "turn", "test", "send", "label", "done", "killed"}
        /\ gen' \in {"test", "send", "label"} => gen \in {"turn", "test", "send", "label"}
        /\ gen' \in {"test", "send", "label"} /\ gen = "turn" => a_end' = a_start' + BurstLength
        /\ gen' \in {"test", "send", "label"} /\ gen # "turn" => UNCHANGED <<a_start, a_end>>
    BY <1>2, <1>3 DEF Bursts!TypeOK, Bursts!Loop, Bursts!Test, Bursts!Kill, Bursts!Begin
  <2>2. /\ a_start' \in Bursts!Time /\ a_end' \in Nat /\ wake' \in Nat /\ late' \in Nat
    BY <1>1, <1>3, BurstsAssumption DEF Bursts!TypeOK, GeneratorTyped
  <2>3. Bursts!Burst' = Bursts!Burst
    BY <1>2 DEF Bursts!Burst
  <2> QED
    BY <1>2, <2>1, <2>2, <2>3 DEF Bursts!TypeOK
<1>6. LateInv'
  <2>1. CASE Bursts!Loop \/ Bursts!Kill
    BY <2>1 DEF Bursts!Loop, Bursts!Kill, LateInv, Attacking
  <2>2. CASE Bursts!Test
    BY <2>2, <1>1 DEF Bursts!Test, LateInv, Attacking, GeneratorTyped
  <2>3. CASE Bursts!Begin
    BY <2>3, <1>1 DEF Bursts!Begin, LateInv, Attacking, GeneratorTyped
  <2> QED
    BY <2>1, <2>2, <2>3
<1>7. InTransit' \subseteq InTransit
  BY <1>2, TransitSame
<1>8. /\ {} \in SUBSET Bursts!Frames
      /\ \A f \in InTransit' : f \in InTransit \/ f \in {}
  BY <1>7
<1> QED
  BY <1>2, <1>4, <1>5, <1>6, <1>8, GeneratorStep

LEMMA LabelBurst ==
    ASSUME BurstInv, Bursts!Label
    PROVE  BurstInv'
<1> USE DEF BurstInv
<1>1. GeneratorTyped
  BY GeneratorIsTyped
<1>2. /\ Len(gt') = Len(gt) + 1 /\ gen = "label" /\ gen' = "loop"
      /\ \E gap \in Gaps : next_attack_at' = clock + gap
      /\ UNCHANGED <<clock, a_start, a_end, wake, next_send, late, bus, det, frame, pred>>
  BY <1>1, Labelled
<1>3. Bursts!TypeOK'
  <2>1. next_attack_at' \in Nat
    BY <1>1, <1>2, BurstsAssumption DEF GeneratorTyped
  <2>2. gt' \in Seq([start : Bursts!Time, end : Nat])
    <3> DEFINE Window == [start : Bursts!Time, end : Nat]
               r == [start |-> a_start, end |-> a_end]
    <3>1. r \in Window /\ gt \in Seq(Window) /\ gt' = Append(gt, r)
      BY DEF Bursts!TypeOK, Bursts!Label
    <3> HIDE DEF Window, r
    <3>2. gt' \in Seq(Window)
      BY <3>1
    <3> QED
      BY <3>2 DEF Window
  <2>3. pred \subseteq [burst : 0 .. Bursts!Burst', ts : Bursts!Time]
    <3>1. Bursts!Burst \in Nat /\ Bursts!Burst' = Bursts!Burst + 1
      BY <1>1, <1>2 DEF Bursts!Burst, GeneratorTyped
    <3>2. 0 .. Bursts!Burst \subseteq 0 .. Bursts!Burst'
      BY <3>1
    <3> QED
      BY <3>2 DEF Bursts!TypeOK
  <2> QED
    BY <1>2, <2>1, <2>2, <2>3 DEF Bursts!TypeOK
<1>4. LateInv'
  BY <1>2 DEF LateInv, Attacking
<1>5. InTransit' \subseteq InTransit
  BY <1>2, TransitSame
<1>6. /\ {} \in SUBSET Bursts!Frames
      /\ \A f \in InTransit' : f \in InTransit \/ f \in {}
  BY <1>5
<1> QED
  BY <1>2, <1>3, <1>4, <1>6, GeneratorStep

(* The two steps that may send a frame.                                    *)
LEMMA SendBurst ==
    ASSUME BurstInv, Bursts!Normal \/ Bursts!Send
    PROVE  BurstInv'
<1> USE DEF BurstInv
<1>1. GeneratorTyped
  BY GeneratorIsTyped
<1>2. UNCHANGED <<clock, det, frame, pred, gt, a_start, a_end, next_attack_at>>
  BY DEF Bursts!Normal, Bursts!Send, Bursts!detVars
<1>3. \/ /\ gen = "turn" /\ gen' = "loop" /\ UNCHANGED <<wake, late, bus, next_send>>
      \/ /\ gen = "turn" /\ gen' = "loop" /\ UNCHANGED <<wake, late>> /\ next_send' = clock + Period
         /\ bus' = Append(bus, [burst |-> 0, sent |-> clock])
      \/ /\ gen = "send" /\ gen' = "test" /\ wake' = clock + 1 /\ next_send' = next_send
         /\ late' = late + (IF clock >= a_end THEN 1 ELSE 0)
         /\ bus' = Append(bus, [burst |-> Len(gt) + 1, sent |-> clock])
  BY DEF Bursts!Normal, Bursts!Send, Bursts!Put, Bursts!Burst
<1>4. PICK x \in Bursts!Frames :
        /\ x.sent = clock
        /\ x.burst = 0 \/ (x.burst = Len(gt) + 1 /\ gen = "send" /\ gen' = "test")
        /\ bus' = bus \/ bus' = Append(bus, x)
  <2>1. ASSUME NEW b \in Nat
        PROVE  /\ [burst |-> b, sent |-> clock] \in Bursts!Frames
               /\ [burst |-> b, sent |-> clock].sent = clock /\ [burst |-> b, sent |-> clock].burst = b
    BY DEF Bursts!Frames, Bursts!TypeOK
  <2>2. Len(gt) + 1 \in Nat /\ 0 \in Nat
    BY <1>1 DEF GeneratorTyped
  <2> QED
    BY <1>3, <2>1, <2>2
<1>5. \A f \in InTransit' : f \in InTransit \/ f \in {x}
  <2>1. CASE bus' = bus
    BY <2>1, <1>2, TransitSame
  <2>2. CASE bus' = Append(bus, x)
    BY <2>2, <1>2, TransitAppended DEF Bursts!TypeOK
  <2> QED
    BY <1>4, <2>1, <2>2
<1>6. Elsewhere
  BY <1>2, <1>3 DEF Elsewhere, Between, Attacking
<1>7. LateInv'
  BY <1>1, <1>2, <1>3 DEF LateInv, Attacking, GeneratorTyped
<1>8. Bursts!TypeOK'
  <2>1. wake' \in Nat /\ next_send' \in Nat /\ late' \in Nat
    BY <1>1, <1>3, BurstsAssumption DEF GeneratorTyped
  <2>2. bus' \in Seq(Bursts!Frames)
    BY <1>4 DEF Bursts!TypeOK
  <2>3. Bursts!Burst' = Bursts!Burst
    BY <1>2 DEF Bursts!Burst
  <2> QED
    BY <1>2, <1>3, <2>1, <2>2, <2>3 DEF Bursts!TypeOK
<1>9. \A f \in {x} : /\ f.sent = clock
                     /\ f.burst = 0 \/ (f.burst = Len(gt) + 1 /\ Attacking /\ Attacking' /\ gt' = gt)
  BY <1>2, <1>4 DEF Attacking
<1>10. {x} \in SUBSET Bursts!Frames
  BY <1>4
<1> QED
  BY <1>2, <1>5, <1>6, <1>7, <1>8, <1>9, <1>10, GeneratorStep

-----------------------------------------------------------------------------
(* Time and the detector leave the generator alone.                        *)
LEMMA TickBurst ==
    ASSUME BurstInv, Bursts!Tick
    PROVE  BurstInv'
<1> USE DEF BurstInv
<1>1. /\ clock < BurstsClock /\ clock' = clock + 1
      /\ UNCHANGED <<gen, a_start, a_end, next_attack_at, wake, next_send, gt, late, bus, det, frame, pred>>
  BY DEF Bursts!Tick, Bursts!genVars, Bursts!detVars
<1>2. GeneratorTyped
  BY GeneratorIsTyped
<1>3. InTransit' = InTransit
  BY <1>1 DEF InTransit
<1>4. \A f \in InTransit : f.burst \in Nat /\ f.sent \in Nat
  BY TransitTyped DEF Bursts!TypeOK
<1>5. \A p \in pred : p.ts \in Nat
  BY BurstsAssumption DEF Bursts!TypeOK, Bursts!Time
<1>6. KeepsUp'
  <2> SUFFICES ASSUME det # "done", NEW f \in InTransit
               PROVE  clock + 1 <= f.sent + MaxLag
    BY <1>1, <1>3 DEF KeepsUp
  <2>1. \A i \in DOMAIN Bursts!Waiting : clock < Bursts!Waiting[i].sent + MaxLag
    BY DEF Bursts!Tick
  <2>2. \E i \in DOMAIN Bursts!Waiting : Bursts!Waiting[i] = f
    <3>1. bus \in Seq(Bursts!Frames) /\ frame \in Bursts!Frames
      BY DEF Bursts!TypeOK
    <3>2. CASE det = "work"
      <4>1. Bursts!Waiting = <<frame>> \o bus
        BY <3>2 DEF Bursts!Waiting
      <4>2. /\ Len(<<frame>> \o bus) = Len(bus) + 1 /\ (<<frame>> \o bus)[1] = frame
            /\ \A i \in 1 .. Len(bus) : (<<frame>> \o bus)[i + 1] = bus[i]
            /\ DOMAIN (<<frame>> \o bus) = 1 .. Len(bus) + 1 /\ Len(bus) \in Nat
        BY <3>1
      <4>3. CASE f = frame
        BY <4>1, <4>2, <4>3
      <4>4. ASSUME NEW i \in 1 .. Len(bus), f = bus[i]
            PROVE  i + 1 \in DOMAIN Bursts!Waiting /\ Bursts!Waiting[i + 1] = f
        BY <4>1, <4>2, <4>4
      <4> QED
        BY <4>3, <4>4 DEF InTransit
    <3>3. CASE det # "work"
      BY <3>1, <3>3 DEF Bursts!Waiting, InTransit
    <3> QED
      BY <3>2, <3>3
  <2> QED
    BY <2>1, <2>2, <1>2, <1>4, BurstsAssumption DEF GeneratorTyped
<1>7. AllPlaced'
  BY <1>1, <1>2, <1>3, <1>4, <1>5 DEF AllPlaced, Placed, Attacking, Between, GeneratorTyped
<1>8. LongGaps => AllApart'
  BY <1>1, <1>3 DEF AllApart, Apart, WindowsOver, Attacking, Between
<1>9. LateInv'
  BY <1>1, <1>2 DEF LateInv, Attacking, GeneratorTyped
<1>10. Bursts!TypeOK'
  BY <1>1, <1>2, BurstsAssumption DEF Bursts!TypeOK, Bursts!Time, Bursts!Burst, GeneratorTyped
<1> QED
  BY <1>6, <1>7, <1>8, <1>9, <1>10

LEMMA ReceiveBurst ==
    ASSUME BurstInv, Bursts!Receive \/ Bursts!Stop
    PROVE  BurstInv'
<1> USE DEF BurstInv
<1>1. /\ UNCHANGED <<clock, gen, a_start, a_end, next_attack_at, wake, next_send, gt, late, pred>>
      /\ det = "recv" /\ det' \in {"work", "done"}
  BY DEF Bursts!Receive, Bursts!Stop, Bursts!genVars
<1>2. InTransit' \subseteq InTransit
  <2>1. CASE Bursts!Receive
    BY <2>1, TransitReceived DEF Bursts!TypeOK
  <2>2. CASE Bursts!Stop
    BY <2>2, TransitSame DEF Bursts!Stop
  <2> QED
    BY <2>1, <2>2
<1>3. Bursts!TypeOK'
  <2>1. bus' \in Seq(Bursts!Frames) /\ frame' \in Bursts!Frames
    BY DEF Bursts!Receive, Bursts!Stop, Bursts!TypeOK
  <2> QED
    BY <1>1, <2>1 DEF Bursts!TypeOK, Bursts!Burst
<1>4. KeepsUp'
  BY <1>1, <1>2 DEF KeepsUp
<1>5. AllPlaced'
  BY <1>1, <1>2 DEF AllPlaced, Placed, Attacking, Between
<1>6. LongGaps => AllApart'
  BY <1>1, <1>2 DEF AllApart, Apart, WindowsOver, Attacking, Between
<1>7. LateInv'
  BY <1>1 DEF LateInv, Attacking
<1> QED
  BY <1>3, <1>4, <1>5, <1>6, <1>7

(* The prediction of a frame comes after it, and while it may still wait.  *)
LEMMA WriteBurst ==
    ASSUME BurstInv, Bursts!Write
    PROVE  BurstInv'
<1> USE DEF BurstInv
<1>0. PICK q : q = [burst |-> frame.burst, ts |-> clock]
  OBVIOUS
<1>1. /\ UNCHANGED <<clock, gen, a_start, a_end, next_attack_at, wake, next_send, gt, late, bus>>
      /\ det = "work" /\ det' = "recv" /\ pred' = pred \cup {q} /\ frame' = Bursts!None
  BY <1>0 DEF Bursts!Write, Bursts!genVars
<1>2. q.burst = frame.burst /\ q.ts = clock
  BY <1>0
<1>3. frame \in InTransit
  BY <1>1 DEF InTransit
<1>4. InTransit' \subseteq InTransit
  BY <1>1, TransitSame
<1>5. GeneratorTyped
  BY GeneratorIsTyped
<1>6. frame.burst \in Nat /\ frame.sent \in Nat
  BY <1>3, TransitTyped DEF Bursts!TypeOK
<1>7. /\ Placed(frame.burst, frame.sent)
      /\ frame.sent <= clock /\ clock <= frame.sent + MaxLag /\ frame.burst <= Len(gt) + 1
  BY <1>1, <1>3 DEF AllPlaced, Placed, KeepsUp
<1>8. Placed(frame.burst, clock)
  BY <1>5, <1>6, <1>7 DEF Placed, GeneratorTyped
<1>9. AllPlaced'
  <2>1. \A f \in InTransit : Placed(f.burst, f.sent)'
    BY <1>1 DEF AllPlaced, Placed, Attacking, Between
  <2>2. \A p \in pred : Placed(p.burst, p.ts)'
    BY <1>1 DEF AllPlaced, Placed, Attacking, Between
  <2>3. Placed(q.burst, q.ts)'
    BY <1>1, <1>2, <1>8 DEF Placed, Attacking, Between
  <2> QED
    BY <1>1, <1>4, <2>1, <2>2, <2>3 DEF AllPlaced
<1>10. ASSUME LongGaps
       PROVE  AllApart'
  <2>0. AllApart
    BY <1>10
  <2>1. \A f \in InTransit : Apart(f.burst, f.sent, f.sent + MaxLag)'
    BY <1>1, <2>0 DEF AllApart, Apart, Attacking, Between
  <2>2. \A p \in pred : Apart(p.burst, p.ts, p.ts)'
    BY <1>1, <2>0 DEF AllApart, Apart, Attacking, Between
  <2>3. Apart(frame.burst, clock, clock)
    <3>1. Apart(frame.burst, frame.sent, frame.sent + MaxLag)
      BY <1>3, <2>0 DEF AllApart
    <3> QED
      <4>1. MaxLag \in Nat /\ clock \in Nat
        BY <1>5, BurstsAssumption DEF GeneratorTyped
      <4>2. \A n \in Nat : n < frame.sent => n < clock
        BY <4>1, <1>6, <1>7
      <4>2a. \A n \in Nat : frame.sent + MaxLag < n => clock < n
        BY <4>1, <1>6, <1>7
      <4>3. \A w \in 1 .. Len(gt) : gt[w].start \in Nat /\ gt[w].end \in Nat
        BY <1>5 DEF GeneratorTyped
      <4>4. a_start \in Nat /\ next_attack_at \in Nat
        BY <1>5 DEF GeneratorTyped
      <4>5. ASSUME NEW w \in 1 .. Len(gt)
            PROVE  /\ w < frame.burst => gt[w].end < clock
                   /\ 1 <= frame.burst /\ frame.burst < w => clock < gt[w].start
        <5>1. /\ w < frame.burst => gt[w].end < frame.sent
              /\ 1 <= frame.burst /\ frame.burst < w => frame.sent + MaxLag < gt[w].start
          BY <3>1 DEF Apart
        <5> QED
          BY <5>1, <4>2, <4>2a, <4>3
      <4>6. /\ Attacking /\ frame.burst \in 1 .. Len(gt) => clock < a_start
            /\ Between /\ 1 <= frame.burst => clock < next_attack_at
        <5>1. /\ Attacking /\ frame.burst \in 1 .. Len(gt) => frame.sent + MaxLag < a_start
              /\ Between /\ 1 <= frame.burst => frame.sent + MaxLag < next_attack_at
          BY <3>1 DEF Apart
        <5> QED
          BY <5>1, <4>2a, <4>4
      <4> QED
        BY <4>5, <4>6 DEF Apart
  <2>4. Apart(q.burst, q.ts, q.ts)'
    BY <1>1, <1>2, <2>3 DEF Apart, Attacking, Between
  <2>5. WindowsOver'
    BY <1>1, <2>0 DEF AllApart, WindowsOver, Attacking, Between
  <2> QED
    BY <1>1, <1>4, <2>1, <2>2, <2>4, <2>5 DEF AllApart
<1>11. KeepsUp'
  BY <1>1, <1>4 DEF KeepsUp
<1>12. LateInv'
  BY <1>1 DEF LateInv, Attacking
<1>13. Bursts!TypeOK'
  <2>1. q \in [burst : 0 .. Bursts!Burst, ts : Bursts!Time]
    BY <1>0, <1>5, <1>6, <1>7 DEF Bursts!TypeOK, Bursts!Burst, GeneratorTyped
  <2>2. Bursts!None \in Bursts!Frames
    BY BurstsAssumption DEF Bursts!None, Bursts!Frames, Bursts!Time
  <2> QED
    BY <1>1, <2>1, <2>2 DEF Bursts!TypeOK, Bursts!Burst
<1> QED
  BY <1>9, <1>10, <1>11, <1>12, <1>13

-----------------------------------------------------------------------------
LEMMA WindowsInit == Init => WindowsInv
<1> SUFFICES ASSUME Init
             PROVE  WindowsInv
  OBVIOUS
<1>1. Bursts!Init
  BY DEF Init
<1>2. gt = <<>> /\ pred = {} /\ late = 0 /\ gen = "loop" /\ clock = 0
  BY <1>1 DEF Bursts!Init
<1>3. Bursts!TypeOK
  <2>1. <<>> \in Seq([start : Bursts!Time, end : Nat]) /\ <<>> \in Seq(Bursts!Frames)
    OBVIOUS
  <2>2. Bursts!None \in Bursts!Frames
    BY BurstsAssumption DEF Bursts!None, Bursts!Frames, Bursts!Time
  <2>3. /\ clock \in Bursts!Time /\ a_start \in Bursts!Time /\ a_end \in Nat
        /\ next_attack_at \in Nat /\ wake \in Nat /\ next_send \in Nat /\ late \in Nat
    BY <1>1, BurstsAssumption DEF Bursts!Init, Bursts!Time
  <2> QED
    BY <1>1, <2>1, <2>2, <2>3 DEF Bursts!Init, Bursts!TypeOK
<1>4. InTransit = {}
  BY <1>1 DEF Bursts!Init, InTransit
<1> QED
  BY <1>2, <1>3, <1>4 DEF WindowsInv, BurstInv, LateInv, KeepsUp, AllPlaced, AllApart, WindowsOver,
     Attacking

(* Another program's step, or none, does not touch the burst experiment.   *)
LEMMA WindowsStep ==
    ASSUME WindowsInv, [Next]_vars
    PROVE  WindowsInv'
<1>1. CASE Evaluate \/ Build \/ Long(Stability!Next)
  BY <1>1 DEF Evaluate, Build, Long, burstVars, WindowsInv
<1>2. CASE Burst
  <2>1. experiment = "bursts" /\ experiment' = experiment /\ Bursts!Next
    BY <1>2 DEF Burst
  <2>2. BurstInv
    BY <2>1 DEF WindowsInv
  <2>3. BurstInv'
    BY <2>1, <2>2, LoopBurst, LabelBurst, SendBurst, TickBurst, ReceiveBurst, WriteBurst
       DEF Bursts!Next
  <2> QED
    BY <2>1, <2>3 DEF WindowsInv
<1>3. CASE UNCHANGED vars
  <2>1. UNCHANGED burstVars /\ clock' = clock /\ experiment' = experiment
    BY <1>3 DEF vars
  <2>2. CASE experiment = "bursts"
    BY <2>1, <2>2 DEF burstVars, WindowsInv, BurstInv, Bursts!TypeOK, Bursts!Burst, LateInv, KeepsUp,
       AllPlaced, Placed, AllApart, WindowsOver, Apart, Attacking, Between, InTransit
  <2>3. CASE experiment # "bursts"
    BY <2>1, <2>3 DEF burstVars, WindowsInv
  <2> QED
    BY <2>2, <2>3
<1> QED
  BY <1>1, <1>2, <1>3 DEF Next

LEMMA WindowsOfInvariant == WindowsInv => Windows
<1> SUFFICES ASSUME WindowsInv
             PROVE  Windows
  OBVIOUS
<1>1. CASE experiment # "bursts"
  BY <1>1 DEF WindowsInv, Windows, Bursts!OwnWindow, Bursts!InWindow, Bursts!NotBeforeWindow,
     Bursts!OneLateFrame
<1>2. CASE experiment = "bursts"
  <2>1. BurstInv /\ GeneratorTyped
    BY <1>2, GeneratorIsTyped DEF WindowsInv, BurstInv
  <2>2. DOMAIN gt = 1 .. Len(gt)
    BY <2>1 DEF GeneratorTyped
  <2>3. \A p \in pred : p.burst \in Nat /\ p.ts \in Nat
    <3> SUFFICES ASSUME NEW p \in pred
                 PROVE  p.burst \in Nat /\ p.ts \in Nat
      OBVIOUS
    <3>1. p \in [burst : 0 .. Bursts!Burst, ts : Bursts!Time] /\ Bursts!Burst \in Nat
      BY <2>1 DEF BurstInv, Bursts!TypeOK, Bursts!Burst, GeneratorTyped
    <3>2. p.burst \in 0 .. Bursts!Burst /\ p.ts \in Bursts!Time
      BY <3>1
    <3> QED
      BY <3>1, <3>2, BurstsAssumption DEF Bursts!Time
  <2>4. Bursts!NotBeforeWindow
    BY <2>1, <2>2 DEF BurstInv, AllPlaced, Placed, Bursts!NotBeforeWindow
  <2>5. Bursts!OwnWindow
    <3> SUFFICES ASSUME LongGaps, NEW w \in 1 .. Len(gt), NEW p \in Bursts!InWindow(w)
                 PROVE  p.burst \in {0, w}
      BY <2>2 DEF Bursts!OwnWindow, LongGaps
    <3>1. p \in pred /\ gt[w].start <= p.ts /\ p.ts <= gt[w].end
      BY DEF Bursts!InWindow
    <3>2. Apart(p.burst, p.ts, p.ts)
      BY <3>1, <2>1 DEF BurstInv, AllApart
    <3> QED
      BY <3>1, <3>2, <2>1, <2>3 DEF Apart, GeneratorTyped
  <2> QED
    BY <2>1, <2>4, <2>5 DEF BurstInv, LateInv, Windows, Bursts!OneLateFrame
<1> QED
  BY <1>1, <1>2

(* The predictions in the window of an attack are for that attack or for   *)
(* normal frames, and none is earlier than its window, for any lag that is *)
(* shorter than the gaps.                                                  *)
THEOREM BurstWindows == Spec => []Windows
BY WindowsInit, WindowsStep, WindowsOfInvariant, PTL DEF Spec

-----------------------------------------------------------------------------
(***************************************************************************)
(* Part 3.  The rows of the long run.                                      *)
(***************************************************************************)

(* A division by the length of an interval.                                *)
LEMMA Quotient ==
    ASSUME NEW n \in Nat
    PROVE  /\ n \div Interval \in Nat
           /\ Interval * (n \div Interval) <= n
           /\ n < Interval * (n \div Interval + 1)
BY StabilityAssumption

(* A multiple of the interval between two times puts them into two         *)
(* intervals.                                                              *)
LEMMA MultipleBetween ==
    ASSUME NEW a \in Nat, NEW b \in Nat, NEW k \in Nat,
           a < Interval * k, Interval * k <= b
    PROVE  a \div Interval < b \div Interval
<1> DEFINE p == a \div Interval
           q == b \div Interval
<1>1. p \in Nat /\ q \in Nat /\ Interval * p <= a /\ b < Interval * (q + 1)
  BY Quotient
<1> HIDE DEF p, q
<1>2. Interval \in Nat /\ Interval > 0
  BY StabilityAssumption
<1>3. p < k
  BY <1>1, <1>2
<1>4. k < q + 1
  BY <1>1, <1>2
<1>5. p < q
  BY <1>1, <1>3, <1>4
<1> QED
  BY <1>5 DEF p, q

-----------------------------------------------------------------------------
(* The reports come at multiples of the interval.                          *)
OnMultiples == \E k \in 0 .. next_report : next_report = Interval * k

(* The rows kept account for the time and the frames before interval_start *)
(* or, within a report, before now.                                        *)
RowsLinked ==
    /\ \A i \in 2 .. Len(rows) :
         /\ rows[i].elapsed = rows[i - 1].elapsed + rows[i].sec
         /\ rows[i].cumulative = rows[i - 1].cumulative + rows[i].frames
    /\ rows # <<>> => rows[1].elapsed = rows[1].sec /\ rows[1].cumulative = rows[1].frames
    /\ pc \notin {"write", "reset", "done"} =>
         /\ interval_start = IF rows = <<>> THEN 0 ELSE rows[Len(rows)].elapsed
         /\ total_frames = interval_frames + IF rows = <<>> THEN 0 ELSE rows[Len(rows)].cumulative
    /\ pc \in {"write", "reset"} =>
         /\ rows # <<>>
         /\ rows[Len(rows)].elapsed = now /\ rows[Len(rows)].cumulative = total_frames
    /\ pc = "done" /\ ~interrupted =>
         total_frames = interval_frames + IF rows = <<>> THEN 0 ELSE rows[Len(rows)].cumulative

(* The file has the rows kept or, from the keeping of a row to its writing *)
(* and if the loop is left in between, all of them but the last.           *)
FileFollows ==
    /\ Len(rows) \in {Len(file), Len(file) + 1}
    /\ \A i \in 1 .. Len(file) : file[i] = rows[i]
    /\ pc = "write" => Len(rows) = Len(file) + 1
    /\ pc \notin {"write", "done"} \/ (pc = "done" /\ ~interrupted) => Len(rows) = Len(file)
    /\ interrupted => pc = "done"

(* The rows kept end by now, and outside of a report before the next one.  *)
RowsEnd ==
    /\ \A i \in 1 .. Len(rows) : rows[i].elapsed <= now
    /\ pc \notin {"write", "reset", "done"} => \A i \in 1 .. Len(rows) : rows[i].elapsed < next_report
    /\ pc = "keep" => now >= next_report \/ now >= Duration

LongInv ==
    /\ Stability!TypeOK
    /\ OnMultiples
    /\ RowsLinked
    /\ FileFollows
    /\ RowsEnd
    /\ Stability!NotTwoRowsAnInterval

(* Of another program's run the long run's variables are at rest.          *)
RowsInv ==
    IF experiment = "stability" THEN LongInv
    ELSE pc = "test" /\ rows = <<>> /\ file = <<>>

-----------------------------------------------------------------------------
(* Where the report after now comes.                                       *)
LEMMA FirstLaterMultiple ==
    ASSUME next_report \in Nat, OnMultiples, now \in Nat
    PROVE  /\ Stability!FirstLater \in Nat
           /\ Stability!FirstLater > now
           /\ \E k \in 0 .. Stability!FirstLater : Stability!FirstLater = Interval * k
<1>1. PICK k \in Nat : next_report = Interval * k
  BY DEF OnMultiples
<1>2. Interval \in Nat /\ Interval > 0
  BY StabilityAssumption
<1>3. CASE next_report > now
  BY <1>3, <1>1 DEF Stability!FirstLater, OnMultiples
<1>4. CASE ~(next_report > now)
  <2> DEFINE q == (now - next_report) \div Interval
  <2>1. q \in Nat /\ now - next_report < Interval * (q + 1)
    BY <1>4, Quotient
  <2> HIDE DEF q
  <2>2. Stability!FirstLater = next_report + Interval * (q + 1)
    BY <1>4 DEF Stability!FirstLater, q
  <2>3. Interval * (q + 1) \in Nat /\ Interval * k \in Nat
    BY <2>1, <1>1, <1>2
  <2>4. Stability!FirstLater = Interval * (k + q + 1)
    BY <2>1, <2>2, <1>1, <1>2
  <2>5. k + q + 1 <= Interval * (k + q + 1)
    BY <2>1, <1>1, <1>2
  <2>6. k + q + 1 \in 0 .. Stability!FirstLater
    BY <2>1, <2>3, <2>2, <2>4, <2>5, <1>1
  <2> QED
    BY <2>1, <2>2, <2>3, <2>4, <2>6
<1> QED
  BY <1>3, <1>4

(* What a row counts are numbers.                                          *)
LEMMA RowsOfNumbers ==
    ASSUME rows \in Seq(Stability!Rows)
    PROVE  \A i \in 1 .. Len(rows) : rows[i].elapsed \in Nat /\ rows[i].cumulative \in Nat
<1> SUFFICES ASSUME NEW i \in 1 .. Len(rows)
             PROVE  rows[i].elapsed \in Nat /\ rows[i].cumulative \in Nat
  OBVIOUS
<1>1. rows[i] \in Stability!Rows
  OBVIOUS
<1> QED
  BY <1>1, StabilityAssumption DEF Stability!Rows

LEMMA RowsInit == Init => RowsInv
<1> SUFFICES ASSUME Init
             PROVE  RowsInv
  OBVIOUS
<1> USE StabilityAssumption
<1>1. Stability!Init
  BY DEF Init
<1>2. Stability!TypeOK
  <2>1. <<>> \in Seq(Stability!Rows)
    OBVIOUS
  <2>2. /\ clock \in 0 .. StabilityClock /\ now \in 0 .. clock /\ interval_start \in 0 .. now
        /\ total_frames \in 0 .. MaxFrames /\ interval_frames \in 0 .. total_frames
        /\ next_report \in Nat
    BY <1>1 DEF Stability!Init
  <2> QED
    BY <1>1, <2>1, <2>2 DEF Stability!Init, Stability!TypeOK, Stability!Steps
<1>3. OnMultiples
  BY <1>1 DEF Stability!Init, OnMultiples
<1> QED
  BY <1>1, <1>2, <1>3 DEF Stability!Init, RowsInv, LongInv, RowsLinked, FileFollows, RowsEnd,
     Stability!NotTwoRowsAnInterval

(* Time and the steps before a report leave rows and file alone.           *)
LEMMA TickLong ==
    ASSUME LongInv, Stability!Tick
    PROVE  LongInv'
<1> USE StabilityAssumption
<1>1. /\ clock \in 0 .. clock' /\ clock' \in 0 .. StabilityClock
      /\ UNCHANGED <<pc, now, interval_start, next_report, total_frames, interval_frames>>
      /\ UNCHANGED <<rows, file, interrupted>>
  BY DEF LongInv, Stability!Tick, Stability!TypeOK, Stability!marks, Stability!counts,
         Stability!reports
<1>2. Stability!TypeOK'
  BY <1>1 DEF LongInv, Stability!TypeOK
<1> QED
  BY <1>1, <1>2 DEF LongInv, OnMultiples, RowsLinked, FileFollows, RowsEnd,
     Stability!NotTwoRowsAnInterval

LEMMA TestLong ==
    ASSUME LongInv, Stability!Test
    PROVE  LongInv'
<1>1. /\ pc = "test" /\ pc' \in {"receive", "done"} /\ clock' = clock
      /\ UNCHANGED <<now, interval_start, next_report, total_frames, interval_frames>>
      /\ UNCHANGED <<rows, file, interrupted>>
  BY DEF Stability!Test, Stability!TestEnd, Stability!marks, Stability!counts, Stability!reports
<1>2. Stability!TypeOK'
  BY <1>1 DEF LongInv, Stability!TypeOK, Stability!Steps
<1> QED
  BY <1>1, <1>2 DEF LongInv, OnMultiples, RowsLinked, FileFollows, RowsEnd,
     Stability!NotTwoRowsAnInterval

LEMMA ReceiveLong ==
    ASSUME LongInv, Stability!Receive
    PROVE  LongInv'
<1>1. /\ pc = "receive" /\ pc' = "check" /\ clock' = clock
      /\ UNCHANGED <<now, interval_start, next_report, rows, file, interrupted>>
  BY DEF Stability!Receive, Stability!marks, Stability!counts, Stability!reports
<1>2. \/ total_frames' = total_frames + 1 /\ interval_frames' = interval_frames + 1
         /\ total_frames < MaxFrames
      \/ total_frames' = total_frames /\ interval_frames' = interval_frames
  BY DEF Stability!Receive, Stability!counts
<1>3. Stability!TypeOK'
  BY <1>1, <1>2, StabilityAssumption DEF LongInv, Stability!TypeOK, Stability!Steps
<1>4. RowsLinked'
  <2>1. total_frames \in Nat /\ interval_frames \in Nat
    BY StabilityAssumption DEF LongInv, Stability!TypeOK
  <2> DEFINE c == IF rows = <<>> THEN 0 ELSE rows[Len(rows)].cumulative
  <2>2. c \in Nat
    <3>1. rows \in Seq(Stability!Rows)
      BY DEF LongInv, Stability!TypeOK
    <3>2. rows # <<>> => Len(rows) \in 1 .. Len(rows)
      BY <3>1
    <3> QED
      BY <3>1, <3>2, RowsOfNumbers
  <2> HIDE DEF c
  <2>3. total_frames = interval_frames + c
    BY <1>1 DEF LongInv, RowsLinked, c
  <2>4. total_frames' = interval_frames' + c
    BY <1>2, <2>1, <2>2, <2>3
  <2> QED
    BY <1>1, <2>4 DEF LongInv, RowsLinked, c
<1> QED
  BY <1>1, <1>3, <1>4 DEF LongInv, OnMultiples, FileFollows, RowsEnd,
     Stability!NotTwoRowsAnInterval

LEMMA CheckLong ==
    ASSUME LongInv, Stability!Check
    PROVE  LongInv'
<1>1. /\ pc = "check" /\ clock' = clock /\ now' = clock
      /\ pc' = IF clock >= next_report \/ clock >= Duration THEN "keep" ELSE "test"
      /\ UNCHANGED <<interval_start, next_report, total_frames, interval_frames>>
      /\ UNCHANGED <<rows, file, interrupted>>
  BY DEF Stability!Check, Stability!marks, Stability!counts, Stability!reports
<1>2. now' >= now /\ now \in Nat /\ now' \in Nat
  BY <1>1, StabilityAssumption DEF LongInv, Stability!TypeOK
<1>3. Stability!TypeOK'
  BY <1>1, <1>2, StabilityAssumption DEF LongInv, Stability!TypeOK, Stability!Steps
<1>4. \A i \in 1 .. Len(rows) : rows[i].elapsed \in Nat
  BY RowsOfNumbers DEF LongInv, Stability!TypeOK
<1>5. RowsEnd'
  BY <1>1, <1>2, <1>4 DEF LongInv, RowsEnd
<1> QED
  BY <1>1, <1>3, <1>5 DEF LongInv, OnMultiples, RowsLinked, FileFollows,
     Stability!NotTwoRowsAnInterval

(* The row that is kept.                                                   *)
LEMMA KeepLong ==
    ASSUME LongInv, Stability!Keep
    PROVE  LongInv'
<1> USE StabilityAssumption
<1> DEFINE r == [elapsed |-> now, sec |-> now - interval_start,
                 frames |-> interval_frames, cumulative |-> total_frames]
           n == Len(rows)
<1>1. /\ pc = "keep" /\ pc' = "write" /\ clock' = clock /\ rows' = Append(rows, r)
      /\ UNCHANGED <<now, interval_start, next_report, total_frames, interval_frames>>
      /\ UNCHANGED <<file, interrupted>>
  BY DEF Stability!Keep, Stability!Row, Stability!marks, Stability!counts
<1>2. r \in Stability!Rows
  BY DEF LongInv, Stability!TypeOK, Stability!Rows
<1>3. rows \in Seq(Stability!Rows) /\ n \in Nat
  BY DEF LongInv, Stability!TypeOK
<1>4. /\ rows' \in Seq(Stability!Rows) /\ Len(rows') = n + 1 /\ rows' # <<>>
      /\ rows'[n + 1] = r /\ \A i \in 1 .. n : rows'[i] = rows[i]
  BY <1>1, <1>2, <1>3
<1>6. \A i \in 1 .. n : rows[i].elapsed \in Nat /\ rows[i].cumulative \in Nat
  BY <1>3, RowsOfNumbers
<1>7. /\ r.elapsed = now /\ r.sec = now - interval_start
      /\ r.frames = interval_frames /\ r.cumulative = total_frames
      /\ now \in Nat /\ interval_start \in Nat /\ total_frames \in Nat /\ interval_frames \in Nat
      /\ next_report \in Nat
  BY DEF LongInv, Stability!TypeOK
<1> HIDE DEF r, n
<1>8. Stability!TypeOK'
  BY <1>1, <1>4 DEF LongInv, Stability!TypeOK, Stability!Steps
<1>9. RowsLinked'
  <2>1. /\ interval_start = IF rows = <<>> THEN 0 ELSE rows[n].elapsed
        /\ total_frames = interval_frames + IF rows = <<>> THEN 0 ELSE rows[n].cumulative
    BY <1>1 DEF LongInv, RowsLinked, n
  <2>2. rows = <<>> <=> n = 0
    BY <1>3 DEF n
  <2>3. \A i \in 2 .. Len(rows') :
         /\ rows'[i].elapsed = rows'[i - 1].elapsed + rows'[i].sec
         /\ rows'[i].cumulative = rows'[i - 1].cumulative + rows'[i].frames
    <3> SUFFICES ASSUME NEW i \in 2 .. n + 1
                 PROVE  /\ rows'[i].elapsed = rows'[i - 1].elapsed + rows'[i].sec
                        /\ rows'[i].cumulative = rows'[i - 1].cumulative + rows'[i].frames
      BY <1>4
    <3>1. CASE i <= n
      BY <3>1, <1>3, <1>4 DEF LongInv, RowsLinked, n
    <3>2. CASE i = n + 1
      BY <3>2, <1>3, <1>4, <1>6, <1>7, <2>1, <2>2
    <3> QED
      BY <3>1, <3>2, <1>3
  <2>4. rows'[1].elapsed = rows'[1].sec /\ rows'[1].cumulative = rows'[1].frames
    <3>1. CASE n = 0
      BY <3>1, <1>4, <1>7, <2>1, <2>2
    <3>2. CASE n # 0
      BY <3>2, <1>3, <1>4, <2>2 DEF LongInv, RowsLinked
    <3> QED
      BY <3>1, <3>2
  <2> QED
    BY <1>1, <1>4, <1>7, <2>3, <2>4 DEF RowsLinked
<1>10. FileFollows'
  <2>1. file \in Seq(Stability!Rows) /\ Len(file) = n
    BY <1>1 DEF LongInv, FileFollows, Stability!TypeOK, n
  <2> QED
    BY <1>1, <1>3, <1>4, <2>1 DEF LongInv, FileFollows, n
<1>11. RowsEnd'
  <2>1. \A i \in 1 .. Len(rows') : rows'[i].elapsed <= now
    BY <1>3, <1>4, <1>6, <1>7 DEF LongInv, RowsEnd, n
  <2> QED
    BY <2>1, <1>1 DEF RowsEnd
<1>12. Stability!NotTwoRowsAnInterval'
  <2>1. ASSUME NEW i \in 1 .. n
        PROVE  rows[i].elapsed \div Interval < now \div Interval \/ now >= Duration
    <3>1. rows[i].elapsed < next_report /\ (now >= next_report \/ now >= Duration)
      BY <1>1 DEF LongInv, RowsEnd, n
    <3>2. PICK k \in Nat : next_report = Interval * k
      BY DEF LongInv, OnMultiples
    <3> QED
      BY <3>1, <3>2, <1>6, <1>7, MultipleBetween
  <2>2. DOMAIN rows' = 1 .. n + 1 /\ DOMAIN rows = 1 .. n
    BY <1>3, <1>4 DEF n
  <2> SUFFICES ASSUME NEW i \in 1 .. n + 1, NEW j \in 1 .. n + 1, i < j
               PROVE  \/ rows'[i].elapsed \div Interval < rows'[j].elapsed \div Interval
                      \/ rows'[j].elapsed >= Duration
    BY <1>1, <2>2 DEF Stability!NotTwoRowsAnInterval
  <2>3. CASE j <= n
    BY <2>2, <2>3, <1>3, <1>4 DEF LongInv, Stability!NotTwoRowsAnInterval
  <2>4. CASE j = n + 1
    BY <2>1, <2>4, <1>3, <1>4, <1>7
  <2> QED
    BY <2>3, <2>4, <1>3
<1>13. OnMultiples'
  BY <1>1 DEF LongInv, OnMultiples
<1> QED
  BY <1>8, <1>9, <1>10, <1>11, <1>12, <1>13 DEF LongInv

(* The row kept is written.                                                *)
LEMMA WriteLong ==
    ASSUME LongInv, Stability!Write
    PROVE  LongInv'
<1> USE StabilityAssumption
<1>1. /\ pc = "write" /\ pc' = "reset" /\ clock' = clock /\ file' = Append(file, rows[Len(rows)])
      /\ UNCHANGED <<now, interval_start, next_report, total_frames, interval_frames>>
      /\ UNCHANGED <<rows, interrupted>>
  BY DEF Stability!Write, Stability!Last, Stability!marks, Stability!counts
<1>2. /\ rows \in Seq(Stability!Rows) /\ file \in Seq(Stability!Rows)
      /\ Len(rows) = Len(file) + 1 /\ Len(file) \in Nat
  BY <1>1 DEF LongInv, Stability!TypeOK, FileFollows
<1>3. rows[Len(rows)] \in Stability!Rows
  BY <1>2
<1>4. /\ file' \in Seq(Stability!Rows) /\ Len(file') = Len(file) + 1
      /\ file'[Len(file) + 1] = rows[Len(rows)]
      /\ \A i \in 1 .. Len(file) : file'[i] = file[i]
  BY <1>1, <1>2, <1>3
<1>5. FileFollows'
  BY <1>1, <1>2, <1>4 DEF LongInv, FileFollows
<1>6. Stability!TypeOK'
  BY <1>1, <1>4 DEF LongInv, Stability!TypeOK, Stability!Steps
<1> QED
  BY <1>1, <1>5, <1>6 DEF LongInv, OnMultiples, RowsLinked, RowsEnd,
     Stability!NotTwoRowsAnInterval

LEMMA ResetLong ==
    ASSUME LongInv, Stability!Reset
    PROVE  LongInv'
<1> USE StabilityAssumption
<1>1. /\ pc = "reset" /\ pc' = "test" /\ clock' = clock /\ now' = now
      /\ interval_frames' = 0 /\ interval_start' = now /\ next_report' = Stability!FirstLater
      /\ UNCHANGED <<total_frames, rows, file, interrupted>>
  BY DEF Stability!Reset, Stability!reports
<1>2. /\ now \in Nat /\ next_report \in Nat /\ total_frames \in Nat /\ OnMultiples
      /\ \A i \in 1 .. Len(rows) : rows[i].elapsed \in Nat
  BY RowsOfNumbers DEF LongInv, Stability!TypeOK
<1>3. /\ next_report' \in Nat /\ next_report' > now
      /\ \E k \in 0 .. next_report' : next_report' = Interval * k
  BY <1>1, <1>2, FirstLaterMultiple
<1>4. OnMultiples'
  BY <1>1, <1>3 DEF OnMultiples
<1>5. RowsLinked'
  BY <1>1, <1>2 DEF LongInv, RowsLinked
<1>6. RowsEnd'
  BY <1>1, <1>2, <1>3 DEF LongInv, RowsEnd
<1>7. Stability!TypeOK'
  BY <1>1, <1>3 DEF LongInv, Stability!TypeOK, Stability!Steps
<1> QED
  BY <1>1, <1>4, <1>5, <1>6, <1>7 DEF LongInv, FileFollows, Stability!NotTwoRowsAnInterval

(* The interrupt stops the loop where it is.                               *)
LEMMA InterruptLong ==
    ASSUME LongInv, Stability!Interrupt
    PROVE  LongInv'
<1>1. /\ pc # "done" /\ pc' = "done" /\ interrupted' = TRUE /\ clock' = clock
      /\ UNCHANGED <<now, interval_start, next_report, total_frames, interval_frames>>
      /\ UNCHANGED <<rows, file>>
  BY DEF Stability!Interrupt, Stability!marks, Stability!counts, Stability!reports
<1>2. Stability!TypeOK'
  BY <1>1 DEF LongInv, Stability!TypeOK, Stability!Steps
<1> QED
  BY <1>1, <1>2 DEF LongInv, OnMultiples, RowsLinked, FileFollows, RowsEnd,
     Stability!NotTwoRowsAnInterval

(* Another program's step, or none, does not touch the long run.           *)
LEMMA RowsStep ==
    ASSUME RowsInv, [Next]_vars
    PROVE  RowsInv'
<1>1. CASE Evaluate \/ Burst \/ Build
  BY <1>1 DEF Evaluate, Burst, Build, stabilityVars, RowsInv
<1>2. CASE Long(Stability!Next)
  <2>1. experiment = "stability" /\ experiment' = experiment /\ Stability!Next
    BY <1>2 DEF Long
  <2>2. LongInv
    BY <2>1 DEF RowsInv
  <2>3. LongInv'
    BY <2>1, <2>2, TickLong, TestLong, ReceiveLong, CheckLong, KeepLong, WriteLong, ResetLong,
       InterruptLong DEF Stability!Next, Stability!Loop
  <2> QED
    BY <2>1, <2>3 DEF RowsInv
<1>3. CASE UNCHANGED vars
  BY <1>3 DEF vars, stabilityVars, RowsInv, LongInv, OnMultiples, RowsLinked, FileFollows, RowsEnd,
     Stability!NotTwoRowsAnInterval, Stability!TypeOK
<1> QED
  BY <1>1, <1>2, <1>3 DEF Next

(* What the rows add up to follows.                                        *)
LEMMA RowsOfInvariant == RowsInv => Rows
<1> SUFFICES ASSUME RowsInv
             PROVE  Rows
  OBVIOUS
<1> USE StabilityAssumption
<1>1. CASE experiment # "stability"
  BY <1>1 DEF RowsInv, Rows, Stability!RowsAddUp, Stability!NotTwoRowsAnInterval,
     Stability!SummaryOfFile, Stability!IsPrefix
<1>2. CASE experiment = "stability"
  <2>1. LongInv
    BY <1>2 DEF RowsInv
  <2>2. /\ rows \in Seq(Stability!Rows) /\ file \in Seq(Stability!Rows)
        /\ Len(rows) \in {Len(file), Len(file) + 1} /\ Len(file) \in Nat
        /\ \A i \in 1 .. Len(file) : file[i] = rows[i]
    BY <2>1 DEF LongInv, Stability!TypeOK, FileFollows
  <2>3. Stability!RowsAddUp
    <3>1. ASSUME NEW i \in DOMAIN file, i # 1
          PROVE  /\ file[i].elapsed = file[i - 1].elapsed + file[i].sec
                 /\ file[i].cumulative = file[i - 1].cumulative + file[i].frames
      <4>1. i \in 2 .. Len(file) /\ i \in 2 .. Len(rows)
        BY <3>1, <2>2
      <4>2. file[i] = rows[i] /\ file[i - 1] = rows[i - 1]
        BY <4>1, <2>2
      <4> QED
        BY <4>1, <4>2, <2>1 DEF LongInv, RowsLinked
    <3>2. ASSUME 1 \in DOMAIN file
          PROVE  /\ file[1].elapsed = 0 + file[1].sec
                 /\ file[1].cumulative = 0 + file[1].frames
      <4>1. rows # <<>> /\ file[1] = rows[1] /\ rows[1] \in Stability!Rows
        BY <3>2, <2>2
      <4>2. rows[1].elapsed = rows[1].sec /\ rows[1].cumulative = rows[1].frames
        BY <4>1, <2>1 DEF LongInv, RowsLinked
      <4>3. rows[1].elapsed \in Nat /\ rows[1].cumulative \in Nat
        BY <4>1 DEF Stability!Rows
      <4> QED
        BY <4>1, <4>2, <4>3
    <3>3. ASSUME pc = "done", ~interrupted
          PROVE  total_frames = interval_frames + (IF file = <<>> THEN 0 ELSE file[Len(file)].cumulative)
      <4>1. Len(rows) = Len(file)
        BY <3>3, <2>1 DEF LongInv, FileFollows
      <4>2. rows = file
        BY <4>1, <2>2
      <4> QED
        BY <3>3, <4>2, <2>1 DEF LongInv, RowsLinked
    <3> QED
      BY <3>1, <3>2, <3>3 DEF Stability!RowsAddUp, Stability!Last
  <2>4. Stability!SummaryOfFile
    <3>1. Len(file) <= Len(rows) /\ SubSeq(file, 1, Len(file)) = SubSeq(rows, 1, Len(file))
      BY <2>2
    <3>2. ASSUME pc = "done", ~interrupted
          PROVE  rows = file
      <4>1. Len(rows) = Len(file)
        BY <3>2, <2>1 DEF LongInv, FileFollows
      <4> QED
        BY <4>1, <2>2
    <3> QED
      BY <3>1, <3>2, <2>2 DEF Stability!SummaryOfFile, Stability!IsPrefix
  <2> QED
    BY <2>1, <2>3, <2>4 DEF LongInv, Rows
<1> QED
  BY <1>1, <1>2

(* The rows of the long run account for all its time and all its frames,   *)
(* in the file and in the summary, however long it is stalled and whenever *)
(* it is interrupted.                                                      *)
THEOREM LongRunRows == Spec => []Rows
BY RowsInit, RowsStep, RowsOfInvariant, PTL DEF Spec

-----------------------------------------------------------------------------
(***************************************************************************)
(* Part 4.  The histories of the feature builders.                         *)
(***************************************************************************)

(* The frames of an identifier in a log, read backwards, as the properties *)
(* of the builders read them.                                              *)
Seen(l, id) == {i \in DOMAIN l : l[i].id = id}
Since(l, id, i) == Features!Cardinality({j \in Seen(l, id) : j > i})
Count(l, id) == Features!Cardinality(Seen(l, id))
Ago(l, id, n) == l[CHOOSE i \in Seen(l, id) : Since(l, id, i) = n]
Past(l, id) == [n \in 0 .. Count(l, id) - 1 |-> Ago(l, id, n)]

(* So many frames of the identifier as there are have come so long ago.    *)
Ages(l) == \A id \in Ids : \A n \in 0 .. Count(l, id) - 1 :
    \E i \in Seen(l, id) : Since(l, id, i) = n

(* A frame in front of a past.                                             *)
Before(f, past, c) == [n \in 0 .. c |-> IF n = 0 THEN f ELSE past[n - 1]]

MinOf(m, n) == IF m <= n THEN m ELSE n
MaxOf(m, n) == IF m >= n THEN m ELSE n

(* What is kept of a past of c frames.                                     *)
Recent(c, past, deltas, iats, payloads) ==
    /\ Len(payloads) = MinOf(c, BYTE_WINDOW)
    /\ \A n \in 0 .. Len(payloads) - 1 : payloads[Len(payloads) - n] = past[n].pl
    /\ Len(deltas) = MinOf(c, TEMP_WINDOW)
    /\ \A n \in 0 .. Len(deltas) - 1 :
         deltas[Len(deltas) - n] =
             IF n + 1 = c THEN 0 ELSE Features!Distance(past[n].pl, past[n + 1].pl)
    /\ Len(iats) = IF c = 0 THEN 0 ELSE MinOf(c - 1, TEMP_WINDOW)
    /\ \A n \in 0 .. Len(iats) - 1 :
         iats[Len(iats) - n] = MaxOf(past[n].ts - past[n + 1].ts, 0)

(* The past ends on r equal payloads and no more.                          *)
Still(c, past, r) ==
    /\ r \in 0 .. c
    /\ r = 0 <=> c = 0
    /\ \A n \in 0 .. r - 1 : past[n].pl = past[0].pl
    /\ r < c => past[r].pl # past[0].pl

Latest(id) ==
    /\ id \in DOMAIN last_payload <=> Count(log, id) > 0
    /\ Count(log, id) > 0 => /\ last_payload[id] = Past(log, id)[0].pl
                             /\ last_ts[id] = Past(log, id)[0].ts

FeatureTyped ==
    /\ log \in Seq(Features!Frames) /\ Len(log) <= MaxLog
    /\ DOMAIN last_payload \subseteq Ids /\ DOMAIN last_ts = DOMAIN last_payload
    /\ delta_hist \in [Ids -> Seq(Int)] /\ iat_hist \in [Ids -> Seq(Int)]
    /\ payload_hist \in [Ids -> Seq(Payloads)]
    /\ run_length \in [Ids -> Nat]

FeatureInv ==
    /\ FeatureTyped
    /\ Ages(log)
    /\ \A id \in Ids :
         /\ Latest(id)
         /\ Recent(Count(log, id), Past(log, id), delta_hist[id], iat_hist[id], payload_hist[id])
         /\ Still(Count(log, id), Past(log, id), run_length[id])

-----------------------------------------------------------------------------
LEMMA Smallest == \A m, n \in Int : Features!Min({m, n}) = MinOf(m, n)
BY DEF Features!Min, MinOf

LEMMA Largest == \A m, n \in Int : Features!Max({m, n}) = MaxOf(m, n)
BY DEF Features!Max, MaxOf

LEMMA Counted == \A S : Features!Cardinality(S) = Cardinality(S)
BY DEF Features!Cardinality, Cardinality

(* Pushing into a bounded history.                                         *)
LEMMA Pushed ==
    ASSUME NEW S, NEW h \in Seq(S), NEW x \in S, NEW max \in Nat \ {0}, Len(h) <= max
    PROVE  LET h2 == Features!Push(h, x, max)
           IN  /\ h2 \in Seq(S)
               /\ Len(h2) = MinOf(Len(h) + 1, max)
               /\ \A n \in 0 .. Len(h2) - 1 :
                    h2[Len(h2) - n] = IF n = 0 THEN x ELSE h[Len(h) - (n - 1)]
<1> DEFINE h2 == Features!Push(h, x, max)
<1>0. Len(h) \in Nat /\ DOMAIN h = 1 .. Len(h)
  OBVIOUS
<1>1. CASE Len(h) < max
  <2>1. h2 = Append(h, x)
    BY <1>1 DEF Features!Push
  <2>2. h2 \in Seq(S) /\ Len(h2) = Len(h) + 1
    BY <2>1
  <2>3. \A i \in 1 .. Len(h) + 1 : h2[i] = IF i = Len(h) + 1 THEN x ELSE h[i]
    BY <2>1
  <2>4. MinOf(Len(h) + 1, max) = Len(h) + 1
    BY <1>0, <1>1 DEF MinOf
  <2> HIDE DEF h2
  <2>5. ASSUME NEW n \in 0 .. Len(h2) - 1
        PROVE  h2[Len(h2) - n] = IF n = 0 THEN x ELSE h[Len(h) - (n - 1)]
    <3>1. Len(h2) - n \in 1 .. Len(h) + 1 /\ (Len(h2) - n = Len(h) + 1 <=> n = 0)
      BY <1>0, <2>2
    <3>2. Len(h2) - n = Len(h) - (n - 1)
      BY <1>0, <2>2
    <3> QED
      BY <2>3, <3>1, <3>2
  <2> QED
    BY <2>2, <2>4, <2>5 DEF h2
<1>2. CASE ~(Len(h) < max)
  <2>0. Len(h) = max /\ h # <<>>
    <3>1. max \in Nat /\ max # 0
      OBVIOUS
    <3>2. \A k, m \in Nat : k <= m /\ ~(k < m) => k = m
      OBVIOUS
    <3>3. Len(h) \in Nat /\ Len(h) <= max /\ ~(Len(h) < max)
      BY <1>0, <1>2, Zenon
    <3> QED
      BY <3>1, <3>2, <3>3
  <2> DEFINE t == Tail(h)
  <2>1. h2 = Append(t, x)
    BY <1>2 DEF Features!Push
  <2>2. t \in Seq(S) /\ Len(t) = Len(h) - 1 /\ \A i \in 1 .. Len(h) - 1 : t[i] = h[i + 1]
    BY <2>0
  <2> HIDE DEF t
  <2>3. h2 \in Seq(S) /\ Len(h2) = Len(h)
    BY <1>0, <2>0, <2>1, <2>2
  <2>4. \A i \in 1 .. Len(h) : h2[i] = IF i = Len(h) THEN x ELSE h[i + 1]
    BY <1>0, <2>0, <2>1, <2>2
  <2>5. MinOf(Len(h) + 1, max) = Len(h)
    BY <1>0, <2>0 DEF MinOf
  <2> HIDE DEF h2
  <2>6. ASSUME NEW n \in 0 .. Len(h2) - 1
        PROVE  h2[Len(h2) - n] = IF n = 0 THEN x ELSE h[Len(h) - (n - 1)]
    <3>0. Len(h2) \in Nat /\ n \in Nat /\ n <= Len(h2) - 1
      BY <1>0, <2>3
    <3>1. Len(h2) - n \in 1 .. Len(h) /\ (Len(h2) - n = Len(h) <=> n = 0)
      BY <2>3, <3>0
    <3>2. (Len(h2) - n) + 1 = Len(h) - (n - 1)
      BY <1>0, <2>3
    <3> QED
      BY <2>4, <3>1, <3>2
  <2> QED
    BY <2>3, <2>5, <2>6 DEF h2
<1> QED
  BY <1>1, <1>2

LEMMA PushedNumber ==
    \A h \in Seq(Int), x \in Int, max \in Nat \ {0} : Len(h) <= max =>
        /\ Features!Push(h, x, max) \in Seq(Int)
        /\ Len(Features!Push(h, x, max)) = MinOf(Len(h) + 1, max)
        /\ \A n \in 0 .. Len(Features!Push(h, x, max)) - 1 :
             Features!Push(h, x, max)[Len(Features!Push(h, x, max)) - n] =
                 IF n = 0 THEN x ELSE h[Len(h) - (n - 1)]
<1> DEFINE S == Int
<1> HIDE DEF S
<1>1. \A h \in Seq(S), x \in S, max \in Nat \ {0} : Len(h) <= max =>
        /\ Features!Push(h, x, max) \in Seq(S)
        /\ Len(Features!Push(h, x, max)) = MinOf(Len(h) + 1, max)
        /\ \A n \in 0 .. Len(Features!Push(h, x, max)) - 1 :
             Features!Push(h, x, max)[Len(Features!Push(h, x, max)) - n] =
                 IF n = 0 THEN x ELSE h[Len(h) - (n - 1)]
  BY Pushed
<1> QED
  BY <1>1, Zenon DEF S

-----------------------------------------------------------------------------
(* The later of two frames of an identifier has fewer of them behind it.   *)
LEMMA SinceFalls ==
    ASSUME NEW l, DOMAIN l = 1 .. Len(l), Len(l) \in Nat, NEW id
    PROVE  /\ IsFiniteSet(Seen(l, id)) /\ Count(l, id) \in Nat /\ Count(l, id) <= Len(l)
           /\ \A i \in Seen(l, id) :
                /\ Since(l, id, i) \in Nat
                /\ \A j \in Seen(l, id) : i < j => Since(l, id, j) < Since(l, id, i)
<1> DEFINE later(i) == {j \in Seen(l, id) : j > i}
<1>1. IsFiniteSet(1 .. Len(l)) /\ Cardinality(1 .. Len(l)) = Len(l)
  <2>1. Cardinality(1 .. Len(l)) = IF 1 > Len(l) THEN 0 ELSE Len(l) - 1 + 1
    BY FS_Interval
  <2> QED
    BY <2>1, FS_Interval
<1>2. Seen(l, id) \subseteq 1 .. Len(l)
  BY DEF Seen
<1>3. IsFiniteSet(Seen(l, id)) /\ Cardinality(Seen(l, id)) \in Nat /\ Cardinality(Seen(l, id)) <= Len(l)
  BY <1>1, <1>2, FS_Subset, FS_CardinalityType
<1>4. \A i : IsFiniteSet(later(i)) /\ Cardinality(later(i)) \in Nat
  <2>1. \A i : later(i) \subseteq Seen(l, id)
    OBVIOUS
  <2> HIDE DEF later
  <2> QED
    BY <1>3, <2>1, FS_Subset, FS_CardinalityType
<1>5. \A i : Since(l, id, i) = Cardinality(later(i))
  BY Counted DEF Since
<1>6. ASSUME NEW i \in Seen(l, id), NEW j \in Seen(l, id), i < j
      PROVE  Cardinality(later(j)) < Cardinality(later(i))
  <2>1. later(j) \subseteq later(i)
    BY <1>2, <1>6
  <2>2. j \in later(i) /\ j \notin later(j)
    BY <1>2, <1>6
  <2> HIDE DEF later
  <2>3. later(j) # later(i)
    BY <2>2
  <2> QED
    BY <1>4, <2>1, <2>3, FS_Subset
<1> HIDE DEF later
<1> QED
  BY <1>3, <1>4, <1>5, <1>6, Counted DEF Count

(* So a frame is known by how many came after it.                          *)
LEMMA AgoIs ==
    ASSUME NEW l, DOMAIN l = 1 .. Len(l), Len(l) \in Nat, NEW id, NEW i \in Seen(l, id)
    PROVE  Ago(l, id, Since(l, id, i)) = l[i]
<1> DEFINE c == CHOOSE j \in Seen(l, id) : Since(l, id, j) = Since(l, id, i)
<1>1. c \in Seen(l, id) /\ Since(l, id, c) = Since(l, id, i)
  OBVIOUS
<1>2. c \in Int /\ i \in Int
  BY <1>1 DEF Seen
<1>3. Ago(l, id, Since(l, id, i)) = l[c]
  BY DEF Ago
<1> HIDE DEF c
<1>4. ~(c < i) /\ ~(i < c)
  BY <1>1, SinceFalls
<1> QED
  BY <1>2, <1>3, <1>4

(* A frame at the end of the log is none ago, and all others of its        *)
(* identifier one more than before.                                        *)
LEMMA PastGrows ==
    ASSUME NEW l \in Seq(Features!Frames), NEW f \in Features!Frames, Ages(l)
    PROVE  LET l2 == Append(l, f)
           IN  /\ Ages(l2)
               /\ Count(l2, f.id) = Count(l, f.id) + 1
               /\ Past(l2, f.id) = Before(f, Past(l, f.id), Count(l, f.id))
               /\ \A id \in Ids \ {f.id} : Count(l2, id) = Count(l, id) /\ Past(l2, id) = Past(l, id)
<1> DEFINE l2 == Append(l, f)
           m == Len(l) + 1
<1>1. /\ Len(l) \in Nat /\ DOMAIN l = 1 .. Len(l) /\ l2 \in Seq(Features!Frames)
      /\ Len(l2) = m /\ DOMAIN l2 = 1 .. m /\ l2[m] = f
      /\ \A i \in 1 .. Len(l) : l2[i] = l[i]
  OBVIOUS
<1>2. m \in Nat /\ f.id \in Ids
  BY <1>1 DEF Features!Frames
<1> HIDE DEF l2
<1>3. /\ Seen(l2, f.id) = Seen(l, f.id) \cup {m}
      /\ \A id : id # f.id => Seen(l2, id) = Seen(l, id)
      /\ \A id : Seen(l, id) \subseteq 1 .. Len(l)
  BY <1>1 DEF Seen
<1> DEFINE later(k, id, i) == {j \in Seen(k, id) : j > i}
<1>4. \A i \in 1 .. Len(l) : later(l2, f.id, i) = later(l, f.id, i) \cup {m}
  BY <1>1, <1>3
<1>5. later(l2, f.id, m) = {}
  BY <1>1, <1>3
<1>6. \A id : id # f.id => \A i : later(l2, id, i) = later(l, id, i)
  BY <1>3
<1>7. \A k, id, i : Since(k, id, i) = Cardinality(later(k, id, i))
  BY Counted DEF Since
<1>8. \A id, i : m \notin later(l, id, i) /\ IsFiniteSet(later(l, id, i))
  <2>1. \A id, i : later(l, id, i) \subseteq Seen(l, id)
    OBVIOUS
  <2>2. \A id : IsFiniteSet(Seen(l, id)) /\ m \notin Seen(l, id)
    BY <1>1, <1>3, SinceFalls
  <2> HIDE DEF later
  <2> QED
    BY <2>1, <2>2, FS_Subset
<1> HIDE DEF later
<1>9. ASSUME NEW i \in 1 .. Len(l)
      PROVE  Since(l2, f.id, i) = Since(l, f.id, i) + 1
  BY <1>4, <1>7, <1>8, FS_AddElement
<1>10. Since(l2, f.id, m) = 0
  BY <1>5, <1>7, FS_EmptySet
<1>11. \A id : id # f.id => \A i : Since(l2, id, i) = Since(l, id, i)
  BY <1>6, <1>7
<1>12. /\ Count(l2, f.id) = Count(l, f.id) + 1
       /\ \A id : id # f.id => Count(l2, id) = Count(l, id)
       /\ \A id : Count(l, id) \in Nat
  <2>1. IsFiniteSet(Seen(l, f.id)) /\ m \notin Seen(l, f.id)
    BY <1>1, <1>3, SinceFalls
  <2>2. Cardinality(Seen(l2, f.id)) = Cardinality(Seen(l, f.id)) + 1
    BY <1>3, <2>1, FS_AddElement
  <2> QED
    BY <1>1, <1>3, <2>2, Counted, SinceFalls DEF Count
<1>13. ASSUME NEW n \in 0 .. Count(l, f.id)
       PROVE  \E i \in Seen(l2, f.id) :
                /\ Since(l2, f.id, i) = n
                /\ l2[i] = IF n = 0 THEN f ELSE Ago(l, f.id, n - 1)
  <2>1. CASE n = 0
    BY <1>1, <1>3, <1>10, <2>1
  <2>2. CASE n # 0
    <3>1. n - 1 \in 0 .. Count(l, f.id) - 1
      BY <1>12, <2>2
    <3>2. PICK i \in Seen(l, f.id) : Since(l, f.id, i) = n - 1
      BY <1>2, <3>1 DEF Ages
    <3>3. i \in 1 .. Len(l) /\ i \in Seen(l2, f.id) /\ l2[i] = l[i]
      BY <1>1, <1>3
    <3>4. Since(l2, f.id, i) = n
      BY <1>9, <1>12, <3>2, <3>3
    <3>5. Ago(l, f.id, n - 1) = l[i]
      BY <1>1, <3>2, AgoIs
    <3> QED
      BY <2>2, <3>3, <3>4, <3>5
  <2> QED
    BY <2>1, <2>2
<1>14. ASSUME NEW id \in Ids \ {f.id}, NEW n \in 0 .. Count(l, id) - 1
       PROVE  \E i \in Seen(l2, id) : Since(l2, id, i) = n /\ l2[i] = Ago(l, id, n)
  <2>1. PICK i \in Seen(l, id) : Since(l, id, i) = n
    BY DEF Ages
  <2>2. i \in Seen(l2, id) /\ l2[i] = l[i] /\ Since(l2, id, i) = n
    BY <1>1, <1>3, <1>11, <2>1
  <2>3. Ago(l, id, n) = l[i]
    BY <1>1, <2>1, AgoIs
  <2> QED
    BY <2>2, <2>3
<1>15. \A id : \A i \in Seen(l2, id) : Ago(l2, id, Since(l2, id, i)) = l2[i]
  BY <1>1, <1>2, AgoIs
<1>16. Ages(l2)
  <2> SUFFICES ASSUME NEW id \in Ids, NEW n \in 0 .. Count(l2, id) - 1
               PROVE  \E i \in Seen(l2, id) : Since(l2, id, i) = n
    BY DEF Ages
  <2>1. CASE id = f.id
    <3>1. n \in 0 .. Count(l, f.id)
      BY <1>12, <2>1
    <3> QED
      BY <1>13, <2>1, <3>1
  <2>2. CASE id # f.id
    BY <1>12, <1>14, <2>2
  <2> QED
    BY <2>1, <2>2
<1>17. Past(l2, f.id) = Before(f, Past(l, f.id), Count(l, f.id))
  <2>1. 0 .. Count(l2, f.id) - 1 = 0 .. Count(l, f.id)
    BY <1>12
  <2>2. ASSUME NEW n \in 0 .. Count(l, f.id)
        PROVE  Ago(l2, f.id, n) = IF n = 0 THEN f ELSE Past(l, f.id)[n - 1]
    <3>1. Ago(l2, f.id, n) = IF n = 0 THEN f ELSE Ago(l, f.id, n - 1)
      BY <1>13, <1>15
    <3>2. n # 0 => n - 1 \in 0 .. Count(l, f.id) - 1
      BY <1>12
    <3> QED
      BY <3>1, <3>2 DEF Past
  <2> QED
    BY <2>1, <2>2 DEF Past, Before
<1>18. ASSUME NEW id \in Ids \ {f.id}
       PROVE  Past(l2, id) = Past(l, id)
  <2>1. ASSUME NEW n \in 0 .. Count(l, id) - 1
        PROVE  Ago(l2, id, n) = Ago(l, id, n)
    BY <1>14, <1>15
  <2> QED
    BY <1>12, <2>1 DEF Past
<1> QED
  BY <1>12, <1>16, <1>17, <1>18 DEF l2

-----------------------------------------------------------------------------
(* The past of an identifier, as the steps below take it.                  *)
LEMMA PastTyped ==
    ASSUME NEW l \in Seq(Features!Frames), Ages(l), NEW id \in Ids
    PROVE  /\ Count(l, id) \in Nat /\ Count(l, id) <= Len(l)
           /\ Past(l, id) \in [0 .. Count(l, id) - 1 -> Features!Frames]
<1>1. /\ DOMAIN l = 1 .. Len(l) /\ Len(l) \in Nat
      /\ \A i \in 1 .. Len(l) : l[i] \in Features!Frames
  OBVIOUS
<1>2. Count(l, id) \in Nat /\ Count(l, id) <= Len(l)
  BY <1>1, SinceFalls
<1>3. ASSUME NEW n \in 0 .. Count(l, id) - 1
      PROVE  Ago(l, id, n) \in Features!Frames
  <2>1. PICK i \in Seen(l, id) : Since(l, id, i) = n
    BY DEF Ages
  <2>2. i \in 1 .. Len(l)
    BY <1>1 DEF Seen
  <2> QED
    BY <1>1, <2>1, <2>2, AgoIs
<1> QED
  BY <1>2, <1>3 DEF Past

LEMMA FrameTyped ==
    ASSUME NEW f \in Features!Frames
    PROVE  f.id \in Ids /\ f.pl \in Payloads /\ f.pl \in Int /\ f.ts \in Int
BY FeaturesAssumption DEF Features!Frames

LEMMA BeforeTyped ==
    ASSUME NEW c \in Nat, NEW past \in [0 .. c - 1 -> Features!Frames], NEW f \in Features!Frames
    PROVE  /\ Before(f, past, c) \in [0 .. c -> Features!Frames]
           /\ Before(f, past, c)[0] = f
           /\ \A n \in 0 .. c - 1 : Before(f, past, c)[n + 1] = past[n]
<1>1. \A n \in 0 .. c : n # 0 => n - 1 \in 0 .. c - 1
  OBVIOUS
<1>2. \A n \in 0 .. c - 1 : n + 1 \in 0 .. c /\ n + 1 # 0 /\ (n + 1) - 1 = n
  OBVIOUS
<1> QED
  BY <1>1, <1>2 DEF Before

(* Each history, when a frame of the identifier comes.                     *)
LEMMA PayloadsFollow ==
    ASSUME NEW c \in Nat, NEW past \in [0 .. c - 1 -> Features!Frames], NEW f \in Features!Frames,
           NEW h \in Seq(Payloads),
           Len(h) = MinOf(c, BYTE_WINDOW),
           \A n \in 0 .. Len(h) - 1 : h[Len(h) - n] = past[n].pl
    PROVE  LET h2 == Features!Push(h, f.pl, BYTE_WINDOW)
           IN  /\ h2 \in Seq(Payloads)
               /\ Len(h2) = MinOf(c + 1, BYTE_WINDOW)
               /\ \A n \in 0 .. Len(h2) - 1 : h2[Len(h2) - n] = Before(f, past, c)[n].pl
<1> DEFINE h2 == Features!Push(h, f.pl, BYTE_WINDOW)
           new == Before(f, past, c)
<1>1. BYTE_WINDOW \in Nat \ {0} /\ f.pl \in Payloads
  BY FeaturesAssumption, FrameTyped
<1>2. Len(h) \in Nat /\ Len(h) <= BYTE_WINDOW /\ Len(h) <= c
  BY <1>1 DEF MinOf
<1>3. /\ h2 \in Seq(Payloads) /\ Len(h2) = MinOf(Len(h) + 1, BYTE_WINDOW)
      /\ \A n \in 0 .. Len(h2) - 1 :
           h2[Len(h2) - n] = IF n = 0 THEN f.pl ELSE h[Len(h) - (n - 1)]
  BY <1>1, <1>2, Pushed
<1>4. new[0] = f /\ \A n \in 0 .. c - 1 : new[n + 1] = past[n]
  BY BeforeTyped
<1> HIDE DEF h2, new
<1>5. Len(h2) = MinOf(c + 1, BYTE_WINDOW) /\ Len(h2) <= Len(h) + 1 /\ Len(h2) \in Nat
  BY <1>1, <1>2, <1>3 DEF MinOf
<1>6. ASSUME NEW n \in 0 .. Len(h2) - 1
      PROVE  h2[Len(h2) - n] = new[n].pl
  <2>1. CASE n = 0
    BY <1>3, <1>4, <2>1
  <2>2. CASE n # 0
    <3>1. PICK m \in 0 .. Len(h) - 1 : m = n - 1 /\ m + 1 = n /\ m \in 0 .. c - 1
      BY <1>2, <1>5, <2>2
    <3>2. h[Len(h) - m] = past[m].pl /\ new[m + 1] = past[m]
      BY <1>4, <3>1
    <3>3. h2[Len(h2) - n] = h[Len(h) - m]
      BY <1>3, <2>2, <3>1
    <3> QED
      BY <3>1, <3>2, <3>3
  <2> QED
    BY <2>1, <2>2
<1> QED
  BY <1>3, <1>5, <1>6 DEF h2, new

LEMMA DistanceTyped ==
    ASSUME NEW m \in Int, NEW n \in Int
    PROVE  Features!Distance(m, n) \in Int /\ (Features!Distance(m, n) = 0 <=> m = n)
BY DEF Features!Distance

LEMMA DeltasFollow ==
    ASSUME NEW c \in Nat, NEW past \in [0 .. c - 1 -> Features!Frames], NEW f \in Features!Frames,
           NEW h \in Seq(Int),
           Len(h) = MinOf(c, TEMP_WINDOW),
           \A n \in 0 .. Len(h) - 1 :
               h[Len(h) - n] = IF n + 1 = c THEN 0 ELSE Features!Distance(past[n].pl, past[n + 1].pl)
    PROVE  LET new == Before(f, past, c)
               h2 == Features!Push(h, IF c > 0 THEN Features!Distance(f.pl, past[0].pl) ELSE 0, TEMP_WINDOW)
           IN  /\ h2 \in Seq(Int)
               /\ Len(h2) = MinOf(c + 1, TEMP_WINDOW)
               /\ \A n \in 0 .. Len(h2) - 1 :
                    h2[Len(h2) - n] =
                        IF n + 1 = c + 1 THEN 0 ELSE Features!Distance(new[n].pl, new[n + 1].pl)
<1> DEFINE x == IF c > 0 THEN Features!Distance(f.pl, past[0].pl) ELSE 0
           h2 == Features!Push(h, x, TEMP_WINDOW)
           new == Before(f, past, c)
<1>1. TEMP_WINDOW \in Nat \ {0}
  BY FeaturesAssumption
<1>2. Len(h) \in Nat /\ Len(h) <= TEMP_WINDOW /\ Len(h) <= c
  BY <1>1 DEF MinOf
<1>3. x \in Int
  <2>1. c > 0 => past[0] \in Features!Frames
    OBVIOUS
  <2>2. c > 0 => f.pl \in Int /\ past[0].pl \in Int
    BY <2>1, FrameTyped
  <2>3. c > 0 => Features!Distance(f.pl, past[0].pl) \in Int
    BY <2>2, DistanceTyped
  <2> QED
    BY <2>3
<1>4. new[0] = f /\ \A n \in 0 .. c - 1 : new[n + 1] = past[n]
  BY BeforeTyped
<1>5. x = IF c > 0 THEN Features!Distance(new[0].pl, new[1].pl) ELSE 0
  <2>1. c > 0 => new[0 + 1] = past[0]
    BY <1>4
  <2> QED
    BY <1>4, <2>1
<1> HIDE DEF x
<1>6. /\ h2 \in Seq(Int) /\ Len(h2) = MinOf(Len(h) + 1, TEMP_WINDOW)
      /\ \A n \in 0 .. Len(h2) - 1 :
           h2[Len(h2) - n] = IF n = 0 THEN x ELSE h[Len(h) - (n - 1)]
  BY <1>1, <1>2, <1>3, PushedNumber
<1> HIDE DEF h2, new
<1>7. Len(h2) = MinOf(c + 1, TEMP_WINDOW) /\ Len(h2) <= Len(h) + 1 /\ Len(h2) \in Nat
  BY <1>1, <1>2, <1>6 DEF MinOf
<1>8. ASSUME NEW n \in 0 .. Len(h2) - 1
      PROVE  h2[Len(h2) - n] = IF n + 1 = c + 1 THEN 0 ELSE Features!Distance(new[n].pl, new[n + 1].pl)
  <2>1. CASE n = 0
    <3>1. h2[Len(h2) - n] = x /\ (n + 1 = c + 1 <=> ~(c > 0)) /\ n + 1 = 1
      BY <1>6, <2>1
    <3> QED
      BY <1>5, <2>1, <3>1
  <2>2. CASE n # 0
    <3>1. PICK m \in 0 .. Len(h) - 1 : m = n - 1 /\ m + 1 = n /\ m \in 0 .. c - 1
      BY <1>2, <1>7, <2>2
    <3>2. h[Len(h) - m] = IF m + 1 = c THEN 0 ELSE Features!Distance(past[m].pl, past[m + 1].pl)
      BY <3>1
    <3>3. new[n] = past[m] /\ (m + 1 # c => new[n + 1] = past[m + 1])
      <4>1. m + 1 # c => m + 1 \in 0 .. c - 1
        BY <3>1
      <4>2. new[m + 1] = past[m] /\ (m + 1 # c => new[(m + 1) + 1] = past[m + 1])
        BY <1>4, <3>1, <4>1
      <4> QED
        BY <3>1, <4>2
    <3>4. h2[Len(h2) - n] = h[Len(h) - m]
      BY <1>6, <2>2, <3>1
    <3>5. n + 1 = c + 1 <=> m + 1 = c
      BY <3>1
    <3> QED
      BY <3>2, <3>3, <3>4, <3>5
  <2> QED
    BY <2>1, <2>2
<1> QED
  BY <1>6, <1>7, <1>8 DEF h2, new, x

LEMMA MaxOfTyped == \A m, n \in Int : MaxOf(m, n) \in Int
BY DEF MaxOf

LEMMA IntervalsFollow ==
    ASSUME NEW c \in Nat, NEW past \in [0 .. c - 1 -> Features!Frames], NEW f \in Features!Frames,
           NEW h \in Seq(Int),
           Len(h) = IF c = 0 THEN 0 ELSE MinOf(c - 1, TEMP_WINDOW),
           \A n \in 0 .. Len(h) - 1 : h[Len(h) - n] = MaxOf(past[n].ts - past[n + 1].ts, 0)
    PROVE  LET new == Before(f, past, c)
               h2 == IF c > 0 THEN Features!Push(h, MaxOf(f.ts - past[0].ts, 0), TEMP_WINDOW) ELSE h
           IN  /\ h2 \in Seq(Int)
               /\ Len(h2) = MinOf(c, TEMP_WINDOW)
               /\ \A n \in 0 .. Len(h2) - 1 :
                    h2[Len(h2) - n] = MaxOf(new[n].ts - new[n + 1].ts, 0)
<1> DEFINE x == MaxOf(f.ts - past[0].ts, 0)
           h2 == Features!Push(h, x, TEMP_WINDOW)
           new == Before(f, past, c)
<1>1. TEMP_WINDOW \in Nat \ {0} /\ Len(h) \in Nat
  BY FeaturesAssumption
<1>2. CASE c = 0
  <2>1. Len(h) = 0 /\ MinOf(c, TEMP_WINDOW) = 0
    BY <1>1, <1>2 DEF MinOf
  <2>2. 0 .. Len(h) - 1 = {}
    BY <2>1
  <2> QED
    BY <1>2, <2>1, <2>2
<1>3. CASE c > 0
  <2>1. Len(h) <= TEMP_WINDOW /\ Len(h) <= c - 1 /\ Len(h) = MinOf(c - 1, TEMP_WINDOW)
    BY <1>1, <1>3 DEF MinOf
  <2>2. x \in Int
    <3>1. past[0] \in Features!Frames
      BY <1>3
    <3>2. f.ts \in Int /\ past[0].ts \in Int
      BY <3>1, FrameTyped
    <3>3. f.ts - past[0].ts \in Int
      BY <3>2
    <3> QED
      BY <3>3, MaxOfTyped
  <2>3. new[0] = f /\ \A n \in 0 .. c - 1 : new[n + 1] = past[n]
    BY BeforeTyped
  <2>4. x = MaxOf(new[0].ts - new[1].ts, 0)
    <3>1. new[0 + 1] = past[0]
      BY <1>3, <2>3
    <3> QED
      BY <2>3, <3>1
  <2> HIDE DEF x
  <2>5. /\ h2 \in Seq(Int) /\ Len(h2) = MinOf(Len(h) + 1, TEMP_WINDOW)
        /\ \A n \in 0 .. Len(h2) - 1 :
             h2[Len(h2) - n] = IF n = 0 THEN x ELSE h[Len(h) - (n - 1)]
    BY <1>1, <2>1, <2>2, PushedNumber
  <2> HIDE DEF h2, new
  <2>6. Len(h2) = MinOf(c, TEMP_WINDOW) /\ Len(h2) <= Len(h) + 1 /\ Len(h2) \in Nat
    <3>1. MinOf(Len(h) + 1, TEMP_WINDOW) = MinOf(c, TEMP_WINDOW)
      BY <1>1, <1>3, <2>1 DEF MinOf
    <3>2. /\ MinOf(Len(h) + 1, TEMP_WINDOW) <= Len(h) + 1
          /\ MinOf(Len(h) + 1, TEMP_WINDOW) \in Nat
      BY <1>1 DEF MinOf
    <3> QED
      BY <2>5, <3>1, <3>2
  <2>7. ASSUME NEW n \in 0 .. Len(h2) - 1
        PROVE  h2[Len(h2) - n] = MaxOf(new[n].ts - new[n + 1].ts, 0)
    <3>1. CASE n = 0
      <4>1. h2[Len(h2) - n] = x /\ n + 1 = 1
        BY <2>5, <3>1
      <4> QED
        BY <2>4, <3>1, <4>1
    <3>2. CASE n # 0
      <4>1. PICK m \in 0 .. Len(h) - 1 : m = n - 1 /\ m + 1 = n /\ m \in 0 .. c - 1 /\ m + 1 \in 0 .. c - 1
        BY <1>1, <2>1, <2>6, <3>2
      <4>2. h[Len(h) - m] = MaxOf(past[m].ts - past[m + 1].ts, 0)
        BY <4>1
      <4>3. new[m + 1] = past[m] /\ new[(m + 1) + 1] = past[m + 1]
        BY <2>3, <4>1
      <4>4. h2[Len(h2) - n] = h[Len(h) - m]
        BY <2>5, <3>2, <4>1
      <4> QED
        BY <4>1, <4>2, <4>3, <4>4
    <3> QED
      BY <3>1, <3>2
  <2> QED
    BY <1>3, <2>5, <2>6, <2>7 DEF h2, new, x
<1> QED
  BY <1>2, <1>3

(* The run goes on, or a new one begins.                                   *)
LEMMA RunFollows ==
    ASSUME NEW c \in Nat, NEW past \in [0 .. c - 1 -> Features!Frames], NEW f \in Features!Frames,
           NEW r \in Nat, Still(c, past, r)
    PROVE  Still(c + 1, Before(f, past, c), IF c > 0 /\ f.pl = past[0].pl THEN r + 1 ELSE 1)
<1> DEFINE new == Before(f, past, c)
<1>1. new[0] = f /\ \A n \in 0 .. c - 1 : new[n + 1] = past[n]
  BY BeforeTyped
<1> HIDE DEF new
<1>2. /\ r \in 0 .. c /\ (r = 0 <=> c = 0)
      /\ \A n \in 0 .. r - 1 : past[n].pl = past[0].pl
      /\ r < c => past[r].pl # past[0].pl
  BY DEF Still
<1>3. CASE c > 0 /\ f.pl = past[0].pl
  <2>1. r + 1 \in 0 .. c + 1 /\ (r + 1 = 0 <=> c + 1 = 0)
    BY <1>2
  <2>2. ASSUME NEW n \in 0 .. (r + 1) - 1
        PROVE  new[n].pl = new[0].pl
    <3>1. CASE n = 0
      BY <3>1
    <3>2. CASE n # 0
      <4>1. PICK m \in 0 .. r - 1 : m + 1 = n /\ m \in 0 .. c - 1
        <5>1. n - 1 \in 0 .. r - 1 /\ (n - 1) + 1 = n /\ n - 1 \in 0 .. c - 1
          BY <1>2, <3>2
        <5> QED
          BY <5>1
      <4> QED
        BY <1>1, <1>2, <1>3, <4>1
    <3> QED
      BY <3>1, <3>2
  <2>3. ASSUME r + 1 < c + 1
        PROVE  new[r + 1].pl # new[0].pl
    <3>1. r < c /\ r \in 0 .. c - 1
      BY <2>3
    <3> QED
      BY <1>1, <1>2, <1>3, <3>1
  <2> QED
    BY <1>3, <2>1, <2>2, <2>3 DEF Still, new
<1>4. CASE ~(c > 0 /\ f.pl = past[0].pl)
  <2>1. 1 \in 0 .. c + 1 /\ (1 = 0 <=> c + 1 = 0)
    OBVIOUS
  <2>2. \A n \in 0 .. 1 - 1 : new[n].pl = new[0].pl
    OBVIOUS
  <2>3. ASSUME 1 < c + 1
        PROVE  new[1].pl # new[0].pl
    <3>1. c > 0 /\ 0 \in 0 .. c - 1
      BY <2>3
    <3>2. new[0 + 1] = past[0]
      BY <1>1, <3>1
    <3> QED
      BY <1>1, <1>4, <3>1, <3>2
  <2> QED
    BY <1>4, <2>1, <2>2, <2>3 DEF Still, new
<1> QED
  BY <1>3, <1>4

-----------------------------------------------------------------------------
LEMMA FeatureInit == Init => FeatureInv
<1> SUFFICES ASSUME Init
             PROVE  FeatureInv
  OBVIOUS
<1>1. /\ log = <<>> /\ last_payload = <<>> /\ last_ts = <<>>
      /\ delta_hist = [id \in Ids |-> <<>>] /\ iat_hist = [id \in Ids |-> <<>>]
      /\ payload_hist = [id \in Ids |-> <<>>] /\ run_length = [id \in Ids |-> 0]
  BY DEF Init, Features!Init
<1>2. FeatureTyped
  <2>1. <<>> \in Seq(Features!Frames) /\ Len(<<>>) = 0 /\ DOMAIN <<>> = {}
    OBVIOUS
  <2>2. <<>> \in Seq(Int) /\ <<>> \in Seq(Payloads)
    OBVIOUS
  <2> QED
    BY <1>1, <2>1, <2>2, FeaturesAssumption DEF FeatureTyped
<1>3. \A id : Seen(log, id) = {}
  BY <1>1 DEF Seen
<1>4. \A id : Count(log, id) = 0
  BY <1>3, Counted, FS_EmptySet DEF Count
<1>5. Ages(log)
  BY <1>4 DEF Ages
<1>6. ASSUME NEW id \in Ids
      PROVE  /\ Latest(id)
             /\ Recent(0, Past(log, id), <<>>, <<>>, <<>>)
             /\ Still(0, Past(log, id), 0)
  <2>1. Latest(id)
    BY <1>1, <1>4 DEF Latest
  <2>2. Len(<<>>) = 0 /\ 0 .. 0 - 1 = {} /\ \A m \in Nat : MinOf(0, m) = 0
    BY DEF MinOf
  <2>3. TEMP_WINDOW \in Nat /\ BYTE_WINDOW \in Nat
    BY FeaturesAssumption
  <2>4. Recent(0, Past(log, id), <<>>, <<>>, <<>>)
    BY <2>2, <2>3 DEF Recent
  <2> QED
    BY <2>1, <2>4 DEF Still
<1> QED
  BY <1>1, <1>2, <1>4, <1>5, <1>6 DEF FeatureInv

(* A step of the builders.                                                 *)
LEMMA ProcessKeeps ==
    ASSUME FeatureInv, NEW f \in Features!Frames, Features!Process(f)
    PROVE  FeatureInv'
<1> DEFINE c == Count(log, f.id)
           past == Past(log, f.id)
           new == Before(f, past, c)
<1>1. FeatureTyped /\ Ages(log)
  BY DEF FeatureInv
<1>2. f.id \in Ids /\ f.pl \in Payloads /\ f.pl \in Int /\ f.ts \in Int
  BY FrameTyped
<1>3. log \in Seq(Features!Frames) /\ log' = Append(log, f) /\ Len(log) < MaxLog
  BY <1>1 DEF FeatureTyped, Features!Process
<1>4. /\ Ages(log') /\ Count(log', f.id) = c + 1 /\ Past(log', f.id) = new
      /\ \A id \in Ids \ {f.id} : Count(log', id) = Count(log, id) /\ Past(log', id) = Past(log, id)
  BY <1>1, <1>3, PastGrows
<1>5. c \in Nat /\ past \in [0 .. c - 1 -> Features!Frames]
  BY <1>1, <1>2, <1>3, PastTyped
<1>6. /\ Latest(f.id) /\ Still(c, past, run_length[f.id])
      /\ Recent(c, past, delta_hist[f.id], iat_hist[f.id], payload_hist[f.id])
  BY <1>2 DEF FeatureInv
<1>7. /\ Features!Known(f) <=> c > 0
      /\ c > 0 => last_payload[f.id] = past[0].pl /\ last_ts[f.id] = past[0].ts
  BY <1>6 DEF Latest, Features!Known
<1>8. c > 0 => past[0] \in Features!Frames /\ past[0].ts \in Int
  <2>1. c > 0 => past[0] \in Features!Frames
    BY <1>5
  <2> QED
    BY <2>1, FrameTyped
<1> HIDE DEF c, past, new
<1>9. Features!Delta(f) = IF c > 0 THEN Features!Distance(f.pl, past[0].pl) ELSE 0
  BY <1>7 DEF Features!Delta
<1>10. Features!Run(f) = IF c > 0 /\ f.pl = past[0].pl THEN run_length[f.id] + 1 ELSE 1
  BY <1>7 DEF Features!Run
<1>11. Features!Arrival(f) =
         IF c > 0 THEN Features!Push(iat_hist[f.id], MaxOf(f.ts - past[0].ts, 0), TEMP_WINDOW)
         ELSE iat_hist[f.id]
  <2>1. c > 0 => f.ts - past[0].ts \in Int
    BY <1>2, <1>8
  <2>2. c > 0 => Features!Max({f.ts - past[0].ts, 0}) = MaxOf(f.ts - past[0].ts, 0)
    BY <2>1, Largest
  <2> QED
    BY <1>7, <2>2 DEF Features!Arrival
<1>12. /\ delta_hist[f.id] \in Seq(Int) /\ iat_hist[f.id] \in Seq(Int)
       /\ payload_hist[f.id] \in Seq(Payloads) /\ run_length[f.id] \in Nat
  BY <1>1, <1>2 DEF FeatureTyped
<1> DEFINE deltas == Features!Push(delta_hist[f.id], Features!Delta(f), TEMP_WINDOW)
           payloads == Features!Push(payload_hist[f.id], f.pl, BYTE_WINDOW)
           iats == Features!Arrival(f)
           run == Features!Run(f)
<1>13. /\ delta_hist' = [delta_hist EXCEPT ![f.id] = deltas]
       /\ run_length' = [run_length EXCEPT ![f.id] = run]
       /\ iat_hist' = [iat_hist EXCEPT ![f.id] = iats]
       /\ payload_hist' = [payload_hist EXCEPT ![f.id] = payloads]
       /\ last_payload' = [k \in DOMAIN last_payload \cup {f.id} |-> IF k = f.id THEN f.pl ELSE last_payload[k]]
       /\ last_ts' = [k \in DOMAIN last_ts \cup {f.id} |-> IF k = f.id THEN f.ts ELSE last_ts[k]]
  BY DEF Features!Process, Features!Bytes, Features!Remember
<1>14. /\ payloads \in Seq(Payloads) /\ Len(payloads) = MinOf(c + 1, BYTE_WINDOW)
       /\ \A n \in 0 .. Len(payloads) - 1 : payloads[Len(payloads) - n] = new[n].pl
  BY <1>5, <1>6, <1>12, PayloadsFollow DEF Recent, new
<1>15. /\ deltas \in Seq(Int) /\ Len(deltas) = MinOf(c + 1, TEMP_WINDOW)
       /\ \A n \in 0 .. Len(deltas) - 1 :
            deltas[Len(deltas) - n] =
                IF n + 1 = c + 1 THEN 0 ELSE Features!Distance(new[n].pl, new[n + 1].pl)
  <2> DEFINE h == delta_hist[f.id]
             x == IF c > 0 THEN Features!Distance(f.pl, past[0].pl) ELSE 0
  <2>1. /\ h \in Seq(Int) /\ Len(h) = MinOf(c, TEMP_WINDOW)
        /\ \A n \in 0 .. Len(h) - 1 :
             h[Len(h) - n] =
                 IF n + 1 = c THEN 0 ELSE Features!Distance(past[n].pl, past[n + 1].pl)
    BY <1>6, <1>12 DEF Recent
  <2>2. deltas = Features!Push(h, x, TEMP_WINDOW)
    BY <1>9
  <2> HIDE DEF h, deltas
  <2>3. LET h2 == Features!Push(h, x, TEMP_WINDOW)
        IN  /\ h2 \in Seq(Int) /\ Len(h2) = MinOf(c + 1, TEMP_WINDOW)
            /\ \A n \in 0 .. Len(h2) - 1 :
                 h2[Len(h2) - n] =
                     IF n + 1 = c + 1 THEN 0 ELSE Features!Distance(new[n].pl, new[n + 1].pl)
    BY <1>5, <2>1, DeltasFollow, Zenon DEF new
  <2> QED
    BY <2>2, <2>3, Zenon
<1>16. /\ iats \in Seq(Int) /\ Len(iats) = MinOf(c, TEMP_WINDOW)
       /\ \A n \in 0 .. Len(iats) - 1 : iats[Len(iats) - n] = MaxOf(new[n].ts - new[n + 1].ts, 0)
  <2> DEFINE h == iat_hist[f.id]
  <2>1. /\ h \in Seq(Int) /\ Len(h) = IF c = 0 THEN 0 ELSE MinOf(c - 1, TEMP_WINDOW)
        /\ \A n \in 0 .. Len(h) - 1 :
             h[Len(h) - n] = MaxOf(past[n].ts - past[n + 1].ts, 0)
    BY <1>6, <1>12 DEF Recent
  <2>2. iats = IF c > 0 THEN Features!Push(h, MaxOf(f.ts - past[0].ts, 0), TEMP_WINDOW) ELSE h
    BY <1>11
  <2> HIDE DEF h, iats
  <2> QED
    BY <1>5, <2>1, <2>2, IntervalsFollow DEF new
<1>17. run \in Nat /\ Still(c + 1, new, run)
  <2>1. run \in Nat
    BY <1>10, <1>12
  <2>2. Still(c + 1, new, IF c > 0 /\ f.pl = past[0].pl THEN run_length[f.id] + 1 ELSE 1)
    BY <1>5, <1>6, <1>12, RunFollows DEF new
  <2> QED
    BY <1>10, <2>1, <2>2
<1> HIDE DEF deltas, payloads, iats, run
<1>18. /\ delta_hist' \in [Ids -> Seq(Int)] /\ iat_hist' \in [Ids -> Seq(Int)]
       /\ payload_hist' \in [Ids -> Seq(Payloads)] /\ run_length' \in [Ids -> Nat]
  BY <1>1, <1>2, <1>13, <1>14, <1>15, <1>16, <1>17 DEF FeatureTyped
<1>19. /\ delta_hist'[f.id] = deltas /\ iat_hist'[f.id] = iats
       /\ payload_hist'[f.id] = payloads /\ run_length'[f.id] = run
       /\ \A id \in Ids \ {f.id} :
            /\ delta_hist'[id] = delta_hist[id] /\ iat_hist'[id] = iat_hist[id]
            /\ payload_hist'[id] = payload_hist[id] /\ run_length'[id] = run_length[id]
  BY <1>1, <1>2, <1>13 DEF FeatureTyped
<1>20. /\ DOMAIN last_payload' = DOMAIN last_payload \cup {f.id} /\ DOMAIN last_ts' = DOMAIN last_payload'
       /\ last_payload'[f.id] = f.pl /\ last_ts'[f.id] = f.ts
       /\ \A id \in DOMAIN last_payload \ {f.id} :
            last_payload'[id] = last_payload[id] /\ last_ts'[id] = last_ts[id]
  BY <1>1, <1>13 DEF FeatureTyped
<1>21. FeatureTyped'
  <2>1. log' \in Seq(Features!Frames) /\ Len(log') = Len(log) + 1 /\ Len(log) \in Nat
    BY <1>3
  <2>2. Len(log') <= MaxLog
    BY <1>3, <2>1, FeaturesAssumption
  <2>3. DOMAIN last_payload' \subseteq Ids
    BY <1>1, <1>2, <1>20 DEF FeatureTyped
  <2> QED
    BY <1>18, <1>20, <2>1, <2>2, <2>3 DEF FeatureTyped
<1>22. new[0] = f
  BY <1>5, BeforeTyped DEF new
<1>23. Latest(f.id)'
  BY <1>4, <1>5, <1>20, <1>22 DEF Latest
<1>24. Recent(c + 1, new, deltas, iats, payloads)
  <2>1. c + 1 # 0 /\ (c + 1) - 1 = c
    BY <1>5
  <2> QED
    BY <1>14, <1>15, <1>16, <2>1 DEF Recent
<1>25. ASSUME NEW id \in Ids
       PROVE  /\ Latest(id)'
              /\ Recent(Count(log', id), Past(log', id), delta_hist'[id], iat_hist'[id], payload_hist'[id])
              /\ Still(Count(log', id), Past(log', id), run_length'[id])
  <2>1. CASE id = f.id
    BY <1>4, <1>17, <1>19, <1>23, <1>24, <2>1
  <2>2. CASE id # f.id
    <3>1. /\ Latest(id) /\ Still(Count(log, id), Past(log, id), run_length[id])
          /\ Recent(Count(log, id), Past(log, id), delta_hist[id], iat_hist[id], payload_hist[id])
      BY DEF FeatureInv
    <3>2. Latest(id)'
      BY <1>4, <1>20, <2>2, <3>1 DEF Latest
    <3> QED
      BY <1>4, <1>19, <2>2, <3>1, <3>2
  <2> QED
    BY <2>1, <2>2
<1> QED
  BY <1>4, <1>21, <1>25 DEF FeatureInv

LEMMA FeatureStep ==
    ASSUME FeatureInv, [Next]_vars
    PROVE  FeatureInv'
<1>1. CASE Build
  <2>1. PICK f \in Features!Frames : Features!Process(f)
    BY <1>1 DEF Build, Features!Next
  <2> QED
    BY <2>1, ProcessKeeps
<1>2. CASE UNCHANGED featureVars
  BY <1>2 DEF featureVars, FeatureInv, FeatureTyped, Latest
<1> QED
  BY <1>1, <1>2 DEF Next, Evaluate, Burst, Long, vars

-----------------------------------------------------------------------------
(* The properties, read off the invariant.                                 *)
LEMMA SameAgo ==
    \A id : /\ Features!Count(id) = Count(log, id)
            /\ \A n \in 0 .. Count(log, id) - 1 : Features!Ago(id, n) = Past(log, id)[n]
BY DEF Features!Count, Features!Ago, Features!Seen, Features!Since, Count, Ago, Seen, Since, Past

LEMMA FeaturesTyped == FeatureInv => Features!TypeOK
<1> SUFFICES ASSUME FeatureInv
             PROVE  Features!TypeOK
  OBVIOUS
<1>1. FeatureTyped /\ Ages(log)
  BY DEF FeatureInv
<1>2. ASSUME NEW id \in Ids
      PROVE  /\ run_length[id] \in 0 .. MaxLog
             /\ run_length[id] = 0 <=> id \notin DOMAIN last_payload
             /\ Len(delta_hist[id]) <= TEMP_WINDOW /\ Len(payload_hist[id]) <= BYTE_WINDOW
             /\ Len(iat_hist[id]) <= TEMP_WINDOW
  <2> DEFINE c == Count(log, id)
  <2>1. c \in Nat /\ c <= Len(log) /\ Len(log) \in Nat /\ Len(log) <= MaxLog
    BY <1>1, PastTyped DEF FeatureTyped
  <2>2. /\ Latest(id) /\ Still(c, Past(log, id), run_length[id])
        /\ Recent(c, Past(log, id), delta_hist[id], iat_hist[id], payload_hist[id])
    BY DEF FeatureInv
  <2> HIDE DEF c
  <2>3. run_length[id] \in 0 .. c /\ (run_length[id] = 0 <=> c = 0)
    BY <2>2 DEF Still
  <2>4. id \in DOMAIN last_payload <=> c > 0
    BY <2>2 DEF Latest, c
  <2>5. /\ Len(payload_hist[id]) = MinOf(c, BYTE_WINDOW)
        /\ Len(delta_hist[id]) = MinOf(c, TEMP_WINDOW)
        /\ Len(iat_hist[id]) = IF c = 0 THEN 0 ELSE MinOf(c - 1, TEMP_WINDOW)
    BY <2>2 DEF Recent
  <2>6. TEMP_WINDOW \in Nat /\ BYTE_WINDOW \in Nat /\ MaxLog \in Nat
    BY FeaturesAssumption
  <2>7. \A m \in Int, n \in Nat : MinOf(m, n) <= n
    BY DEF MinOf
  <2>8. run_length[id] \in 0 .. MaxLog
    BY <2>1, <2>3, <2>6
  <2>9. run_length[id] = 0 <=> id \notin DOMAIN last_payload
    BY <2>1, <2>3, <2>4
  <2>10. c - 1 \in Int /\ c \in Int
    BY <2>1
  <2> QED
    BY <2>5, <2>6, <2>7, <2>8, <2>9, <2>10
<1> QED
  BY <1>1, <1>2 DEF FeatureTyped, Features!TypeOK

LEMMA HistoriesRecent == FeatureInv => Features!HistoriesAreRecent
<1> SUFFICES ASSUME FeatureInv, NEW id \in Ids
             PROVE  LET deltas == delta_hist[id]
                        iats == iat_hist[id]
                        payloads == payload_hist[id]
                        c == Features!Count(id)
                    IN  /\ Len(payloads) = Features!Min({c, BYTE_WINDOW})
                        /\ \A n \in 0 .. Len(payloads) - 1 :
                             payloads[Len(payloads) - n] = Features!Ago(id, n).pl
                        /\ Len(deltas) = Features!Min({c, TEMP_WINDOW})
                        /\ \A n \in 0 .. Len(deltas) - 1 :
                             deltas[Len(deltas) - n] =
                                 IF n + 1 = c THEN 0
                                 ELSE Features!Distance(Features!Ago(id, n).pl, Features!Ago(id, n + 1).pl)
                        /\ Len(iats) = IF c = 0 THEN 0 ELSE Features!Min({c - 1, TEMP_WINDOW})
                        /\ \A n \in 0 .. Len(iats) - 1 :
                             iats[Len(iats) - n]
                                 = Features!Max({Features!Ago(id, n).ts - Features!Ago(id, n + 1).ts, 0})
  BY DEF Features!HistoriesAreRecent
<1> DEFINE deltas == delta_hist[id]
           iats == iat_hist[id]
           payloads == payload_hist[id]
           c == Count(log, id)
           past == Past(log, id)
           ago(n) == Features!Ago(id, n)
<1>1. Features!Count(id) = c /\ \A n \in 0 .. c - 1 : ago(n) = past[n]
  BY SameAgo
<1>2. c \in Nat /\ past \in [0 .. c - 1 -> Features!Frames]
  BY PastTyped DEF FeatureInv, FeatureTyped
<1>3. Recent(c, past, deltas, iats, payloads)
  BY DEF FeatureInv
<1>4. TEMP_WINDOW \in Nat /\ BYTE_WINDOW \in Nat
  BY FeaturesAssumption
<1> HIDE DEF c, past, deltas, iats, payloads, ago
<1>5. /\ Len(payloads) = MinOf(c, BYTE_WINDOW) /\ Len(deltas) = MinOf(c, TEMP_WINDOW)
      /\ Len(iats) = IF c = 0 THEN 0 ELSE MinOf(c - 1, TEMP_WINDOW)
      /\ \A n \in 0 .. Len(payloads) - 1 : payloads[Len(payloads) - n] = past[n].pl
      /\ \A n \in 0 .. Len(deltas) - 1 :
           deltas[Len(deltas) - n] =
               IF n + 1 = c THEN 0 ELSE Features!Distance(past[n].pl, past[n + 1].pl)
      /\ \A n \in 0 .. Len(iats) - 1 :
           iats[Len(iats) - n] = MaxOf(past[n].ts - past[n + 1].ts, 0)
  BY <1>3 DEF Recent
<1>6. /\ MinOf(c, BYTE_WINDOW) = Features!Min({c, BYTE_WINDOW})
      /\ MinOf(c, TEMP_WINDOW) = Features!Min({c, TEMP_WINDOW})
      /\ MinOf(c - 1, TEMP_WINDOW) = Features!Min({c - 1, TEMP_WINDOW})
  <2>1. c \in Int /\ c - 1 \in Int /\ BYTE_WINDOW \in Int /\ TEMP_WINDOW \in Int
    BY <1>2, <1>4
  <2> QED
    BY <2>1, Smallest
<1>7. /\ Len(payloads) <= c /\ Len(deltas) <= c /\ Len(iats) <= IF c = 0 THEN 0 ELSE c - 1
      /\ Len(payloads) \in Nat /\ Len(deltas) \in Nat /\ Len(iats) \in Nat
  <2>1. MinOf(c, BYTE_WINDOW) <= c /\ MinOf(c, BYTE_WINDOW) \in Nat
    BY <1>2, <1>4 DEF MinOf
  <2>2. MinOf(c, TEMP_WINDOW) <= c /\ MinOf(c, TEMP_WINDOW) \in Nat
    BY <1>2, <1>4 DEF MinOf
  <2>3. c # 0 => MinOf(c - 1, TEMP_WINDOW) <= c - 1 /\ MinOf(c - 1, TEMP_WINDOW) \in Nat
    BY <1>2, <1>4 DEF MinOf
  <2> QED
    BY <1>5, <2>1, <2>2, <2>3
<1>8. \A n \in 0 .. Len(payloads) - 1 : payloads[Len(payloads) - n] = ago(n).pl
  <2>1. 0 .. Len(payloads) - 1 \subseteq 0 .. c - 1
    BY <1>2, <1>7
  <2> QED
    BY <1>1, <1>5, <2>1
<1>9. ASSUME NEW n \in 0 .. Len(deltas) - 1
      PROVE  deltas[Len(deltas) - n] =
                 IF n + 1 = c THEN 0 ELSE Features!Distance(ago(n).pl, ago(n + 1).pl)
  <2>1. n \in 0 .. c - 1 /\ (n + 1 # c => n + 1 \in 0 .. c - 1)
    BY <1>2, <1>7
  <2>2. ago(n) = past[n] /\ (n + 1 # c => ago(n + 1) = past[n + 1])
    BY <1>1, <2>1
  <2> QED
    BY <1>5, <2>2
<1>10. ASSUME NEW n \in 0 .. Len(iats) - 1
       PROVE  iats[Len(iats) - n] = Features!Max({ago(n).ts - ago(n + 1).ts, 0})
  <2>1. n \in 0 .. c - 1 /\ n + 1 \in 0 .. c - 1
    BY <1>2, <1>7
  <2>2. ago(n) = past[n] /\ ago(n + 1) = past[n + 1]
    BY <1>1, <2>1
  <2>3. past[n].ts \in Int /\ past[n + 1].ts \in Int
    <3>1. past[n] \in Features!Frames /\ past[n + 1] \in Features!Frames
      BY <1>2, <2>1
    <3> QED
      BY <3>1, FrameTyped
  <2>4. past[n].ts - past[n + 1].ts \in Int
    BY <2>3
  <2>5. Features!Max({past[n].ts - past[n + 1].ts, 0}) = MaxOf(past[n].ts - past[n + 1].ts, 0)
    BY <2>4, Largest
  <2> QED
    BY <1>5, <2>2, <2>5
<1> QED
  BY <1>1, <1>5, <1>6, <1>8, <1>9, <1>10 DEF deltas, iats, payloads, ago

LEMMA RunIsRun == FeatureInv => Features!RunLengthIsRun
<1> SUFFICES ASSUME FeatureInv, NEW id \in Ids, Features!Count(id) > 0
             PROVE  LET r == run_length[id]
                        still == \A i \in DOMAIN delta_hist[id] : delta_hist[id][i] = 0
                    IN  /\ \A n \in 0 .. r - 1 : Features!Ago(id, n).pl = Features!Ago(id, 0).pl
                        /\ r < Features!Count(id) => Features!Ago(id, r).pl # Features!Ago(id, 0).pl
                        /\ still <=> r = Features!Count(id) \/ r > TEMP_WINDOW
  BY DEF Features!RunLengthIsRun
<1> DEFINE h == delta_hist[id]
           c == Count(log, id)
           past == Past(log, id)
           r == run_length[id]
           ago(n) == Features!Ago(id, n)
<1>1. Features!Count(id) = c /\ c > 0 /\ \A n \in 0 .. c - 1 : ago(n) = past[n]
  BY SameAgo
<1>2. c \in Nat /\ past \in [0 .. c - 1 -> Features!Frames]
  BY PastTyped DEF FeatureInv, FeatureTyped
<1>3. Recent(c, past, h, iat_hist[id], payload_hist[id]) /\ Still(c, past, r)
  BY DEF FeatureInv
<1>4. TEMP_WINDOW \in Nat \ {0} /\ h \in Seq(Int)
  BY FeaturesAssumption DEF FeatureInv, FeatureTyped
<1> HIDE DEF c, past, h, r, ago
<1>5. /\ r \in 0 .. c /\ r # 0
      /\ \A n \in 0 .. r - 1 : past[n].pl = past[0].pl
      /\ r < c => past[r].pl # past[0].pl
  BY <1>1, <1>2, <1>3 DEF Still
<1>6. /\ Len(h) = MinOf(c, TEMP_WINDOW) /\ DOMAIN h = 1 .. Len(h) /\ Len(h) \in Nat
      /\ \A n \in 0 .. Len(h) - 1 :
           h[Len(h) - n] = IF n + 1 = c THEN 0 ELSE Features!Distance(past[n].pl, past[n + 1].pl)
  <2>1. DOMAIN h = 1 .. Len(h) /\ Len(h) \in Nat
    BY <1>4
  <2> QED
    BY <1>3, <2>1 DEF Recent
<1>7. \A n \in 0 .. c - 1 : past[n] \in Features!Frames /\ past[n].pl \in Int
  <2>1. \A n \in 0 .. c - 1 : past[n] \in Features!Frames
    BY <1>2
  <2> QED
    BY <2>1, FrameTyped
<1>8. \A n \in 0 .. r - 1 : ago(n).pl = ago(0).pl
  <2>1. 0 .. r - 1 \subseteq 0 .. c - 1 /\ 0 \in 0 .. c - 1
    BY <1>1, <1>2, <1>5
  <2> QED
    BY <1>1, <1>5, <2>1
<1>9. r < c => ago(r).pl # ago(0).pl
  <2>1. r < c => r \in 0 .. c - 1 /\ 0 \in 0 .. c - 1
    BY <1>2, <1>5
  <2> QED
    BY <1>1, <1>5, <2>1
<1>10. ASSUME r = c \/ r > TEMP_WINDOW, NEW i \in DOMAIN h
       PROVE  h[i] = 0
  <2>1. PICK n \in 0 .. Len(h) - 1 : i = Len(h) - n
    <3>1. Len(h) - i \in 0 .. Len(h) - 1 /\ i = Len(h) - (Len(h) - i)
      BY <1>6
    <3> QED
      BY <3>1
  <2>2. CASE n + 1 = c
    BY <1>6, <2>1, <2>2
  <2>3. CASE n + 1 # c
    <3>1. n \in 0 .. r - 1 /\ n + 1 \in 0 .. r - 1 /\ n \in 0 .. c - 1
      BY <1>2, <1>4, <1>5, <1>6, <1>10, <2>3 DEF MinOf
    <3>2. past[n].pl = past[n + 1].pl /\ past[n].pl \in Int
      BY <1>5, <1>7, <3>1
    <3>3. Features!Distance(past[n].pl, past[n + 1].pl) = 0
      BY <3>2, DistanceTyped
    <3> QED
      BY <1>6, <2>1, <2>3, <3>3
  <2> QED
    BY <2>2, <2>3
<1>11. ASSUME ~(r = c \/ r > TEMP_WINDOW)
       PROVE  \E i \in DOMAIN h : h[i] # 0
  <2>1. PICK n \in 0 .. Len(h) - 1 : n + 1 = r
    <3>1. r - 1 \in 0 .. Len(h) - 1 /\ (r - 1) + 1 = r
      BY <1>2, <1>4, <1>5, <1>6, <1>11 DEF MinOf
    <3> QED
      BY <3>1
  <2>2. n + 1 # c /\ n \in 0 .. c - 1 /\ r \in 0 .. c - 1 /\ n \in 0 .. r - 1 /\ r < c
    BY <1>2, <1>5, <1>11, <2>1
  <2>3. past[n].pl # past[r].pl /\ past[n].pl \in Int /\ past[r].pl \in Int
    BY <1>5, <1>7, <2>2
  <2>4. Features!Distance(past[n].pl, past[r].pl) # 0
    BY <2>3, DistanceTyped
  <2>5. h[Len(h) - n] # 0
    BY <1>6, <2>1, <2>2, <2>4
  <2>6. Len(h) - n \in DOMAIN h
    BY <1>6
  <2> QED
    BY <2>5, <2>6
<1>12. (\A i \in DOMAIN h : h[i] = 0) <=> r = c \/ r > TEMP_WINDOW
  BY <1>10, <1>11
<1> QED
  BY <1>1, <1>8, <1>9, <1>12 DEF h, r, ago

(* However the frames of the identifiers are mixed, however long the log   *)
(* and whatever the lengths of the windows: the histories the builders of  *)
(* V3 and V4 keep are the most recent part of the log of the identifier,   *)
(* and the run length is the run it ends on.                               *)
THEOREM FeatureHistories == Spec => []Histories
<1>1. FeatureInv => Histories
  BY FeaturesTyped, HistoriesRecent, RunIsRun DEF Histories
<1> QED
  BY <1>1, FeatureInit, FeatureStep, PTL DEF Spec
=============================================================================
