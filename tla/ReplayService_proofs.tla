------------------------- MODULE ReplayService_proofs -------------------------
(***************************************************************************)
(* Theorems about ReplayService, for all data sets, operating states and   *)
(* numbers of unread lines.                                                *)
(***************************************************************************)
EXTENDS ReplayService, SequenceTheorems, TLAPS

Kind == {"submit", "decision", "replay_failed", "replay_complete", "normal_gate_pass",
         "shutdown_boundary"}
Events == [kind : Kind, row : Row \cup {0}, of : Row \cup {0}]

LEMMA Rows == Len(Content) \in Nat /\ Row = 1 .. Len(Content)
BY ContentAssumption, LenProperties DEF Row

LEMMA EventTyped ==
    ASSUME NEW k \in Kind, NEW r \in Row \cup {0}, NEW o \in Row \cup {0}
    PROVE  Event(k, r, o) \in Events
BY DEF Event, Events

-----------------------------------------------------------------------------
(* Type correctness.  While a row is waited for it is a row of the data    *)
(* set, and until the gate is passed no replay has begun.                  *)
TypeInv ==
    /\ TypeOK
    /\ gate \in [started : SUBSET Ecu, modes : SUBSET Modes, errors : BOOLEAN]
    /\ log \in Seq(Events)
    /\ replay \in {"submit", "test", "waiting", "woken"} => row \in Row
    /\ main = "gated" => replay = "none"

LEMMA ReplayTyped ==
    ASSUME TypeInv, replay_dataset
    PROVE  TypeInv'
<1> USE DEF TypeInv, TypeOK
<1>1. /\ UNCHANGED <<uart, signalled, STOP, ready, gate, main, outcome>>
      /\ log \in Seq(Events)
  BY DEF replay_dataset, mainVars
<1>2. /\ Append(log, Event("replay_failed", 0, 0)) \in Seq(Events)
      /\ Append(log, Event("replay_complete", 0, 0)) \in Seq(Events)
  BY <1>1, EventTyped, AppendProperties DEF Kind
<1>3. CASE ReplayStopped
  BY <1>1, <1>2, <1>3 DEF ReplayStopped, ReplayRaises, emit
<1>4. CASE ReplayLocks
  BY <1>1, <1>4 DEF ReplayLocks
<1>5. CASE Submit
  <2>1. row \in Row
    BY <1>5 DEF Submit
  <2>2. log' \in Seq(Events)
    BY <1>1, <1>5, <2>1, EventTyped, AppendProperties DEF Submit, Kind
  <2>3. bus' \in Seq(Row)
    BY <1>5, <2>1, AppendProperties DEF Submit
  <2> QED
    BY <1>1, <1>5, <2>1, <2>2, <2>3 DEF Submit
<1>6. CASE SubmitFails
  <2>1. row \in Row
    BY <1>6 DEF SubmitFails
  <2>2. <<Event("submit", row, row), Event("replay_failed", 0, 0)>> \in Seq(Events)
    BY <2>1, EventTyped DEF Kind
  <2>3. log' \in Seq(Events)
    BY <1>1, <1>6, <2>2, ConcatProperties DEF SubmitFails
  <2> QED
    BY <1>1, <1>6, <2>1, <2>3 DEF SubmitFails
<1>7. CASE ReplayWaits
  BY <1>1, <1>7 DEF ReplayWaits
<1>8. CASE ReplayRelocks
  BY <1>1, <1>8 DEF ReplayRelocks
<1>9. CASE ReplayGivesUp
  BY <1>1, <1>2, <1>9 DEF ReplayGivesUp, ReplayRaises, emit
<1>10. CASE ReplayAdvances
  BY <1>1, <1>10, Rows DEF ReplayAdvances
<1>11. CASE ReplayComplete
  BY <1>1, <1>2, <1>11 DEF ReplayComplete, emit
<1> QED
  BY <1>3, <1>4, <1>5, <1>6, <1>7, <1>8, <1>9, <1>10, <1>11 DEF replay_dataset

LEMMA MainTyped ==
    ASSUME TypeInv, Main
    PROVE  TypeInv'
<1> USE DEF TypeInv, TypeOK
<1>1. /\ UNCHANGED <<bus, uart, signalled, ready, gate, MATCH, PENDING, REPLAY_ABORT, row, expired>>
      /\ log \in Seq(Events)
  BY DEF Main, envVars
<1>2. /\ Append(log, Event("normal_gate_pass", 0, 0)) \in Seq(Events)
      /\ Append(log, Event("shutdown_boundary", 0, 0)) \in Seq(Events)
  BY <1>1, EventTyped, AppendProperties DEF Kind
<1>3. CASE MainStopped \/ MainRaises \/ ReplayOver
  BY <1>1, <1>3 DEF MainStopped, MainRaises, ReplayOver, Leaves
<1>4. CASE GateCopied \/ LoopGoesOn \/ ReplayAlive
  BY <1>1, <1>4 DEF GateCopied, LoopGoesOn, ReplayAlive
<1>5. CASE ReplayStarted
  BY <1>1, <1>2, <1>5 DEF ReplayStarted, emit
<1>6. CASE Boundary
  BY <1>1, <1>2, <1>6 DEF Boundary, emit
<1>7. CASE StopSet \/ Exited
  <2>1. /\ UNCHANGED <<log, outcome, replay>> /\ STOP' \in BOOLEAN
        /\ main' \in {"notify", "exited"}
    BY <1>7 DEF StopSet, Exited
  <2> QED
    BY <1>1, <2>1
<1>8. CASE StopNotified
  <2>1. UNCHANGED <<STOP, log, outcome>> /\ main' = "join" /\ replay' = Woken /\ MATCH = "free"
    BY <1>8 DEF StopNotified
  <2>2. replay' \in {"waiting", "woken"} => replay \in {"waiting", "woken"}
    BY <2>1 DEF Woken
  <2>3. replay' \in {"none", "head", "submit", "test", "woken", "done"}
    BY <2>1 DEF Woken
  <2>4. replay' \in {"submit", "test"} <=> replay \in {"submit", "test"}
    BY <2>1 DEF Woken
  <2> QED
    BY <1>1, <2>1, <2>2, <2>3, <2>4
<1> QED
  BY <1>3, <1>4, <1>5, <1>6, <1>7, <1>8 DEF Main

LEMMA TypeInvariant == Spec => []TypeInv
<1>1. Init => TypeInv
  <2> SUFFICES ASSUME Init PROVE TypeInv
    OBVIOUS
  <2>1. bus \in Seq(Row) /\ uart \in Seq(Row \cup {0}) /\ log \in Seq(Events)
    BY EmptySeq DEF Init
  <2>2. 1 \in 1 .. Len(Content) + 1
    BY Rows
  <2>3. gate \in [started : SUBSET Ecu, modes : SUBSET Modes, errors : BOOLEAN]
    BY DEF Init
  <2>4. gate.started \subseteq Ecu /\ gate.modes \subseteq Modes /\ gate.errors \in BOOLEAN
    BY <2>3
  <2> QED
    BY <2>1, <2>2, <2>3, <2>4 DEF Init, TypeInv, TypeOK
<1>2. TypeInv /\ [Next]_vars => TypeInv'
  <2> SUFFICES ASSUME TypeInv, [Next]_vars
               PROVE  TypeInv'
    OBVIOUS
  <2> USE DEF TypeInv, TypeOK
  <2>1. CASE UNCHANGED vars
    BY <2>1 DEF vars, envVars, sharedVars, mainVars, replayVars
  <2>2. CASE EcuRecords \/ EcuLoses
    <3>1. bus # <<>> /\ bus' = Tail(bus) /\ (uart' = uart \/ uart' = Append(uart, Head(bus)))
      BY <2>2 DEF EcuRecords, EcuLoses
    <3>2. Head(bus) \in Row \cup {0} /\ bus' \in Seq(Row)
      BY <3>1, HeadTailProperties
    <3>3. uart' \in Seq(Row \cup {0})
      <4> HIDE DEF TypeInv, TypeOK
      <4>1. uart \in Seq(Row \cup {0})
        BY DEF TypeInv, TypeOK
      <4>2. Append(uart, Head(bus)) \in Seq(Row \cup {0})
        BY <3>2, <4>1, AppendProperties
      <4> QED
        BY <3>1, <4>1, <4>2
    <3>4. UNCHANGED <<signalled, sharedVars, mainVars, replayVars>>
      BY <2>2 DEF EcuRecords, EcuLoses
    <3> QED
      BY <3>2, <3>3, <3>4 DEF sharedVars, mainVars, replayVars
  <2>3. CASE ApplicationFrame \/ LineGarbled
    <3>1. uart' \in Seq(Row \cup {0})
      <4> HIDE DEF TypeInv, TypeOK
      <4>1. uart \in Seq(Row \cup {0}) /\ 0 \in Row \cup {0}
        BY DEF TypeInv, TypeOK
      <4>2. uart' = Append(uart, 0) \/ (uart # <<>> /\ uart' = Tail(uart))
        BY <2>3 DEF ApplicationFrame, LineGarbled
      <4> QED
        BY <4>1, <4>2, AppendProperties, HeadTailProperties
    <3>2. UNCHANGED <<bus, signalled, sharedVars, mainVars, replayVars>>
      BY <2>3 DEF ApplicationFrame, LineGarbled
    <3> QED
      BY <3>1, <3>2 DEF sharedVars, mainVars, replayVars
  <2>4. CASE Signal
    BY <2>4 DEF Signal, mainVars, replayVars
  <2>5. CASE ReadStatus
    <3>1. gate' \in [started : SUBSET Ecu, modes : SUBSET Modes, errors : BOOLEAN]
      <4> HIDE DEF TypeInv, TypeOK
      <4>1. gate \in [started : SUBSET Ecu, modes : SUBSET Modes, errors : BOOLEAN]
        BY DEF TypeInv
      <4>2. PICK e \in Ecu :
               \/ gate' = [gate EXCEPT !.started = @ \cup {e}]
               \/ gate' = [gate EXCEPT !.errors = TRUE]
               \/ \E m \in Modes : gate' = [gate EXCEPT !.modes = @ \cup {m}]
        BY <2>5 DEF ReadStatus
      <4>3. CASE gate' = [gate EXCEPT !.started = @ \cup {e}]
        BY <4>1, <4>3
      <4>4. CASE gate' = [gate EXCEPT !.errors = TRUE]
        BY <4>1, <4>4
      <4>5. CASE \E m \in Modes : gate' = [gate EXCEPT !.modes = @ \cup {m}]
        BY <4>1, <4>5
      <4> QED
        BY <4>2, <4>3, <4>4, <4>5
    <3>2. gate'.started \subseteq Ecu /\ gate'.modes \subseteq Modes /\ gate'.errors \in BOOLEAN
      BY <3>1
    <3> QED
      BY <2>5, <3>1, <3>2 DEF ReadStatus, envVars, mainVars, replayVars
  <2>6. CASE ReadDecision \/ ReadOther
    <3>1. uart # <<>> /\ uart' = Tail(uart)
      BY <2>6 DEF ReadDecision, ReadOther, LineRead
    <3>2. Head(uart) \in Row \cup {0} /\ uart' \in Seq(Row \cup {0})
      BY <3>1, HeadTailProperties
    <3>3. log' \in Seq(Events)
      <4> HIDE DEF TypeInv, TypeOK
      <4>1. log \in Seq(Events) /\ PENDING \in Row \cup {0}
        BY DEF TypeInv, TypeOK
      <4>2. Event("decision", PENDING, Head(uart)) \in Events
        BY <3>2, <4>1, EventTyped DEF Kind
      <4>3. log' = log \/ log' = Append(log, Event("decision", PENDING, Head(uart)))
        BY <2>6 DEF ReadDecision, ReadOther
      <4> QED
        BY <4>1, <4>2, <4>3, AppendProperties
    <3> QED
      BY <2>6, <3>2, <3>3 DEF ReadDecision, ReadOther, LineRead, Woken, mainVars
  <2>7. CASE ReaderEnds
    <3>1. ready' \in [Ecu -> BOOLEAN]
      BY <2>7 DEF ReaderEnds
    <3> QED
      BY <2>7, <3>1 DEF ReaderEnds, envVars, mainVars, replayVars
  <2>8. CASE replay_dataset
    BY <2>8, ReplayTyped
  <2>9. CASE Timeout
    BY <2>9 DEF Timeout, WaitExpires, mainVars
  <2>10. CASE Main
    BY <2>10, MainTyped
  <2> QED
    BY <2>1, <2>2, <2>3, <2>4, <2>5, <2>6, <2>7, <2>8, <2>9, <2>10 DEF Next
<1> QED
  BY <1>1, <1>2, PTL DEF Spec

(* The shared variables keep their ranges, and MATCH is held by the replay *)
(* thread exactly in its critical sections, whichever way it leaves them.  *)
THEOREM TypeCorrect == Spec => []TypeOK
<1>1. TypeInv => TypeOK
  BY DEF TypeInv
<1> QED
  BY <1>1, TypeInvariant, PTL

-----------------------------------------------------------------------------
(* What is under way.  A row is submitted only when none is pending, so    *)
(* that at most one frame or record of a row is on the bus or in the UART, *)
(* and it is of the pending row.                                           *)
OneUnderWay ==
    /\ bus # <<>> => /\ Len(bus) = 1 /\ bus[1] = PENDING
                     /\ \A i \in DOMAIN uart : uart[i] = 0
    /\ \A i \in DOMAIN uart : uart[i] # 0 => uart[i] = PENDING
    /\ \A i, j \in DOMAIN uart : uart[i] # 0 /\ uart[j] # 0 => i = j
    /\ replay \in {"none", "head", "submit"} => PENDING = 0

LEMMA Lines ==
    ASSUME TypeInv
    PROVE  /\ DOMAIN uart = 1 .. Len(uart) /\ Len(uart) \in Nat
           /\ \A i \in DOMAIN uart : uart[i] \in Row \cup {0}
<1>1. uart \in Seq(Row \cup {0})
  BY DEF TypeInv, TypeOK
<1> QED
  BY <1>1, LenProperties, ElementOfSeq

LEMMA LineAdded ==
    ASSUME TypeInv, NEW x \in Row \cup {0}, uart' = Append(uart, x)
    PROVE  /\ DOMAIN uart' = 1 .. Len(uart) + 1
           /\ \A i \in DOMAIN uart : uart'[i] = uart[i]
           /\ uart'[Len(uart) + 1] = x
<1>1. uart \in Seq(Row \cup {0})
  BY DEF TypeInv, TypeOK
<1> QED
  BY <1>1, AppendProperties, LenProperties

LEMMA LineTaken ==
    ASSUME TypeInv, uart # <<>>, uart' = Tail(uart)
    PROVE  /\ 1 \in DOMAIN uart /\ Head(uart) = uart[1]
           /\ \A i \in DOMAIN uart' : /\ i \in Nat \ {0} /\ i + 1 \in DOMAIN uart
                                      /\ uart'[i] = uart[i + 1]
<1>1. uart \in Seq(Row \cup {0})
  BY DEF TypeInv, TypeOK
<1>2. /\ Head(uart) = uart[1] /\ Len(uart') = Len(uart) - 1
      /\ uart' \in Seq(Row \cup {0})
      /\ \A i \in 1 .. Len(uart') : uart'[i] = uart[i + 1]
  BY <1>1, HeadTailProperties
<1>3. DOMAIN uart' = 1 .. Len(uart') /\ Len(uart') \in Nat
  BY <1>2, LenProperties
<1> QED
  BY <1>2, <1>3, Lines

LEMMA TakenKeepsOne ==
    ASSUME TypeInv, OneUnderWay, uart # <<>>, uart' = Tail(uart), bus' = bus,
           PENDING' = PENDING, replay' = replay
    PROVE  OneUnderWay'
<1>1. \A i \in DOMAIN uart' : /\ i \in Nat \ {0} /\ i + 1 \in DOMAIN uart
                              /\ uart'[i] = uart[i + 1]
  BY LineTaken
<1>2. \A i, j \in DOMAIN uart' : uart'[i] # 0 /\ uart'[j] # 0 => i = j
  <2> SUFFICES ASSUME NEW i \in DOMAIN uart', NEW j \in DOMAIN uart',
                      uart'[i] # 0, uart'[j] # 0
               PROVE  i = j
    OBVIOUS
  <2>1. i + 1 = j + 1
    BY <1>1 DEF OneUnderWay
  <2> QED
    BY <1>1, <2>1
<1> QED
  BY <1>1, <1>2 DEF OneUnderWay

LEMMA OneKept ==
    ASSUME TypeInv, OneUnderWay, [Next]_vars
    PROVE  OneUnderWay'
<1>1. ASSUME UNCHANGED <<bus, uart, PENDING>>,
             replay' \in {"none", "head", "submit"} =>
                replay \in {"none", "head", "submit"} \/ PENDING = 0
      PROVE  OneUnderWay'
  BY <1>1 DEF OneUnderWay
<1>2. CASE UNCHANGED vars \/ Signal \/ ReadStatus \/ ReaderEnds
  BY <1>1, <1>2 DEF vars, envVars, sharedVars, replayVars, Signal, ReadStatus, ReaderEnds
<1>3. CASE Main
  <2>1. UNCHANGED <<bus, uart, PENDING>>
    BY <1>3 DEF Main, envVars
  <2>2. \/ replay' = replay \/ replay' = Woken
        \/ replay = "none" /\ replay' = "head"
    BY <1>3 DEF Main, MainStopped, MainRaises, GateCopied, ReplayStarted, LoopGoesOn,
                ReplayAlive, ReplayOver, Boundary, StopSet, StopNotified, Exited, Leaves,
                TypeInv
  <2> QED
    BY <1>1, <2>1, <2>2 DEF Woken
<1>4. CASE Timeout
  BY <1>1, <1>4 DEF Timeout, WaitExpires
<1>5. CASE EcuRecords
  <2>1. bus # <<>> /\ bus' = Tail(bus) /\ uart' = Append(uart, Head(bus))
    BY <1>5 DEF EcuRecords
  <2>2. /\ Len(bus) = 1 /\ bus[1] = PENDING /\ \A i \in DOMAIN uart : uart[i] = 0
    BY <2>1 DEF OneUnderWay
  <2>3. bus \in Seq(Row)
    BY DEF TypeInv, TypeOK
  <2>4. Head(bus) = PENDING /\ Head(bus) \in Row \cup {0}
    BY <2>1, <2>2, <2>3, HeadTailProperties
  <2>5. bus' = <<>>
    <3>1. bus' \in Seq(Row) /\ Len(bus') = 0
      BY <2>1, <2>2, <2>3, HeadTailProperties
    <3> QED
      BY <3>1, EmptySeq
  <2>6. /\ DOMAIN uart' = 1 .. Len(uart) + 1
        /\ \A i \in DOMAIN uart : uart'[i] = uart[i]
        /\ uart'[Len(uart) + 1] = PENDING
    BY <2>1, <2>4, LineAdded
  <2>7. \A i \in DOMAIN uart' : i \in DOMAIN uart \/ i = Len(uart) + 1
    BY <2>6, Lines
  <2>8. PENDING' = PENDING /\ replay' = replay
    BY <1>5 DEF EcuRecords, sharedVars, replayVars
  <2> QED
    BY <2>2, <2>5, <2>6, <2>7, <2>8 DEF OneUnderWay
<1>6. CASE EcuLoses
  <2>1. bus # <<>> /\ bus' = Tail(bus) /\ UNCHANGED <<uart, PENDING, replay>>
    BY <1>6 DEF EcuLoses, sharedVars, replayVars
  <2>2. bus \in Seq(Row) /\ Len(bus) = 1
    BY <2>1 DEF TypeInv, TypeOK, OneUnderWay
  <2>3. bus' \in Seq(Row) /\ Len(bus') = 0
    BY <2>1, <2>2, HeadTailProperties
  <2>4. bus' = <<>>
    BY <2>3, EmptySeq
  <2> QED
    BY <2>1, <2>4 DEF OneUnderWay
<1>7. CASE ApplicationFrame
  <2>1. uart' = Append(uart, 0) /\ UNCHANGED <<bus, PENDING, replay>>
    BY <1>7 DEF ApplicationFrame, sharedVars, replayVars
  <2>2. /\ DOMAIN uart' = 1 .. Len(uart) + 1
        /\ \A i \in DOMAIN uart : uart'[i] = uart[i]
        /\ uart'[Len(uart) + 1] = 0
    BY <2>1, LineAdded
  <2>3. \A i \in DOMAIN uart' : i \in DOMAIN uart \/ i = Len(uart) + 1
    BY <2>2, Lines
  <2> QED
    BY <2>1, <2>2, <2>3 DEF OneUnderWay
<1>8. CASE LineGarbled
  BY <1>8, TakenKeepsOne DEF LineGarbled, sharedVars, replayVars
<1>9. CASE ReadOther
  BY <1>9, TakenKeepsOne DEF ReadOther, LineRead
<1>10. CASE ReadDecision
  <2>1. uart # <<>> /\ uart' = Tail(uart) /\ bus' = bus /\ PENDING' = 0 /\ Head(uart) # 0
    BY <1>10 DEF ReadDecision, LineRead, Matches
  <2>2. /\ 1 \in DOMAIN uart /\ Head(uart) = uart[1]
        /\ \A i \in DOMAIN uart' : /\ i \in Nat \ {0} /\ i + 1 \in DOMAIN uart
                                   /\ uart'[i] = uart[i + 1]
    BY <2>1, LineTaken
  <2>3. bus' = <<>>
    BY <2>1, <2>2 DEF OneUnderWay
  <2>4. \A i \in DOMAIN uart' : uart'[i] = 0
    <3> SUFFICES ASSUME NEW i \in DOMAIN uart', uart'[i] # 0
                 PROVE  FALSE
      OBVIOUS
    <3>1. i + 1 = 1
      BY <2>1, <2>2 DEF OneUnderWay
    <3> QED
      BY <2>2, <3>1
  <2> QED
    BY <2>1, <2>3, <2>4 DEF OneUnderWay
<1>11. CASE replay_dataset
  <2>1. uart' = uart
    BY <1>11 DEF replay_dataset
  <2>2. CASE Submit \/ SubmitFails
    <3>1. PENDING = 0 /\ PENDING' = row /\ replay' \in {"test", "done"} /\ row \in Row
      BY <2>2 DEF Submit, SubmitFails, OneUnderWay, TypeInv
    <3>2. row # 0 /\ bus \in Seq(Row)
      BY <3>1, Rows DEF TypeInv, TypeOK
    <3>3. bus = <<>>
      <4> SUFFICES ASSUME bus # <<>> PROVE FALSE
        OBVIOUS
      <4>1. bus[1] = 0 /\ Len(bus) = 1
        BY <3>1 DEF OneUnderWay
      <4>2. bus[1] \in Row
        BY <3>2, <4>1, ElementOfSeq
      <4> QED
        BY <4>1, <4>2, Rows
    <3>4. \A i \in DOMAIN uart : uart[i] = 0
      BY <3>1 DEF OneUnderWay
    <3>5. bus' = bus \/ bus' = Append(bus, row)
      BY <2>2 DEF Submit, SubmitFails
    <3>6. bus' # <<>> => Len(bus') = 1 /\ bus'[1] = row
      <4>1. Len(bus) = 0
        BY <3>3
      <4>2. CASE bus' = Append(bus, row)
        BY <3>1, <3>2, <4>1, <4>2, AppendProperties
      <4> QED
        BY <3>3, <3>5, <4>2
    <3> QED
      BY <2>1, <3>1, <3>4, <3>6 DEF OneUnderWay
  <2>3. CASE ReplayStopped \/ ReplayGivesUp
    BY <1>1, <2>1, <2>3 DEF ReplayStopped, ReplayGivesUp, ReplayRaises
  <2>4. CASE ReplayLocks \/ ReplayWaits \/ ReplayRelocks \/ ReplayAdvances \/ ReplayComplete
    BY <1>1, <2>1, <2>4
       DEF ReplayLocks, ReplayWaits, ReplayRelocks, ReplayAdvances, ReplayComplete
  <2> QED
    BY <1>11, <2>2, <2>3, <2>4 DEF replay_dataset
<1> QED
  BY <1>2, <1>3, <1>4, <1>5, <1>6, <1>7, <1>8, <1>9, <1>10, <1>11 DEF Next

LEMMA OneInvariant == Spec => []OneUnderWay
<1>1. Init => OneUnderWay
  <2> SUFFICES ASSUME Init PROVE OneUnderWay
    OBVIOUS
  <2>1. bus = <<>> /\ DOMAIN uart = {} /\ PENDING = 0
    BY DEF Init
  <2> QED
    BY <2>1 DEF OneUnderWay
<1>2. TypeInv /\ OneUnderWay /\ [Next]_vars => OneUnderWay'
  BY OneKept
<1> QED
  BY <1>1, <1>2, TypeInvariant, PTL DEF Spec

-----------------------------------------------------------------------------
(* The log.  It grows at its end; what it says of a row stays said.        *)
Decided(l, n, r) ==
    \E j, k \in 1 .. n : j < k /\ l[j] = Event("submit", r, r) /\ l[k] = Event("decision", r, r)

LEMMA DecidedStays ==
    ASSUME NEW l, NEW m, NEW n \in Nat, NEW q \in Nat, n <= q,
           \A i \in 1 .. n : m[i] = l[i], NEW r, Decided(l, n, r)
    PROVE  Decided(m, q, r)
<1>1. PICK j \in 1 .. n, k \in 1 .. n :
         j < k /\ l[j] = Event("submit", r, r) /\ l[k] = Event("decision", r, r)
  BY DEF Decided
<1>2. j \in 1 .. q /\ k \in 1 .. q
  OBVIOUS
<1> QED
  BY <1>1, <1>2 DEF Decided

LEMMA SaidStays ==
    ASSUME Len(log) \in Nat, Len(log') \in Nat, Len(log) <= Len(log'),
           \A i \in 1 .. Len(log) : log'[i] = log[i]
    PROVE  /\ \A i \in 0 .. Len(log) : \A r : Decided(log, i, r) => Decided(log', i, r)
           /\ \A r : Decided(log, Len(log), r) => Decided(log', Len(log'), r)
<1>1. ASSUME NEW i \in 0 .. Len(log), NEW q \in 0 .. Len(log'), i <= q, NEW r, Decided(log, i, r)
      PROVE  Decided(log', q, r)
  <2>1. i \in Nat /\ q \in Nat
    OBVIOUS
  <2>2. \A j \in 1 .. i : log'[j] = log[j]
    OBVIOUS
  <2> QED
    BY <1>1, <2>1, <2>2, DecidedStays
<1>2. \A i \in 0 .. Len(log) : i \in 0 .. Len(log') /\ i <= i
  OBVIOUS
<1>3. Len(log) \in 0 .. Len(log) /\ Len(log') \in 0 .. Len(log')
  OBVIOUS
<1>4. \A i \in 0 .. Len(log) : \A r : Decided(log, i, r) => Decided(log', i, r)
  BY <1>1, <1>2
<1>5. \A r : Decided(log, Len(log), r) => Decided(log', Len(log'), r)
  BY <1>1, <1>3
<1> QED
  BY <1>4, <1>5

LEMMA LogTyped ==
    ASSUME TypeInv
    PROVE  DOMAIN log = 1 .. Len(log) /\ Len(log) \in Nat
BY LenProperties DEF TypeInv

LEMMA LogAdded ==
    ASSUME TypeInv, NEW e, e \in Events, log' = Append(log, e)
    PROVE  /\ Len(log') = Len(log) + 1
           /\ \A i \in 1 .. Len(log) : log'[i] = log[i]
           /\ log'[Len(log) + 1] = e
           /\ \A i \in 1 .. Len(log') : i \in 1 .. Len(log) \/ i = Len(log) + 1
<1>1. log \in Seq(Events)
  BY DEF TypeInv
<1>2. /\ Len(log') = Len(log) + 1
      /\ \A i \in 1 .. Len(log) : log'[i] = log[i]
      /\ log'[Len(log) + 1] = e
  BY <1>1, AppendProperties
<1>3. \A i \in 1 .. Len(log') : i \in 1 .. Len(log) \/ i = Len(log) + 1
  BY <1>2, LogTyped
<1> QED
  BY <1>2, <1>3

Waited == replay \in {"test", "waiting", "woken"}

(* Every decision is about its own row; every row submitted, and every row *)
(* of a completed replay, comes after the decisions on those before it.    *)
DecisionsOwn ==
    \A i \in 1 .. Len(log) : log[i].kind = "decision" => log[i].row = log[i].of
SubmitsWait ==
    \A i \in 1 .. Len(log) :
        log[i].kind = "submit" => \A r \in 1 .. log[i].row - 1 : Decided(log, i - 1, r)
CompleteWhole ==
    \A c \in 1 .. Len(log) :
        log[c].kind = "replay_complete" => \A r \in Row : Decided(log, c, r)
RowsBefore ==
    replay # "done" => \A r \in 1 .. row - 1 : Decided(log, Len(log), r)
RowWaited ==
    Waited =>
        IF PENDING = 0 THEN Decided(log, Len(log), row)
        ELSE /\ PENDING = row
             /\ \E j \in 1 .. Len(log) : log[j] = Event("submit", row, row)
DoneLogged ==
    replay = "done" /\ ~REPLAY_ABORT =>
        \E c \in 1 .. Len(log) : log[c].kind = "replay_complete"

LogInv ==
    /\ DecisionsOwn /\ SubmitsWait /\ CompleteWhole
    /\ RowsBefore /\ RowWaited /\ DoneLogged

(* Steps that log nothing about a row and leave the replay where it is, or *)
(* let it fail.                                                            *)
LEMMA QuietKeepsLog ==
    ASSUME TypeInv, LogInv, log' = log, UNCHANGED <<row, PENDING>>,
           replay' # "done" => replay # "done", Waited' => Waited,
           replay' = "done" /\ ~REPLAY_ABORT' => replay = "done" /\ ~REPLAY_ABORT
    PROVE  LogInv'
BY DEF LogInv, DecisionsOwn, SubmitsWait, CompleteWhole, RowsBefore, RowWaited, DoneLogged, Decided

LEMMA HarmlessKeepsLog ==
    ASSUME TypeInv, LogInv,
           NEW k \in {"replay_failed", "normal_gate_pass", "shutdown_boundary"},
           log' = Append(log, Event(k, 0, 0)), UNCHANGED <<row, PENDING>>,
           replay' # "done" => replay # "done", Waited' => Waited,
           replay' = "done" /\ ~REPLAY_ABORT' => replay = "done" /\ ~REPLAY_ABORT
    PROVE  LogInv'
<1>1. Event(k, 0, 0) \in Events /\ Event(k, 0, 0).kind = k
  BY EventTyped DEF Kind, Event
<1>2. /\ Len(log') = Len(log) + 1
      /\ \A i \in 1 .. Len(log) : log'[i] = log[i]
      /\ log'[Len(log) + 1].kind = k
      /\ \A i \in 1 .. Len(log') : i \in 1 .. Len(log) \/ i = Len(log) + 1
  BY <1>1, LogAdded
<1>3. Len(log) \in Nat /\ Len(log') \in Nat /\ Len(log) <= Len(log')
  BY <1>2, LogTyped
<1>4. \A i \in 0 .. Len(log) : \A r : Decided(log, i, r) => Decided(log', i, r)
  BY <1>2, <1>3, SaidStays
<1>5. \A i \in 1 .. Len(log) : i \in 0 .. Len(log) /\ i - 1 \in 0 .. Len(log)
  BY <1>3
<1>6. \A r : Decided(log, Len(log), r) => Decided(log', Len(log'), r)
  BY <1>2, <1>3, SaidStays
<1>7. DecisionsOwn' /\ SubmitsWait' /\ CompleteWhole'
  BY <1>2, <1>4, <1>5 DEF LogInv, DecisionsOwn, SubmitsWait, CompleteWhole
<1>8. RowsBefore' /\ DoneLogged'
  BY <1>2, <1>3, <1>6 DEF LogInv, RowsBefore, DoneLogged
<1>9. RowWaited'
  BY <1>2, <1>3, <1>6 DEF LogInv, RowWaited
<1> QED
  BY <1>7, <1>8, <1>9 DEF LogInv

LEMMA SubmitKeepsLog ==
    ASSUME TypeInv, LogInv, Submit
    PROVE  LogInv'
<1> DEFINE e == Event("submit", row, row)
<1>1. row \in Row /\ row \in Nat \ {0} /\ row' = row /\ PENDING' = row
      /\ replay # "done" /\ replay' = "test" /\ log' = Append(log, e)
  BY Rows DEF Submit, TypeInv
<1>2. e \in Events /\ e.kind = "submit" /\ e.row = row
  BY <1>1, EventTyped DEF Kind, Event
<1> HIDE DEF e
<1>3. /\ Len(log') = Len(log) + 1
      /\ \A i \in 1 .. Len(log) : log'[i] = log[i]
      /\ log'[Len(log) + 1] = e
      /\ \A i \in 1 .. Len(log') : i \in 1 .. Len(log) \/ i = Len(log) + 1
  BY <1>1, <1>2, LogAdded
<1>4. Len(log) \in Nat /\ Len(log') \in Nat /\ Len(log) <= Len(log')
      /\ Len(log) + 1 \in 1 .. Len(log')
  BY <1>3, LogTyped
<1>5. /\ \A i \in 0 .. Len(log) : \A r : Decided(log, i, r) => Decided(log', i, r)
      /\ \A r : Decided(log, Len(log), r) => Decided(log', Len(log'), r)
  BY <1>3, <1>4, SaidStays
<1>6. \A i \in 1 .. Len(log) : i \in 0 .. Len(log) /\ i - 1 \in 0 .. Len(log)
  BY <1>4
<1>7. \A r \in 1 .. row - 1 : Decided(log', Len(log), r) /\ Decided(log', Len(log'), r)
  <2>1. \A r \in 1 .. row - 1 : Decided(log, Len(log), r)
    BY <1>1 DEF LogInv, RowsBefore
  <2>2. Len(log) \in 0 .. Len(log)
    BY <1>4
  <2> QED
    BY <1>5, <2>1, <2>2
<1>8. DecisionsOwn' /\ CompleteWhole'
  BY <1>2, <1>3, <1>5, <1>6 DEF LogInv, DecisionsOwn, CompleteWhole
<1>9. SubmitsWait'
  <2> SUFFICES ASSUME NEW i \in 1 .. Len(log'), log'[i].kind = "submit",
                      NEW r \in 1 .. log'[i].row - 1
               PROVE  Decided(log', i - 1, r)
    BY DEF SubmitsWait
  <2>1. CASE i \in 1 .. Len(log)
    BY <1>3, <1>5, <1>6, <2>1 DEF LogInv, SubmitsWait
  <2>2. CASE i = Len(log) + 1
    <3>1. i - 1 = Len(log) /\ r \in 1 .. row - 1
      BY <1>2, <1>3, <1>4, <2>2
    <3> QED
      BY <1>7, <3>1
  <2> QED
    BY <1>3, <2>1, <2>2
<1>10. RowsBefore' /\ DoneLogged'
  BY <1>1, <1>7 DEF RowsBefore, DoneLogged
<1>11. RowWaited'
  BY <1>1, <1>3, <1>4 DEF RowWaited, e
<1> QED
  BY <1>8, <1>9, <1>10, <1>11 DEF LogInv

LEMMA SubmitFailsKeepsLog ==
    ASSUME TypeInv, LogInv, SubmitFails
    PROVE  LogInv'
<1> DEFINE e == Event("submit", row, row)
           f == Event("replay_failed", 0, 0)
<1>1. row \in Row /\ row \in Nat \ {0}
      /\ replay # "done" /\ replay' = "done" /\ REPLAY_ABORT' /\ log' = log \o <<e, f>>
  BY Rows DEF SubmitFails, TypeInv
<1>2. e \in Events /\ e.kind = "submit" /\ e.row = row /\ f \in Events
      /\ f.kind = "replay_failed"
  BY <1>1, EventTyped DEF Kind, Event
<1> HIDE DEF e, f
<1>3. /\ Len(log') = Len(log) + 2 /\ Len(log) \in Nat
      /\ \A i \in 1 .. Len(log) : log'[i] = log[i]
      /\ log'[Len(log) + 1] = e /\ log'[Len(log) + 2] = f
  <2>1. log \in Seq(Events) /\ <<e, f>> \in Seq(Events) /\ Len(<<e, f>>) = 2
        /\ <<e, f>>[1] = e /\ <<e, f>>[2] = f
    BY <1>2 DEF TypeInv
  <2>2. /\ Len(log') = Len(log) + 2 /\ Len(log) \in Nat
        /\ \A i \in 1 .. Len(log) + 2 :
              log'[i] = IF i <= Len(log) THEN log[i] ELSE <<e, f>>[i - Len(log)]
    BY <1>1, <2>1, ConcatProperties, LenProperties
  <2>3. Len(log) + 1 - Len(log) = 1 /\ Len(log) + 2 - Len(log) = 2
    BY <2>2
  <2> QED
    BY <2>1, <2>2, <2>3
<1>4. \A i \in 1 .. Len(log') : i \in 1 .. Len(log) \/ i = Len(log) + 1 \/ i = Len(log) + 2
  BY <1>3
<1>5. \A i \in 0 .. Len(log) : \A r : Decided(log, i, r) => Decided(log', i, r)
  <2>1. Len(log') \in Nat /\ Len(log) <= Len(log')
    BY <1>3
  <2> QED
    BY <1>3, <2>1, SaidStays
<1>6. \A i \in 1 .. Len(log) : i \in 0 .. Len(log) /\ i - 1 \in 0 .. Len(log)
  BY <1>3
<1>7. \A r \in 1 .. row - 1 : Decided(log', Len(log), r)
  <2>1. \A r \in 1 .. row - 1 : Decided(log, Len(log), r)
    BY <1>1 DEF LogInv, RowsBefore
  <2>2. Len(log) \in 0 .. Len(log)
    BY <1>3
  <2> QED
    BY <1>5, <2>1, <2>2
<1>8. DecisionsOwn' /\ CompleteWhole'
  BY <1>2, <1>3, <1>4, <1>5, <1>6 DEF LogInv, DecisionsOwn, CompleteWhole
<1>9. SubmitsWait'
  <2> SUFFICES ASSUME NEW i \in 1 .. Len(log'), log'[i].kind = "submit",
                      NEW r \in 1 .. log'[i].row - 1
               PROVE  Decided(log', i - 1, r)
    BY DEF SubmitsWait
  <2>1. CASE i \in 1 .. Len(log)
    BY <1>3, <1>5, <1>6, <2>1 DEF LogInv, SubmitsWait
  <2>2. CASE i = Len(log) + 1
    <3>1. i - 1 = Len(log) /\ r \in 1 .. row - 1
      BY <1>2, <1>3, <2>2
    <3> QED
      BY <1>7, <3>1
  <2> QED
    BY <1>2, <1>3, <1>4, <2>1, <2>2
<1>10. RowsBefore' /\ DoneLogged' /\ RowWaited'
  BY <1>1 DEF RowsBefore, DoneLogged, RowWaited, Waited
<1> QED
  BY <1>8, <1>9, <1>10 DEF LogInv

LEMMA DecisionKeepsLog ==
    ASSUME TypeInv, OneUnderWay, LogInv, ReadDecision
    PROVE  LogInv'
<1> DEFINE e == Event("decision", PENDING, PENDING)
<1>1. /\ uart # <<>> /\ PENDING \in Row /\ PENDING' = 0 /\ row' = row
      /\ REPLAY_ABORT' = REPLAY_ABORT /\ replay' = Woken
  BY DEF ReadDecision, LineRead, Matches, TypeInv, TypeOK
<1>2. Head(uart) = PENDING
  <2>1. Head(uart) # 0
    BY DEF ReadDecision, Matches
  <2>2. 1 \in DOMAIN uart /\ Head(uart) = uart[1]
    <3>1. uart' = Tail(uart)
      BY DEF ReadDecision, LineRead
    <3> QED
      BY <1>1, <3>1, LineTaken
  <2> QED
    BY <2>1, <2>2 DEF OneUnderWay
<1>3. log' = Append(log, e)
  BY <1>2 DEF ReadDecision
<1>4. e \in Events /\ e.kind = "decision" /\ e.row = e.of
  BY <1>1, EventTyped DEF Kind, Event
<1> HIDE DEF e
<1>5. /\ Len(log') = Len(log) + 1
      /\ \A i \in 1 .. Len(log) : log'[i] = log[i]
      /\ log'[Len(log) + 1] = e
      /\ \A i \in 1 .. Len(log') : i \in 1 .. Len(log) \/ i = Len(log) + 1
  BY <1>3, <1>4, LogAdded
<1>6. Len(log) \in Nat /\ Len(log') \in Nat /\ Len(log) <= Len(log')
      /\ Len(log) + 1 \in 1 .. Len(log')
  BY <1>5, LogTyped
<1>7. /\ \A i \in 0 .. Len(log) : \A r : Decided(log, i, r) => Decided(log', i, r)
      /\ \A r : Decided(log, Len(log), r) => Decided(log', Len(log'), r)
  BY <1>5, <1>6, SaidStays
<1>8. \A i \in 1 .. Len(log) : i \in 0 .. Len(log) /\ i - 1 \in 0 .. Len(log)
  BY <1>6
<1>9. DecisionsOwn' /\ CompleteWhole' /\ SubmitsWait'
  BY <1>4, <1>5, <1>7, <1>8 DEF LogInv, DecisionsOwn, CompleteWhole, SubmitsWait
<1>10. (replay' = "done" <=> replay = "done") /\ (Waited' <=> Waited)
  BY <1>1 DEF Woken, Waited
<1>11. RowsBefore' /\ DoneLogged'
  BY <1>1, <1>5, <1>6, <1>7, <1>10 DEF LogInv, RowsBefore, DoneLogged
<1>12. RowWaited'
  <2> SUFFICES ASSUME Waited
               PROVE  Decided(log', Len(log'), row)
    BY <1>1, <1>10 DEF RowWaited
  <2>1. PENDING = row /\ PENDING # 0
    BY <1>1, Rows DEF LogInv, RowWaited
  <2>2. PICK j \in 1 .. Len(log) : log[j] = Event("submit", row, row)
    BY <2>1 DEF LogInv, RowWaited
  <2>3. /\ j \in 1 .. Len(log') /\ j < Len(log) + 1 /\ log'[j] = Event("submit", row, row)
        /\ log'[Len(log) + 1] = Event("decision", row, row)
    BY <1>5, <1>6, <2>1, <2>2 DEF e
  <2> QED
    BY <1>6, <2>3 DEF Decided
<1> QED
  BY <1>9, <1>11, <1>12 DEF LogInv

LEMMA AdvanceKeepsLog ==
    ASSUME TypeInv, LogInv, ReplayAdvances
    PROVE  LogInv'
<1>1. /\ replay = "test" /\ PENDING = 0 /\ replay' = "head" /\ row' = row + 1 /\ log' = log
  BY DEF ReplayAdvances
<1>2. row \in Nat \ {0}
  BY <1>1, Rows DEF TypeInv
<1>3. Decided(log, Len(log), row)
  BY <1>1 DEF LogInv, RowWaited, Waited
<1>4. \A r \in 1 .. row - 1 : Decided(log, Len(log), r)
  BY <1>1 DEF LogInv, RowsBefore
<1>5. \A r \in 1 .. row' - 1 : r \in 1 .. row - 1 \/ r = row
  BY <1>1, <1>2
<1>6. RowsBefore'
  BY <1>1, <1>3, <1>4, <1>5 DEF RowsBefore
<1>7. DecisionsOwn' /\ SubmitsWait' /\ CompleteWhole'
  BY <1>1 DEF LogInv, DecisionsOwn, SubmitsWait, CompleteWhole
<1>8. RowWaited' /\ DoneLogged'
  BY <1>1 DEF RowWaited, Waited, DoneLogged
<1> QED
  BY <1>6, <1>7, <1>8 DEF LogInv

LEMMA CompleteKeepsLog ==
    ASSUME TypeInv, LogInv, ReplayComplete
    PROVE  LogInv'
<1> DEFINE e == Event("replay_complete", 0, 0)
<1>1. /\ replay = "head" /\ row \notin Row /\ replay' = "done" /\ log' = Append(log, e)
  BY DEF ReplayComplete, emit
<1>2. e \in Events /\ e.kind = "replay_complete"
  BY EventTyped DEF Kind, Event
<1> HIDE DEF e
<1>3. /\ Len(log') = Len(log) + 1
      /\ \A i \in 1 .. Len(log) : log'[i] = log[i]
      /\ log'[Len(log) + 1] = e
      /\ \A i \in 1 .. Len(log') : i \in 1 .. Len(log) \/ i = Len(log) + 1
  BY <1>1, <1>2, LogAdded
<1>4. Len(log) \in Nat /\ Len(log') \in Nat /\ Len(log) <= Len(log')
      /\ Len(log) + 1 \in 1 .. Len(log')
  BY <1>3, LogTyped
<1>5. /\ \A i \in 0 .. Len(log) : \A r : Decided(log, i, r) => Decided(log', i, r)
      /\ \A r : Decided(log, Len(log), r) => Decided(log', Len(log'), r)
  BY <1>3, <1>4, SaidStays
<1>6. \A i \in 1 .. Len(log) : i \in 0 .. Len(log) /\ i - 1 \in 0 .. Len(log)
  BY <1>4
<1>7. DecisionsOwn' /\ SubmitsWait'
  BY <1>2, <1>3, <1>5, <1>6 DEF LogInv, DecisionsOwn, SubmitsWait
<1>8. row - 1 = Len(Content)
  BY <1>1, Rows DEF TypeInv, TypeOK
<1>9. \A r \in Row : Decided(log', Len(log'), r)
  <2>1. \A r \in 1 .. row - 1 : Decided(log, Len(log), r)
    BY <1>1 DEF LogInv, RowsBefore
  <2> QED
    BY <1>5, <1>8, <2>1, Rows
<1>10. CompleteWhole'
  <2> SUFFICES ASSUME NEW c \in 1 .. Len(log'), log'[c].kind = "replay_complete",
                      NEW r \in Row
               PROVE  Decided(log', c, r)
    BY DEF CompleteWhole
  <2>1. CASE c \in 1 .. Len(log)
    BY <1>3, <1>5, <1>6, <2>1 DEF LogInv, CompleteWhole
  <2>2. CASE c = Len(log) + 1
    BY <1>3, <1>9, <2>2
  <2> QED
    BY <1>3, <2>1, <2>2
<1>11. RowsBefore' /\ RowWaited' /\ DoneLogged'
  BY <1>1, <1>2, <1>3, <1>4 DEF RowsBefore, RowWaited, Waited, DoneLogged
<1> QED
  BY <1>7, <1>10, <1>11 DEF LogInv

LEMMA LogKept ==
    ASSUME TypeInv, OneUnderWay, LogInv, [Next]_vars
    PROVE  LogInv'
<1>1. CASE UNCHANGED vars \/ EcuRecords \/ EcuLoses \/ ApplicationFrame \/ LineGarbled
           \/ Signal \/ ReadStatus \/ ReadOther \/ ReaderEnds
  <2>1. UNCHANGED <<log, row, PENDING, replay, REPLAY_ABORT>>
    BY <1>1 DEF vars, sharedVars, replayVars, EcuRecords, EcuLoses, ApplicationFrame,
                LineGarbled, Signal, ReadStatus, ReadOther, LineRead, ReaderEnds
  <2> QED
    BY <2>1, QuietKeepsLog DEF Waited
<1>2. CASE ReadDecision
  BY <1>2, DecisionKeepsLog
<1>3. CASE Timeout
  BY <1>3, QuietKeepsLog DEF Timeout, WaitExpires, Waited
<1>4. CASE replay_dataset
  <2>1. CASE ReplayStopped \/ ReplayGivesUp
    <3>1. /\ replay # "done" /\ replay' = "done" /\ REPLAY_ABORT'
          /\ log' = Append(log, Event("replay_failed", 0, 0)) /\ UNCHANGED <<PENDING, row>>
      BY <2>1 DEF ReplayStopped, ReplayGivesUp, ReplayRaises, emit
    <3>2. ~Waited'
      BY <3>1 DEF Waited
    <3> QED
      BY <3>1, <3>2, HarmlessKeepsLog
  <2>2. CASE ReplayLocks \/ ReplayWaits \/ ReplayRelocks
    <3>1. /\ UNCHANGED <<log, row, PENDING, REPLAY_ABORT>>
          /\ replay # "done" /\ replay' # "done" /\ (Waited' => Waited)
      BY <2>2 DEF ReplayLocks, ReplayWaits, ReplayRelocks, Waited
    <3> QED
      BY <3>1, QuietKeepsLog
  <2>3. CASE Submit
    BY <2>3, SubmitKeepsLog
  <2>4. CASE SubmitFails
    BY <2>4, SubmitFailsKeepsLog
  <2>5. CASE ReplayAdvances
    BY <2>5, AdvanceKeepsLog
  <2>6. CASE ReplayComplete
    BY <2>6, CompleteKeepsLog
  <2> QED
    BY <1>4, <2>1, <2>2, <2>3, <2>4, <2>5, <2>6 DEF replay_dataset
<1>5. CASE Main
  <2>1. UNCHANGED <<row, PENDING, REPLAY_ABORT>>
    BY <1>5 DEF Main
  <2>2. CASE ReplayStarted
    <3>1. /\ replay = "none" /\ replay' = "head"
          /\ log' = Append(log, Event("normal_gate_pass", 0, 0))
      BY <2>2 DEF ReplayStarted, emit, TypeInv
    <3>2. ~Waited'
      BY <3>1 DEF Waited
    <3> QED
      BY <2>1, <3>1, <3>2, HarmlessKeepsLog
  <2>3. CASE Boundary
    <3>1. replay' = replay /\ log' = Append(log, Event("shutdown_boundary", 0, 0))
      BY <2>3 DEF Boundary, emit
    <3> QED
      BY <2>1, <3>1, HarmlessKeepsLog DEF Waited
  <2>4. CASE \/ MainStopped \/ MainRaises \/ GateCopied \/ LoopGoesOn \/ ReplayAlive
             \/ ReplayOver \/ StopSet \/ StopNotified \/ Exited
    <3>1. log' = log /\ (replay' = replay \/ replay' = Woken)
      BY <2>4 DEF MainStopped, MainRaises, GateCopied, LoopGoesOn, ReplayAlive,
                  ReplayOver, StopSet, StopNotified, Exited, Leaves
    <3>2. (replay' = "done" <=> replay = "done") /\ (Waited' => Waited)
      BY <3>1 DEF Woken, Waited
    <3> QED
      BY <2>1, <3>1, <3>2, QuietKeepsLog
  <2> QED
    BY <1>5, <2>2, <2>3, <2>4 DEF Main
<1> QED
  BY <1>1, <1>2, <1>3, <1>4, <1>5 DEF Next

LEMMA LogInvariant == Spec => []LogInv
<1>1. Init => LogInv
  <2> SUFFICES ASSUME Init PROVE LogInv
    OBVIOUS
  <2>1. log = <<>> /\ replay = "none" /\ row = 1 /\ Len(log) = 0
    BY DEF Init
  <2> QED
    BY <2>1 DEF LogInv, DecisionsOwn, SubmitsWait, CompleteWhole, RowsBefore, RowWaited,
                Waited, DoneLogged
<1>2. TypeInv /\ OneUnderWay /\ LogInv /\ [Next]_vars => LogInv'
  BY LogKept
<1> QED
  BY <1>1, <1>2, TypeInvariant, OneInvariant, PTL DEF Spec

(* No decision is logged for a row other than the one its record is about: *)
(* for any data set, equal rows included, and any loss and lateness.       *)
THEOREM AttributionIsSound == Spec => []AttributionSound
<1>1. TypeInv /\ LogInv => AttributionSound
  BY LogTyped DEF LogInv, DecisionsOwn, AttributionSound, Logged
<1> QED
  BY <1>1, TypeInvariant, LogInvariant, PTL

(* No row is submitted before the decisions on all rows before it.         *)
THEOREM EverySubmitWaited == Spec => []WaitForDecision
<1>1. TypeInv /\ LogInv => WaitForDecision
  BY LogTyped DEF LogInv, SubmitsWait, WaitForDecision, Logged, Decided
<1> QED
  BY <1>1, TypeInvariant, LogInvariant, PTL

-----------------------------------------------------------------------------
(* The outcome.  main decides for success only when the replay is over and *)
(* was not aborted, and logs the boundary after that.                      *)
Success == outcome = "ok" /\ ~signalled

OutcomeInv ==
    /\ STOP => signalled \/ main \in {"notify", "join", "exited"}
    /\ Success /\ main \in {"boundary", "stop", "notify", "join", "exited"} =>
          replay = "done" /\ ~REPLAY_ABORT
    /\ Success /\ main \in {"stop", "notify", "join", "exited"} =>
          \E b, c \in 1 .. Len(log) :
             c < b /\ log[b].kind = "shutdown_boundary" /\ log[c].kind = "replay_complete"

LEMMA OutcomeKept ==
    ASSUME TypeInv, LogInv, OutcomeInv, [Next]_vars
    PROVE  OutcomeInv'
<1>1. ASSUME UNCHANGED <<STOP, signalled, main, outcome, replay, REPLAY_ABORT, log>>
      PROVE  OutcomeInv'
  BY <1>1 DEF OutcomeInv, Success
<1>2. CASE UNCHANGED vars \/ EcuRecords \/ EcuLoses \/ ApplicationFrame \/ LineGarbled
           \/ ReadStatus \/ ReadOther \/ ReaderEnds
  <2>1. UNCHANGED <<STOP, signalled, main, outcome, replay, REPLAY_ABORT, log>>
    BY <1>2 DEF vars, envVars, sharedVars, mainVars, replayVars, EcuRecords, EcuLoses,
                ApplicationFrame, LineGarbled, ReadStatus, ReadOther, LineRead, ReaderEnds
  <2> QED
    BY <1>1, <2>1
<1>3. CASE Signal
  BY <1>3 DEF Signal, mainVars, OutcomeInv, Success
<1>4. CASE replay_dataset \/ Timeout
  <2>1. replay # "done" /\ UNCHANGED <<STOP, signalled, main, outcome>>
    BY <1>4 DEF replay_dataset, Timeout, WaitExpires, ReplayStopped, ReplayLocks, Submit,
                SubmitFails, ReplayWaits, ReplayRelocks, ReplayGivesUp, ReplayAdvances,
                ReplayComplete, mainVars
  <2> QED
    BY <2>1 DEF OutcomeInv, Success
<1>5. CASE ReadDecision
  <2>1. /\ UNCHANGED <<STOP, signalled, main, outcome, REPLAY_ABORT>>
        /\ replay = "done" => replay' = "done"
    BY <1>5 DEF ReadDecision, LineRead, Woken, mainVars
  <2>2. /\ Len(log) \in Nat /\ Len(log') = Len(log) + 1
        /\ \A i \in 1 .. Len(log) : log'[i] = log[i]
    <3>1. Head(uart) \in Row \cup {0} /\ PENDING \in Row \cup {0}
      BY <1>5, HeadTailProperties DEF ReadDecision, LineRead, TypeInv, TypeOK
    <3>2. Event("decision", PENDING, Head(uart)) \in Events
      BY <3>1, EventTyped DEF Kind
    <3> QED
      BY <1>5, <3>2, LogAdded, LogTyped DEF ReadDecision
  <2> QED
    BY <2>1, <2>2 DEF OutcomeInv, Success
<1>6. CASE Main
  <2>1. UNCHANGED <<signalled, REPLAY_ABORT>>
    BY <1>6 DEF Main, envVars
  <2>2. CASE MainStopped
    <3>1. STOP /\ main = "loop" /\ main' = "boundary" /\ STOP' = STOP
      BY <2>2 DEF MainStopped, Leaves
    <3>2. signalled
      BY <3>1 DEF OutcomeInv
    <3> QED
      BY <2>1, <3>1, <3>2 DEF OutcomeInv, Success
  <2>3. CASE MainRaises
    BY <2>1, <2>3 DEF MainRaises, Leaves, OutcomeInv, Success
  <2>4. CASE ReplayOver
    BY <2>1, <2>4 DEF ReplayOver, Leaves, OutcomeInv, Success
  <2>5. CASE GateCopied \/ ReplayStarted \/ LoopGoesOn \/ ReplayAlive
    <3>1. main \in {"loop", "gated", "check"} /\ main' \in {"loop", "gated", "check"}
          /\ STOP' = STOP
      BY <2>5 DEF GateCopied, ReplayStarted, LoopGoesOn, ReplayAlive
    <3> QED
      BY <2>1, <3>1 DEF OutcomeInv, Success
  <2>6. CASE Boundary
    <3> DEFINE e == Event("shutdown_boundary", 0, 0)
    <3>1. /\ main = "boundary" /\ main' = "stop" /\ UNCHANGED <<STOP, outcome, replay>>
          /\ log' = Append(log, e)
      BY <2>6 DEF Boundary, emit
    <3>2. e \in Events /\ e.kind = "shutdown_boundary"
      BY EventTyped DEF Kind, Event
    <3> HIDE DEF e
    <3>3. /\ Len(log') = Len(log) + 1 /\ Len(log) \in Nat
          /\ \A i \in 1 .. Len(log) : log'[i] = log[i]
          /\ log'[Len(log) + 1] = e
      BY <3>1, <3>2, LogAdded, LogTyped
    <3>4. CASE Success
      <4>1. replay = "done" /\ ~REPLAY_ABORT
        BY <3>1, <3>4 DEF OutcomeInv
      <4>2. PICK c \in 1 .. Len(log) : log[c].kind = "replay_complete"
        BY <4>1 DEF LogInv, DoneLogged
      <4>3. /\ Len(log) + 1 \in 1 .. Len(log') /\ c \in 1 .. Len(log') /\ c < Len(log) + 1
            /\ log'[c].kind = "replay_complete"
            /\ log'[Len(log) + 1].kind = "shutdown_boundary"
        BY <3>2, <3>3, <4>2
      <4> QED
        BY <2>1, <3>1, <4>1, <4>3 DEF OutcomeInv
    <3>5. CASE ~Success
      BY <2>1, <3>1, <3>5 DEF OutcomeInv, Success
    <3> QED
      BY <3>4, <3>5
  <2>7. CASE StopSet \/ StopNotified \/ Exited
    <3>1. /\ main \in {"stop", "notify", "join"} /\ main' \in {"notify", "join", "exited"}
          /\ UNCHANGED <<log, outcome>> /\ (replay = "done" => replay' = "done")
      BY <2>7 DEF StopSet, StopNotified, Exited, Woken
    <3> QED
      BY <2>1, <3>1 DEF OutcomeInv, Success
  <2> QED
    BY <1>6, <2>2, <2>3, <2>4, <2>5, <2>6, <2>7 DEF Main
<1> QED
  BY <1>2, <1>3, <1>4, <1>5, <1>6 DEF Next

LEMMA OutcomeInvariant == Spec => []OutcomeInv
<1>1. Init => OutcomeInv
  BY DEF Init, OutcomeInv
<1>2. TypeInv /\ LogInv /\ OutcomeInv /\ [Next]_vars => OutcomeInv'
  BY OutcomeKept
<1> QED
  BY <1>1, <1>2, TypeInvariant, LogInvariant, PTL DEF Spec

(* A service that ends without an error, and was not told to stop, has     *)
(* submitted every row of the data set, logged the decision on each and    *)
(* the completion of the replay, all before the boundary of its log.       *)
THEOREM SuccessMeansWhole == Spec => []SuccessIsWhole
<1>1. TypeInv /\ LogInv /\ OutcomeInv => SuccessIsWhole
  <2> SUFFICES ASSUME TypeInv, LogInv, OutcomeInv, main = "exited", outcome = "ok", ~signalled
               PROVE  \E b \in Logged("shutdown_boundary"), c \in Logged("replay_complete") :
                         /\ c < b
                         /\ \A r \in Row : \E i, j \in 1 .. c :
                              /\ log[i] = Event("submit", r, r)
                              /\ log[j] = Event("decision", r, r)
    BY DEF SuccessIsWhole
  <2>1. PICK b \in 1 .. Len(log), c \in 1 .. Len(log) :
           c < b /\ log[b].kind = "shutdown_boundary" /\ log[c].kind = "replay_complete"
    BY DEF OutcomeInv, Success
  <2>2. \A r \in Row : Decided(log, c, r)
    BY <2>1 DEF LogInv, CompleteWhole
  <2>3. b \in Logged("shutdown_boundary") /\ c \in Logged("replay_complete")
    BY <2>1, LogTyped DEF Logged
  <2>4. \A r \in Row : \E i, j \in 1 .. c :
           log[i] = Event("submit", r, r) /\ log[j] = Event("decision", r, r)
    BY <2>2 DEF Decided
  <2> QED
    BY <2>1, <2>3, <2>4
<1> QED
  BY <1>1, TypeInvariant, LogInvariant, OutcomeInvariant, PTL
=============================================================================
