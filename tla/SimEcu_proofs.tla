---------------------------- MODULE SimEcu_proofs ----------------------------
(***************************************************************************)
(* Theorems about SimEcu, for all queue sizes, bursts, and bounds.         *)
(***************************************************************************)
EXTENDS SimEcu, SequenceTheorems, TLAPS

-----------------------------------------------------------------------------
(* The indices of the rings.                                               *)
LEMMA ModNext ==
    ASSUME NEW n \in Nat \ {0}, NEW i \in 0 .. n - 1
    PROVE  (i + 1) % n = IF i + 1 = n THEN 0 ELSE i + 1
OBVIOUS

LEMMA ModDepth ==
    ASSUME NEW n \in Nat \ {0}, NEW h \in 0 .. n - 1, NEW t \in 0 .. n - 1
    PROVE  (h + n - t) % n = IF h >= t THEN h - t ELSE h + n - t
OBVIOUS

LEMMA ModPosition ==
    ASSUME NEW n \in Nat \ {0}, NEW t \in 0 .. n - 1, NEW i \in 1 .. n
    PROVE  (t + i - 1) % n = IF t + i - 1 < n THEN t + i - 1 ELSE t + i - 1 - n
OBVIOUS

LEMMA CountInRange == \A c \in 0 .. CounterMod - 1 : Count(c) \in 0 .. CounterMod - 1
BY BoundAssumption DEF Count

LEMMA NextInRange ==
    /\ \A i \in Slot : NextSlot(i) \in Slot /\ NextSlot(i) # i
    /\ \A i \in TxSlot : NextTx(i) \in TxSlot
<1>1. RingSize \in Nat \ {0} /\ TxSize \in Nat \ {0} /\ RingSize >= 2
  BY RingAssumption, TxAssumption
<1>2. \A i \in Slot : NextSlot(i) = IF i + 1 = RingSize THEN 0 ELSE i + 1
  BY <1>1, ModNext DEF Slot, NextSlot
<1>3. \A i \in TxSlot : NextTx(i) = IF i + 1 = TxSize THEN 0 ELSE i + 1
  BY <1>1, ModNext DEF TxSlot, NextTx
<1> QED
  BY <1>1, <1>2, <1>3 DEF Slot, TxSlot

-----------------------------------------------------------------------------
(* Type correctness, and what goes with it: interrupts are masked from the *)
(* second test of the queue to the end of the sleep only.                  *)
TypeInv ==
    /\ TypeOK
    /\ masked <=> pc \in {"idle", "asleep", "unmask"}

LEMMA PollTyped ==
    ASSUME TypeInv, tx_poll
    PROVE  /\ tx_tail' \in TxSlot /\ mailbox' \in {"empty", "busy", "finished"}
           /\ pending_tx' \in BOOLEAN /\ loaded' \in 0 .. MaxFrames
BY NextInRange DEF TypeInv, TypeOK, tx_poll

LEMMA MainTyped ==
    ASSUME TypeInv, main
    PROVE  TypeInv'
<1> USE DEF TypeInv, TypeOK, rxVars, takeVars, timeVars, queueVars, boxVars
<1>1. CASE PollInLoop
  BY <1>1, PollTyped DEF PollInLoop
<1>2. CASE application_step
  <2>1. toSend' \in 0 .. Burst
    BY <1>2 DEF application_step
  <2> QED
    BY <1>2, <2>1 DEF application_step
<1>3. CASE send_frame
  <2>1. offered + 1 \in 0 .. MaxFrames /\ toSend - 1 \in 0 .. Burst
    BY <1>3, BoundAssumption, BurstAssumption DEF send_frame
  <2>2. tx_queue' \in [TxSlot -> 0 .. MaxFrames] /\ tx_head' \in TxSlot
    BY <1>3, <2>1, NextInRange DEF send_frame
  <2>3. sim_tx_busy' \in 0 .. offered'
    BY <1>3, <2>1 DEF send_frame
  <2> QED
    BY <1>3, <2>1, <2>2, <2>3 DEF send_frame
<1>4. CASE PollAfterSend
  BY <1>4, PollTyped DEF PollAfterSend
<1>5. CASE StepDone
  BY <1>5, BurstAssumption DEF StepDone
<1>6. CASE Control
  <2>1. complete' \in 0 .. CounterMod - 1
    BY <1>6, CountInRange DEF Control
  <2> QED
    BY <1>6, <2>1 DEF Control
<1>7. CASE NothingReceived
  BY <1>7 DEF NothingReceived
<1>8. CASE IdleTest
  BY <1>8 DEF IdleTest
<1>9. CASE Wake
  BY <1>9 DEF Wake
<1>10. CASE Unmask
  BY <1>10 DEF Unmask
<1>11. CASE Received
  BY <1>11 DEF Received
<1>12. CASE Release
  BY <1>12, NextInRange DEF Release
<1>13. CASE Mask
  BY <1>13 DEF Mask
<1> QED
  BY <1>1, <1>2, <1>3, <1>4, <1>5, <1>6, <1>7, <1>8, <1>9, <1>10, <1>11, <1>12, <1>13 DEF main

LEMMA TypeInvariant == Spec => []TypeInv
<1>1. Init => TypeInv
  <2>1. 0 \in Slot /\ 0 \in TxSlot /\ 0 \in 0 .. CounterMod - 1 /\ 0 \in 0 .. Burst /\ 0 \in 0 .. MaxFrames /\ 0 \in 0 .. MaxWaiting
    BY RingAssumption, TxAssumption, BurstAssumption, BoundAssumption DEF Slot, TxSlot
  <2> SUFFICES ASSUME Init PROVE TypeInv
    OBVIOUS
  <2>2. /\ arrival_tick \in [Slot -> 0 .. CounterMod - 1]
        /\ came \in [Slot -> 0 .. CounterMod - 1]
        /\ taken \in (0 .. CounterMod - 1) \X (0 .. CounterMod - 1)
        /\ tx_queue \in [TxSlot -> 0 .. MaxFrames] /\ sim_tx_busy \in 0 .. offered
    BY <2>1 DEF Init
  <2>3. TypeOK
    BY <2>1, <2>2 DEF Init, TypeOK
  <2> QED
    BY <2>3 DEF Init, TypeInv
<1>2. TypeInv /\ [Next]_vars => TypeInv'
  <2> SUFFICES ASSUME TypeInv, [Next]_vars PROVE TypeInv'
    OBVIOUS
  <2> USE DEF TypeInv, TypeOK, rxVars, takeVars, timeVars, queueVars, boxVars
  <2>1. CASE FrameArrives
    BY <2>1, BoundAssumption DEF FrameArrives
  <2>2. CASE TimerExpires
    BY <2>2 DEF TimerExpires
  <2>3. CASE MailboxFinishes
    BY <2>3 DEF MailboxFinishes
  <2>4. CASE CAN1_RX0_IRQHandler
    <3>1. /\ waiting' \in 0 .. MaxWaiting /\ head' \in Slot
          /\ arrival_tick' \in [Slot -> 0 .. CounterMod - 1]
          /\ came' \in [Slot -> 0 .. CounterMod - 1]
      BY <2>4, NextInRange, BoundAssumption DEF CAN1_RX0_IRQHandler
    <3> QED
      BY <2>4, <3>1 DEF CAN1_RX0_IRQHandler, Interrupt
  <2>5. CASE SysTick_Handler
    <3>1. tick' \in 0 .. CounterMod - 1 /\ release' \in 0 .. CounterMod - 1
      BY <2>5, CountInRange DEF SysTick_Handler
    <3> QED
      BY <2>5, <3>1 DEF SysTick_Handler, Interrupt
  <2>6. CASE main
    BY <2>6, MainTyped
  <2>7. CASE UNCHANGED vars
    BY <2>7 DEF vars
  <2> QED
    BY <2>1, <2>2, <2>3, <2>4, <2>5, <2>6, <2>7 DEF Next
<1> QED
  BY <1>1, <1>2, PTL DEF Spec

(* Every index stays in its ring and every counter below its bound.        *)
THEOREM TypeCorrect == Spec => []TypeOK
<1>1. TypeInv => TypeOK
  BY DEF TypeInv
<1> QED
  BY <1>1, TypeInvariant, PTL

-----------------------------------------------------------------------------
(* Arrivals.  The one slot whose stamp may be of no frame is that of the   *)
(* head: a refused frame stamps it, and so does the frame stored there.    *)
Stamped ==
    /\ \A s \in Slot : s # head => arrival_tick[s] = came[s]
    /\ taken[1] = taken[2]

(* The recorded arrival is that of the frame, however many refused frames  *)
(* were stamped meanwhile: for every size of the ring.                     *)
THEOREM StampIsOwn == Spec => []ArrivalOfFrame
<1>1. Init => Stamped
  BY DEF Init, Stamped
<1>2. TypeInv /\ Stamped /\ [Next]_vars => Stamped'
  <2> SUFFICES ASSUME TypeInv, Stamped, [Next]_vars PROVE Stamped'
    OBVIOUS
  <2>1. CASE UNCHANGED <<head, arrival_tick, came, taken>>
    BY <2>1 DEF Stamped
  <2>2. CASE CAN1_RX0_IRQHandler
    <3>1. /\ head \in Slot /\ tick \in 0 .. CounterMod - 1 /\ NextSlot(head) # head
          /\ arrival_tick \in [Slot -> 0 .. CounterMod - 1]
          /\ came \in [Slot -> 0 .. CounterMod - 1]
      BY NextInRange DEF TypeInv, TypeOK
    <3>2. arrival_tick' = [arrival_tick EXCEPT ![head] = tick] /\ taken' = taken
      BY <2>2 DEF CAN1_RX0_IRQHandler, Interrupt, takeVars
    <3>3. \/ came' = [came EXCEPT ![head] = tick] /\ head' = NextSlot(head)
          \/ UNCHANGED <<came, head>>
      BY <2>2 DEF CAN1_RX0_IRQHandler
    <3> QED
      BY <3>1, <3>2, <3>3 DEF Stamped
  <2>3. CASE Received
    <3>1. tail \in Slot /\ tail # head /\ taken' = <<arrival_tick[tail], came[tail]>>
      BY <2>3 DEF Received, TypeInv, TypeOK
    <3>2. UNCHANGED <<head, arrival_tick, came>>
      BY <2>3 DEF Received, rxVars
    <3> QED
      BY <3>1, <3>2 DEF Stamped
  <2>4. CASE FrameArrives \/ TimerExpires \/ MailboxFinishes \/ SysTick_Handler
             \/ UNCHANGED vars
    BY <2>1, <2>4 DEF FrameArrives, TimerExpires, MailboxFinishes, SysTick_Handler,
                      Interrupt, rxVars, takeVars, vars
  <2>5. CASE main /\ ~Received
    BY <2>1, <2>5 DEF main, PollInLoop, application_step, send_frame, PollAfterSend,
                      StepDone, Control, NothingReceived, Mask, IdleTest, Wake, Unmask,
                      Release, rxVars, takeVars
  <2> QED
    BY <2>2, <2>3, <2>4, <2>5 DEF Next
<1>3. Stamped => ArrivalOfFrame
  BY DEF Stamped, ArrivalOfFrame
<1> QED
  BY <1>1, <1>2, <1>3, TypeInvariant, PTL DEF Spec

(* An interrupt may bring work between the first test of the queue and the *)
(* masking, and the second test then finds it; between that and the sleep  *)
(* none is taken.                                                          *)
THEOREM SleepsIdle == Spec => []NeverSleepsOnWork
<1>1. Init => NeverSleepsOnWork
  BY DEF Init, NeverSleepsOnWork
<1>2. TypeInv /\ NeverSleepsOnWork /\ [Next]_vars => NeverSleepsOnWork'
  <2> SUFFICES ASSUME TypeInv, NeverSleepsOnWork, [Next]_vars PROVE NeverSleepsOnWork'
    OBVIOUS
  <2> USE DEF NeverSleepsOnWork, rxVars, takeVars, timeVars
  <2>1. CASE FrameArrives \/ TimerExpires \/ MailboxFinishes \/ UNCHANGED vars
    BY <2>1 DEF FrameArrives, TimerExpires, MailboxFinishes, vars
  <2>2. CASE CAN1_RX0_IRQHandler \/ SysTick_Handler
    <3>1. pc # "asleep" /\ pc' = pc
      BY <2>2 DEF CAN1_RX0_IRQHandler, SysTick_Handler, Interrupt, TypeInv
    <3> QED
      BY <3>1
  <2>3. CASE main
    BY <2>3 DEF main, PollInLoop, application_step, send_frame, PollAfterSend,
                StepDone, Control, NothingReceived, Mask, IdleTest, Wake, Unmask,
                Received, Release
  <2> QED
    BY <2>1, <2>2, <2>3 DEF Next
<1> QED
  BY <1>1, <1>2, TypeInvariant, PTL DEF Spec

-----------------------------------------------------------------------------
(* Refinement: the ring of frames and the one mailbox implement LossyFifo. *)
Depth == (tx_head + TxSize - tx_tail) % TxSize
Position(i) == (tx_tail + i - 1) % TxSize

LEMMA TxShape ==
    ASSUME TypeInv
    PROVE  /\ TxSize \in Nat \ {0} /\ TxSize >= 2 /\ TxSlot = 0 .. TxSize - 1
           /\ tx_head \in TxSlot /\ tx_tail \in TxSlot
           /\ Depth = IF tx_head >= tx_tail THEN tx_head - tx_tail
                      ELSE tx_head + TxSize - tx_tail
           /\ Depth \in 0 .. TxSize - 1
           /\ \A i \in 1 .. TxSize :
                 Position(i) = IF tx_tail + i - 1 < TxSize THEN tx_tail + i - 1
                               ELSE tx_tail + i - 1 - TxSize
           /\ \A i \in 1 .. Depth : Position(i) \in TxSlot /\ Position(i) # tx_head
           /\ Position(Depth + 1) = tx_head
<1>1. TxSize \in Nat \ {0} /\ TxSize >= 2 /\ TxSlot = 0 .. TxSize - 1
      /\ tx_head \in TxSlot /\ tx_tail \in TxSlot
  BY TxAssumption DEF TypeInv, TypeOK, TxSlot
<1>2. Depth = IF tx_head >= tx_tail THEN tx_head - tx_tail ELSE tx_head + TxSize - tx_tail
  BY <1>1, ModDepth DEF Depth
<1>3. Depth \in 0 .. TxSize - 1
  BY <1>1, <1>2
<1>4. \A i \in 1 .. TxSize :
         Position(i) = IF tx_tail + i - 1 < TxSize THEN tx_tail + i - 1
                       ELSE tx_tail + i - 1 - TxSize
  BY <1>1, ModPosition DEF Position
<1>5. \A i \in 1 .. Depth : Position(i) \in TxSlot /\ Position(i) # tx_head
  BY <1>1, <1>2, <1>3, <1>4
<1>6. Position(Depth + 1) = tx_head
  BY <1>1, <1>2, <1>3, <1>4
<1> QED
  BY <1>1, <1>2, <1>3, <1>4, <1>5, <1>6

DepthOK ==
    /\ tx_head \in TxSlot /\ tx_tail \in TxSlot
    /\ Depth = IF tx_head >= tx_tail THEN tx_head - tx_tail ELSE tx_head + TxSize - tx_tail
    /\ Depth \in 0 .. TxSize - 1

LEMMA TxShapeNow == TypeInv => DepthOK
BY TxShape DEF DepthOK

LEMMA TxShapeNext == TypeInv' => DepthOK'
BY TxShapeNow, PTL

LEMMA FunctionIsSequence ==
    ASSUME NEW S, NEW n \in Nat, NEW f \in [1 .. n -> S]
    PROVE  f \in Seq(S) /\ Len(f) = n
<1>1. f \in Seq(S)
  BY SeqDef
<1>2. Len(f) \in Nat /\ 1 .. Len(f) = 1 .. n
  BY <1>1, LenProperties
<1> QED
  BY <1>1, <1>2

Frame == 0 .. MaxFrames

WaitingOK ==
    /\ Waiting \in Seq(Frame) /\ Len(Waiting) = Depth
    /\ \A i \in 1 .. Depth : Waiting[i] = tx_queue[Position(i)]

LEMMA WaitingTyped == TypeInv => WaitingOK
<1> SUFFICES ASSUME TypeInv PROVE WaitingOK
  OBVIOUS
<1>1. tx_queue \in [TxSlot -> Frame]
  BY DEF TypeInv, TypeOK, Frame
<1>2. Depth \in Nat
  BY TxShape
<1>3. Waiting = [i \in 1 .. Depth |-> tx_queue[Position(i)]]
  BY DEF Waiting, Depth, Position
<1>4. Waiting \in [1 .. Depth -> Frame]
  BY <1>1, <1>3, TxShape
<1> QED
  BY <1>2, <1>3, <1>4, FunctionIsSequence DEF WaitingOK

LEMMA WaitingTypedNext == TypeInv' => WaitingOK'
BY WaitingTyped, PTL

LEMMA TxStutter ==
    ASSUME UNCHANGED <<tx_queue, tx_head, tx_tail, loaded, sim_tx_busy>>
    PROVE  UNCHANGED TxFifo!fifoVars
BY DEF TxFifo!fifoVars, Waiting

LEMMA AcceptIsPut ==
    ASSUME TypeInv, TypeInv', offered < MaxFrames,
           NextTx(tx_head) # tx_tail,
           tx_queue' = [tx_queue EXCEPT ![tx_head] = offered + 1],
           tx_head' = NextTx(tx_head), UNCHANGED <<tx_tail, loaded, sim_tx_busy>>
    PROVE  TxFifo!Next
<1> DEFINE v == offered + 1
<1>1. v \in 1 .. MaxFrames /\ v \in Frame
  BY BoundAssumption DEF TypeInv, TypeOK, Frame
<1>2. tx_queue' = [tx_queue EXCEPT ![tx_head] = v] /\ tx_queue \in [TxSlot -> Frame]
  BY DEF TypeInv, TypeOK, Frame
<1> HIDE DEF v
<1>3. NextTx(tx_head) = IF tx_head + 1 = TxSize THEN 0 ELSE tx_head + 1
  BY TxShape, ModNext DEF NextTx
<1>4. Depth' = Depth + 1 /\ Depth \in Nat /\ Depth < TxSize - 1
  <2>1. /\ Depth' = IF tx_head' >= tx_tail THEN tx_head' - tx_tail
                    ELSE tx_head' + TxSize - tx_tail
        /\ tx_head' = IF tx_head + 1 = TxSize THEN 0 ELSE tx_head + 1
        /\ tx_head' # tx_tail
    BY <1>3, TxShapeNext DEF DepthOK
  <2>2. /\ TxSize \in Nat /\ tx_head \in 0 .. TxSize - 1 /\ tx_tail \in 0 .. TxSize - 1
        /\ Depth = IF tx_head >= tx_tail THEN tx_head - tx_tail
                   ELSE tx_head + TxSize - tx_tail
    BY TxShape
  <2> QED
    BY <2>1, <2>2
<1>5. WaitingOK /\ WaitingOK'
  BY WaitingTyped, WaitingTypedNext
<1>6. Append(Waiting, v) \in Seq(Frame) /\ Len(Append(Waiting, v)) = Depth + 1
  BY <1>1, <1>5, AppendProperties DEF WaitingOK
<1>7. ASSUME NEW i \in 1 .. Depth + 1
      PROVE  Waiting'[i] = Append(Waiting, v)[i]
  <2>1. Position(i)' = Position(i)
    BY DEF Position
  <2>2. Waiting'[i] = tx_queue'[Position(i)]
    BY <1>4, <1>5, <2>1 DEF WaitingOK
  <2>3. CASE i \in 1 .. Depth
    <3>1. Position(i) \in TxSlot /\ Position(i) # tx_head
      BY <2>3, TxShape
    <3>2. Append(Waiting, v)[i] = Waiting[i] /\ Waiting[i] = tx_queue[Position(i)]
      BY <1>1, <1>5, <2>3, AppendProperties DEF WaitingOK
    <3> QED
      BY <1>2, <2>2, <3>1, <3>2
  <2>4. CASE i = Depth + 1
    <3>1. Position(i) = tx_head /\ tx_head \in TxSlot
      BY <2>4, TxShape
    <3>2. Append(Waiting, v)[i] = v
      BY <1>1, <1>5, <2>4, AppendProperties DEF WaitingOK
    <3> QED
      BY <1>2, <2>2, <3>1, <3>2
  <2>5. i \in 1 .. Depth \/ i = Depth + 1
    BY <1>4
  <2> QED
    BY <2>3, <2>4, <2>5
<1>8. Waiting' = Append(Waiting, v)
  BY <1>4, <1>5, <1>6, <1>7, SeqEqual DEF WaitingOK
<1>9. TxFifo!Put(v)
  BY <1>4, <1>5, <1>8 DEF TxFifo!Put, WaitingOK
<1> QED
  BY <1>1, <1>9 DEF TxFifo!Next

LEMMA BusyIsRefuse ==
    ASSUME TypeInv, NextTx(tx_head) = tx_tail, sim_tx_busy' = sim_tx_busy + 1,
           UNCHANGED <<tx_queue, tx_head, tx_tail, loaded>>
    PROVE  TxFifo!Next
<1>1. NextTx(tx_head) = IF tx_head + 1 = TxSize THEN 0 ELSE tx_head + 1
  BY TxShape, ModNext DEF NextTx
<1>2. Len(Waiting) = TxSize - 1
  BY <1>1, TxShape, WaitingTyped DEF WaitingOK
<1>3. Waiting' = Waiting
  BY DEF Waiting
<1>4. TxFifo!Refuse
  BY <1>2, <1>3 DEF TxFifo!Refuse
<1> QED
  BY <1>4 DEF TxFifo!Next

LEMMA LoadIsGet ==
    ASSUME TypeInv, TypeInv', tx_head # tx_tail, tx_tail' = NextTx(tx_tail),
           loaded' = tx_queue[tx_tail], UNCHANGED <<tx_queue, tx_head, sim_tx_busy>>
    PROVE  TxFifo!Next
<1>1. NextTx(tx_tail) = IF tx_tail + 1 = TxSize THEN 0 ELSE tx_tail + 1
  BY TxShape, ModNext DEF NextTx
<1>2. Depth' = Depth - 1 /\ Depth \in Nat \ {0} /\ Depth <= TxSize - 1
  <2>1. /\ Depth' = IF tx_head >= tx_tail' THEN tx_head - tx_tail'
                    ELSE tx_head + TxSize - tx_tail'
        /\ tx_tail' = IF tx_tail + 1 = TxSize THEN 0 ELSE tx_tail + 1
    BY <1>1, TxShapeNext DEF DepthOK
  <2>2. /\ TxSize \in Nat /\ tx_head \in 0 .. TxSize - 1 /\ tx_tail \in 0 .. TxSize - 1
        /\ Depth = IF tx_head >= tx_tail THEN tx_head - tx_tail
                   ELSE tx_head + TxSize - tx_tail
        /\ Depth <= TxSize - 1
    BY TxShape
  <2> QED
    BY <2>1, <2>2
<1>3. WaitingOK /\ WaitingOK'
  BY WaitingTyped, WaitingTypedNext
<1>4. Waiting # <<>> /\ 1 \in 1 .. Depth
  BY <1>2, <1>3, EmptySeq DEF WaitingOK
<1>5. Position(1) = tx_tail
  <2>1. tx_tail + 1 - 1 < TxSize /\ 1 \in 1 .. TxSize
    BY TxShape
  <2> QED
    BY <2>1, TxShape
<1>6. Head(Waiting) = tx_queue[tx_tail]
  BY <1>3, <1>4, <1>5, HeadTailProperties DEF WaitingOK
<1>7. /\ Tail(Waiting) \in Seq(Frame) /\ Len(Tail(Waiting)) = Depth - 1
      /\ \A i \in 1 .. Depth - 1 : Tail(Waiting)[i] = Waiting[i + 1]
  BY <1>3, <1>4, HeadTailProperties DEF WaitingOK
<1>8. ASSUME NEW i \in 1 .. Depth - 1
      PROVE  Waiting'[i] = Tail(Waiting)[i]
  <2>1. Position(i)' = Position(i + 1)
    <3>1. Position(i)' = (tx_tail' + i - 1) % TxSize
      BY DEF Position
    <3>2. tx_tail' \in 0 .. TxSize - 1 /\ i \in 1 .. TxSize /\ i + 1 \in 1 .. TxSize
      <4>1. TxSize \in Nat /\ tx_tail \in 0 .. TxSize - 1
        BY TxShape
      <4> QED
        BY <1>1, <1>2, <4>1
    <3>3. (tx_tail' + i - 1) % TxSize =
             IF tx_tail' + i - 1 < TxSize THEN tx_tail' + i - 1 ELSE tx_tail' + i - 1 - TxSize
      BY <3>2, ModPosition, TxShape
    <3>4. Position(i + 1) = IF tx_tail + i < TxSize THEN tx_tail + i ELSE tx_tail + i - TxSize
      <4>1. TxSize \in Nat \ {0} /\ tx_tail \in 0 .. TxSize - 1
        BY TxShape
      <4>2. tx_tail + (i + 1) - 1 = tx_tail + i
        BY <3>2, <4>1
      <4>3. Position(i + 1) = (tx_tail + (i + 1) - 1) % TxSize
        BY DEF Position
      <4>4. (tx_tail + (i + 1) - 1) % TxSize =
               IF tx_tail + (i + 1) - 1 < TxSize THEN tx_tail + (i + 1) - 1
               ELSE tx_tail + (i + 1) - 1 - TxSize
        BY <3>2, <4>1, ModPosition
      <4> QED
        BY <4>2, <4>3, <4>4
    <3>5. /\ TxSize \in Nat /\ tx_tail \in 0 .. TxSize - 1 /\ i \in 1 .. TxSize - 1
          /\ tx_tail' = IF tx_tail + 1 = TxSize THEN 0 ELSE tx_tail + 1
      BY <1>1, <1>2, TxShape
    <3> QED
      BY <3>1, <3>3, <3>4, <3>5
  <2>2. Waiting'[i] = tx_queue'[Position(i)']
    BY <1>2, <1>3 DEF WaitingOK
  <2>3. i + 1 \in 1 .. Depth
    BY <1>2
  <2> QED
    BY <1>3, <1>7, <2>1, <2>2, <2>3 DEF WaitingOK
<1>9. Waiting' = Tail(Waiting)
  BY <1>2, <1>3, <1>7, <1>8, SeqEqual DEF WaitingOK
<1>10. TxFifo!Get
  BY <1>4, <1>6, <1>9 DEF TxFifo!Get
<1> QED
  BY <1>10 DEF TxFifo!Next

(* The transmit queue is a bounded FIFO with refusal, for every size:      *)
(* nothing accepted is lost, repeated or overtaken on its way to the       *)
(* mailbox, and every refusal is counted.                                  *)
THEOREM TxQueueIsFifo == Spec => ImplementsTxFifo
<1>1. TypeInv /\ Init => TxFifo!Init
  <2> SUFFICES ASSUME TypeInv, Init PROVE TxFifo!Init
    OBVIOUS
  <2>1. Depth = 0
    BY TxShape DEF Init
  <2>2. Waiting = <<>>
    BY <2>1, WaitingTyped, EmptySeq DEF WaitingOK
  <2> QED
    BY <2>2 DEF Init, TxFifo!Init
<1>2. TypeInv /\ TypeInv' /\ [Next]_vars => [TxFifo!Next]_(TxFifo!fifoVars)
  <2> SUFFICES ASSUME TypeInv, TypeInv', [Next]_vars
               PROVE  TxFifo!Next \/ UNCHANGED TxFifo!fifoVars
    OBVIOUS
  <2>1. CASE PollInLoop \/ PollAfterSend
    <3>1. tx_poll /\ UNCHANGED <<tx_queue, tx_head, sim_tx_busy>>
      BY <2>1 DEF PollInLoop, PollAfterSend, queueVars
    <3>2. \/ UNCHANGED <<tx_tail, loaded>>
          \/ tx_head # tx_tail /\ tx_tail' = NextTx(tx_tail) /\ loaded' = tx_queue[tx_tail]
      BY <3>1 DEF tx_poll
    <3> QED
      BY <3>1, <3>2, TxStutter, LoadIsGet
  <2>2. CASE send_frame
    <3>1. offered < MaxFrames /\ UNCHANGED <<tx_tail, loaded>>
      BY <2>2 DEF send_frame, boxVars
    <3>2. \/ /\ NextTx(tx_head) = tx_tail /\ sim_tx_busy' = sim_tx_busy + 1
             /\ UNCHANGED <<tx_queue, tx_head>>
          \/ /\ NextTx(tx_head) # tx_tail
             /\ tx_queue' = [tx_queue EXCEPT ![tx_head] = offered + 1]
             /\ tx_head' = NextTx(tx_head) /\ UNCHANGED sim_tx_busy
      BY <2>2 DEF send_frame
    <3> QED
      BY <3>1, <3>2, BusyIsRefuse, AcceptIsPut
  <2>3. CASE main /\ ~(PollInLoop \/ PollAfterSend \/ send_frame)
    <3>1. UNCHANGED <<tx_queue, tx_head, tx_tail, loaded, sim_tx_busy>>
      BY <2>3 DEF main, application_step, StepDone, Control, NothingReceived, Mask, IdleTest,
                  Wake, Unmask, Received, Release, boxVars, queueVars
    <3> QED
      BY <3>1, TxStutter
  <2>4. CASE FrameArrives \/ TimerExpires \/ MailboxFinishes \/ CAN1_RX0_IRQHandler
             \/ SysTick_Handler \/ UNCHANGED vars
    <3>1. UNCHANGED <<tx_queue, tx_head, tx_tail, loaded, sim_tx_busy>>
      BY <2>4 DEF FrameArrives, TimerExpires, MailboxFinishes, CAN1_RX0_IRQHandler,
                  SysTick_Handler, Interrupt, vars, boxVars, queueVars
    <3> QED
      BY <3>1, TxStutter
  <2> QED
    BY <2>1, <2>2, <2>3, <2>4 DEF Next
<1> QED
  BY <1>1, <1>2, TypeInvariant, PTL DEF Spec, ImplementsTxFifo, TxFifo!Spec
=============================================================================
