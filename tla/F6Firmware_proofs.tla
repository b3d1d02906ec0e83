-------------------------- MODULE F6Firmware_proofs --------------------------
(***************************************************************************)
(* Theorems about F6Firmware, for every ring size, FIFO depth, number of   *)
(* frames and number of ticks, and the refinement that F6IdsOff states.    *)
(***************************************************************************)
EXTENDS F6Firmware, F6IdsOff, Integers, SequenceTheorems, TLAPS

-----------------------------------------------------------------------------
(* Arithmetic of the ring and of the control counters.                     *)

(* Advancing an index keeps it in the ring. *)
LEMMA NextSlotInRing ==
    ASSUME NEW i \in Slot
    PROVE  NextSlot(i) \in Slot
BY RingAssumption DEF Slot, NextSlot

(* The depth of the ring is at most its usable capacity. *)
LEMMA DepthBound ==
    ASSUME NEW h \in Slot, NEW t \in Slot
    PROVE  /\ queue_depth(h, t) \in 0 .. RingSize - 1
           /\ queue_depth(h, t) = 0 <=> h = t
BY RingAssumption DEF Slot, queue_depth

(* Publishing a frame in a ring that is not full deepens it by one. *)
LEMMA DepthPush ==
    ASSUME NEW h \in Slot, NEW t \in Slot, NextSlot(h) # t
    PROVE  queue_depth(NextSlot(h), t) = queue_depth(h, t) + 1
BY RingAssumption DEF Slot, queue_depth, NextSlot

(* Releasing a slot of a ring that is not empty makes it one shallower. *)
LEMMA DepthPop ==
    ASSUME NEW h \in Slot, NEW t \in Slot, h # t
    PROVE  queue_depth(h, NextSlot(t)) = queue_depth(h, t) - 1
BY RingAssumption DEF Slot, queue_depth, NextSlot

(* The ring is full exactly when its depth is RingSize - 1. *)
LEMMA DepthFull ==
    ASSUME NEW h \in Slot, NEW t \in Slot
    PROVE  NextSlot(h) = t <=> queue_depth(h, t) = RingSize - 1
BY RingAssumption DEF Slot, queue_depth, NextSlot

(* The control counters stay below their modulus. *)
LEMMA CounterRange ==
    ASSUME NEW m \in Counter, NEW n \in Counter
    PROVE  Inc(m) \in Counter /\ Diff(m, n) \in Counter
BY CounterAssumption DEF Counter, Inc, Diff

-----------------------------------------------------------------------------
(* Type correctness.  The handler reads a mailbox because its earlier copy *)
(* of FMP0 was not zero; that there still is one then needs an invariant   *)
(* of its own: only the handler takes mailboxes out of FIFO0.              *)
MailboxHeld == isr # "idle" => fmp <= Len(fifo)

TypeInv == TypeOK /\ MailboxHeld

(* Under the assumption of a typed state, what the handler takes exists.   *)
LEMMA TakeMailboxSound ==
    ASSUME TypeInv, TakeMailbox
    PROVE  /\ fifo # <<>>
           /\ fifo' \in Seq(1 .. MaxFrames)
           /\ Len(fifo') = Len(fifo) - 1
           /\ Head(fifo) \in 1 .. MaxFrames
           /\ Stamped(rx) \in [RxCounters -> Nat]
<1>1. Len(fifo) \in Nat /\ fmp \in Nat /\ fmp # 0 /\ fmp <= Len(fifo)
  BY FifoAssumption, LenProperties DEF TypeInv, TypeOK, MailboxHeld, TakeMailbox
<1>2. fifo # <<>>
  BY <1>1, EmptySeq
<1>3. Stamped(rx) \in [RxCounters -> Nat]
  <2> DEFINE first == IF rx["hwRx"] = 0 THEN ctl["tick"] ELSE rx["firstTick"]
  <2>1. rx \in [RxCounters -> Nat] /\ ctl["tick"] \in Nat /\ first \in Nat
    BY CounterAssumption DEF TypeInv, TypeOK, RxCounters, CtlCounters, Counter
  <2>2. Stamped(rx) = [rx EXCEPT !["hwRx"] = @ + 1, !["firstTick"] = first,
                                 !["lastTick"] = ctl["tick"]]
    BY <2>1 DEF Stamped, RxCounters
  <2> HIDE DEF first
  <2> QED
    BY <2>1, <2>2 DEF RxCounters
<1> QED
  BY <1>2, <1>3, HeadTailProperties DEF TypeInv, TypeOK, TakeMailbox

(* Taking a mailbox keeps the types of all it touches itself. *)
LEMMA MailboxTaken ==
    ASSUME TypeInv, TakeMailbox, slots' \in [Slot -> [Field -> FrameNo]],
           head' \in Slot, rx' \in [RxCounters -> Nat]
    PROVE  TypeInv'
<1>1. Len(fifo) \in Nat /\ Len(fifo) <= FifoDepth
  BY LenProperties DEF TypeInv, TypeOK
<1>2. fifo' \in Seq(1 .. MaxFrames) /\ Len(fifo') <= FifoDepth
  BY <1>1, TakeMailboxSound, FifoAssumption
<1>3. /\ isr' = "idle" /\ latched' \in BOOLEAN
      /\ UNCHANGED <<sent, fovr, lost, fmp, pc, frame, copied, last, ids, ctl, ticks, tail>>
  BY DEF TakeMailbox, mainVars, ctlVars
<1> QED
  BY <1>2, <1>3 DEF TypeInv, TypeOK, MailboxHeld

(* A frame number fills a slot. *)
LEMMA WholeTyped ==
    ASSUME NEW n \in 1 .. MaxFrames
    PROVE  Whole(n) \in [Field -> FrameNo]
BY BoundsAssumption DEF Whole, FrameNo

(* The foreground keeps the types of its own variables and leaves the rest. *)
LEMMA ForegroundTyped ==
    ASSUME TypeInv, Foreground
    PROVE  TypeInv'
<1> USE DEF TypeInv
<1> SUFFICES /\ tail' \in Slot
             /\ pc' \in {"boot", "loop", "work", "queue", "copy", "decode",
                        "predict", "finish"}
             /\ frame' \in [Field -> FrameNo]
             /\ copied' \in 0 .. 4
             /\ last' \in [Field -> FrameNo]
             /\ ids' \in [IdsCounters -> Nat]
             /\ ctl' \in [CtlCounters -> Counter]
  BY DEF TypeOK, MailboxHeld, Foreground, hwVars, isrVars
<1>1. CASE SystickInit
  BY <1>1 DEF SystickInit, TypeOK
<1>2. CASE ControlDue
  BY <1>2 DEF ControlDue, TypeOK
<1>3. CASE run_control_workload
  BY CounterRange, <1>3 DEF run_control_workload, TypeOK, CtlCounters
<1>4. CASE ControlIdle
  BY <1>4 DEF ControlIdle, TypeOK
<1>5. CASE QueueEmpty
  BY <1>5 DEF QueueEmpty, TypeOK
<1>6. CASE QueueReady
  BY <1>6 DEF QueueReady, TypeOK
<1>7. CASE CopyField
  BY <1>7 DEF CopyField, TypeOK, Field
<1>8. CASE ReleaseSlot
  BY NextSlotInRing, <1>8 DEF ReleaseSlot, TypeOK
<1>9. CASE DecodeStandard
  BY <1>9 DEF DecodeStandard, TypeOK, IdsCounters
<1>10. CASE DecodeExtended
  BY <1>10 DEF DecodeExtended, TypeOK, IdsCounters
<1>11. CASE Predict
  <2>1. PICK code \in Codes : ids' = CountVerdict(ids, code)
    BY <1>11 DEF Predict
  <2> DEFINE normal == IF code = 0 THEN ids["normal"] + 1 ELSE ids["normal"]
             unknown == IF code = 5 THEN ids["unknown"] + 1 ELSE ids["unknown"]
             known == IF code \in {0, 5} THEN ids["known"] ELSE ids["known"] + 1
  <2>a. ids \in [IdsCounters -> Nat]
    BY DEF TypeOK
  <2>2. normal \in Nat /\ unknown \in Nat /\ known \in Nat
    BY <2>a DEF IdsCounters
  <2>3. ids' = [ids EXCEPT !["calls"] = @ + 1, !["normal"] = normal,
                           !["unknown"] = unknown, !["known"] = known]
    BY <2>1, <2>a DEF CountVerdict, IdsCounters
  <2> HIDE DEF normal, unknown, known
  <2>4. ids' \in [IdsCounters -> Nat]
    BY <2>a, <2>2, <2>3 DEF IdsCounters
  <2> QED
    BY <1>11, <2>4 DEF Predict, TypeOK
<1>12. CASE Finish
  BY <1>12 DEF Finish, TypeOK, IdsCounters
<1> QED
  BY <1>1, <1>2, <1>3, <1>4, <1>5, <1>6, <1>7, <1>8, <1>9, <1>10, <1>11, <1>12 DEF Foreground

(* The handler keeps the types and goes on holding its mailbox. *)
LEMMA IsrTyped ==
    ASSUME TypeInv, Isr
    PROVE  TypeInv'
<1> USE DEF TypeInv, hwVars, ringVars, mainVars, ctlVars
<1>0. Len(fifo) \in Nat
  BY LenProperties DEF TypeOK
<1>1. CASE IsrEnter
  <2>1. rx' \in [RxCounters -> Nat]
    BY <1>1 DEF IsrEnter, TypeOK, RxCounters
  <2>2. fmp' \in 0 .. FifoDepth /\ fmp' <= Len(fifo')
    BY <1>0, <1>1, FifoAssumption DEF IsrEnter, TypeOK
  <2>3. isr' \in {"idle", "clear", "receive"} /\ latched' \in BOOLEAN
    BY <1>1 DEF IsrEnter
  <2> QED
    BY <1>1, <2>1, <2>2, <2>3 DEF IsrEnter, TypeOK, MailboxHeld
<1>2. CASE IsrClearOverrun
  <2>1. rx' \in [RxCounters -> Nat]
    BY <1>2 DEF IsrClearOverrun, TypeOK, RxCounters
  <2> QED
    BY <1>2, <2>1 DEF IsrClearOverrun, TypeOK, MailboxHeld
<1>3. CASE IsrNoMailbox
  BY <1>3 DEF IsrNoMailbox, TypeOK, MailboxHeld
<1>4. CASE IsrEnqueue
  <2>1. /\ slots' \in [Slot -> [Field -> FrameNo]]
        /\ head' \in Slot
    BY <1>4, TakeMailboxSound, WholeTyped, NextSlotInRing DEF IsrEnqueue, TypeOK
  <2>2. AtLeast(queue_depth(NextSlot(head), tail), rx["maxDepth"]) \in Nat
    BY DepthBound, NextSlotInRing, RingAssumption DEF TypeOK, RxCounters, AtLeast
  <2>3. rx' \in [RxCounters -> Nat]
    <3> DEFINE deepest == AtLeast(queue_depth(NextSlot(head), tail), Stamped(rx)["maxDepth"])
    <3>1. Stamped(rx) \in [RxCounters -> Nat] /\ Stamped(rx)["maxDepth"] = rx["maxDepth"]
      BY <1>4, TakeMailboxSound DEF IsrEnqueue, TypeOK, Stamped, RxCounters
    <3>2. deepest \in Nat /\ rx' = [Stamped(rx) EXCEPT !["push"] = @ + 1, !["maxDepth"] = deepest]
      BY <1>4, <2>2, <3>1 DEF IsrEnqueue, RxCounters
    <3> HIDE DEF deepest
    <3> QED
      BY <3>1, <3>2 DEF RxCounters
  <2>4. TakeMailbox
    BY <1>4 DEF IsrEnqueue
  <2> QED
    BY <2>1, <2>3, <2>4, MailboxTaken
<1>5. CASE IsrOverflow
  <2>1. rx' \in [RxCounters -> Nat]
    <3>1. Stamped(rx) \in [RxCounters -> Nat]
      BY <1>5, TakeMailboxSound DEF IsrOverflow
    <3>2. rx' = [Stamped(rx) EXCEPT !["overflow"] = @ + 1]
      BY <1>5 DEF IsrOverflow
    <3> QED
      BY <3>1, <3>2 DEF RxCounters
  <2>2. TakeMailbox /\ slots' = slots /\ head' = head
    BY <1>5 DEF IsrOverflow
  <2>3. slots' \in [Slot -> [Field -> FrameNo]] /\ head' \in Slot
    BY <2>2 DEF TypeOK
  <2> QED
    BY <2>1, <2>2, <2>3, MailboxTaken
<1> QED
  BY <1>1, <1>2, <1>3, <1>4, <1>5 DEF Isr

(* The controller only adds to FIFO0, up to its mailboxes. *)
LEMMA ControllerTyped ==
    ASSUME TypeInv, MailboxStore \/ MailboxOverrun
    PROVE  TypeInv'
<1> USE DEF TypeInv, isrVars, ringVars, mainVars, ctlVars
<1>0. Len(fifo) \in Nat /\ sent + 1 \in Nat
  BY LenProperties, BoundsAssumption DEF TypeOK
<1>1. CASE MailboxStore
  <2>1. /\ fifo' \in Seq(1 .. MaxFrames)
        /\ Len(fifo') = Len(fifo) + 1
    BY <1>1, BoundsAssumption DEF MailboxStore, TypeOK
  <2> QED
    BY <1>0, <1>1, <2>1, FifoAssumption, BoundsAssumption DEF MailboxStore, TypeOK, MailboxHeld
<1>2. CASE MailboxOverrun
  <2>1. /\ fifo' \in Seq(1 .. MaxFrames)
        /\ Len(fifo') = Len(fifo)
    <3>1. FifoDepth \in 1 .. Len(fifo) /\ sent + 1 \in 1 .. MaxFrames
      BY <1>0, <1>2, FifoAssumption, BoundsAssumption DEF MailboxOverrun, TypeOK
    <3>2. [fifo EXCEPT ![FifoDepth] = sent + 1] \in Seq(1 .. MaxFrames)
      BY <3>1, ExceptSeq DEF TypeOK
    <3>3. Len([fifo EXCEPT ![FifoDepth] = sent + 1]) = Len(fifo)
      BY <3>1, ExceptSeq DEF TypeOK
    <3> QED
      BY <1>2, <3>2, <3>3 DEF MailboxOverrun, TypeOK
  <2> QED
    BY <1>2, <2>1, BoundsAssumption DEF MailboxOverrun, TypeOK, MailboxHeld
<1> QED
  BY <1>1, <1>2

(* The tick only writes the control counters. *)
LEMMA TickTyped ==
    ASSUME TypeInv, SysTick_Handler
    PROVE  TypeInv'
<1> DEFINE backlog == Diff(Inc(ctl["release"]), ctl["complete"])
<1>1. /\ \A c \in CtlCounters : ctl[c] \in Counter /\ Inc(ctl[c]) \in Counter
      /\ backlog \in Counter
  BY CounterRange DEF TypeInv, TypeOK, CtlCounters
<1>2. AtLeast(backlog, ctl["maxBacklog"]) \in Counter
  BY <1>1 DEF AtLeast, CtlCounters
<1> HIDE DEF backlog
<1>3. ctl' = [ctl EXCEPT !["tick"] = Inc(@),
                         !["release"] = Inc(@),
                         !["miss"] = IF backlog > 1 THEN Inc(@) ELSE @,
                         !["maxBacklog"] = AtLeast(backlog, @)]
  BY DEF SysTick_Handler, backlog
<1>4. ctl' \in [CtlCounters -> Counter]
  BY <1>1, <1>2, <1>3 DEF TypeInv, TypeOK, CtlCounters
<1>5. ticks' \in 0 .. MaxTicks
  BY BoundsAssumption DEF SysTick_Handler, TypeInv, TypeOK
<1> QED
  BY <1>4, <1>5
  DEF SysTick_Handler, TypeInv, TypeOK, MailboxHeld, hwVars, isrVars, ringVars, mainVars

(* The type invariant and the mailbox invariant hold together. *)
LEMMA TypeInvariant == Spec => []TypeInv
<1>1. Init => TypeInv
  <2> SUFFICES ASSUME Init PROVE TypeInv
    OBVIOUS
  <2>1. Whole(0) \in [Field -> FrameNo] /\ 0 \in Slot /\ 0 \in Counter
    BY RingAssumption, CounterAssumption, BoundsAssumption DEF Whole, FrameNo, Slot, Counter
  <2>2. fifo \in Seq(1 .. MaxFrames) /\ Len(fifo) <= FifoDepth
    BY FifoAssumption, EmptySeq DEF Init
  <2>3. /\ slots \in [Slot -> [Field -> FrameNo]]
        /\ rx \in [RxCounters -> Nat]
        /\ ids \in [IdsCounters -> Nat]
        /\ ctl \in [CtlCounters -> Counter]
    BY <2>1 DEF Init
  <2>4. /\ sent \in 0 .. MaxFrames /\ ticks \in 0 .. MaxTicks
        /\ fmp \in 0 .. FifoDepth /\ copied \in 0 .. 4 /\ lost \in Nat
        /\ isr = "idle" /\ pc = "boot" /\ fovr = FALSE /\ latched = FALSE
        /\ head \in Slot /\ tail \in Slot
        /\ frame \in [Field -> FrameNo] /\ last \in [Field -> FrameNo]
    BY <2>1, FifoAssumption, BoundsAssumption DEF Init
  <2> QED
    BY <2>2, <2>3, <2>4 DEF TypeInv, TypeOK, MailboxHeld
<1>2. TypeInv /\ [Next]_vars => TypeInv'
  <2> SUFFICES ASSUME TypeInv, [Next]_vars
               PROVE  TypeInv'
    OBVIOUS
  <2>1. CASE UNCHANGED vars
    BY <2>1 DEF TypeInv, TypeOK, MailboxHeld, vars, hwVars, isrVars, ringVars, mainVars, ctlVars
  <2> QED
    BY <2>1, ControllerTyped, IsrTyped, TickTyped, ForegroundTyped DEF Next
<1> QED
  BY <1>1, <1>2, PTL DEF Spec

(* Every reachable state is well typed: the ring indices stay in the ring, *)
(* FIFO0 within its mailboxes and the control counters below their modulus.*)
THEOREM TypeCorrect == Spec => []TypeOK
<1>1. TypeInv => TypeOK
  BY DEF TypeInv
<1> QED
  BY <1>1, TypeInvariant, PTL

-----------------------------------------------------------------------------
(* The ring is shared without a lock: main reads the slot at tail, field   *)
(* by field, while the handler may write the slot at head.  They differ    *)
(* because main starts a copy only in a ring that is not empty, and the    *)
(* handler, which keeps one slot unused, never closes the ring.            *)
CopyingFromQueue == pc = "copy" => tail # head

RingInv == CopyingFromQueue /\ NoTornFrame

(* The handler never writes the slot being copied. *)
LEMMA IsrKeepsRing ==
    ASSUME TypeInv, RingInv, Isr
    PROVE  RingInv' /\ (pc = "copy" => slots'[tail] = slots[tail])
<1> USE DEF RingInv, CopyingFromQueue, NoTornFrame
<1>1. CASE IsrEnter \/ IsrClearOverrun \/ IsrNoMailbox \/ IsrOverflow
  BY <1>1 DEF IsrEnter, IsrClearOverrun, IsrNoMailbox, IsrOverflow, TakeMailbox,
              ringVars, mainVars
<1>2. CASE IsrEnqueue
  <2>1. /\ pc' = pc /\ tail' = tail /\ frame' = frame /\ copied' = copied
        /\ head' = NextSlot(head) /\ NextSlot(head) # tail
    BY <1>2 DEF IsrEnqueue, TakeMailbox, mainVars
  <2>2. pc = "copy" => slots'[tail] = slots[tail]
    BY <1>2 DEF IsrEnqueue, TypeInv, TypeOK
  <2> QED
    BY <2>1, <2>2
<1> QED
  BY <1>1, <1>2 DEF Isr

(* Main copies from a slot it owns and gives it back only when it is done. *)
LEMMA ForegroundKeepsRing ==
    ASSUME TypeInv, RingInv, Foreground
    PROVE  RingInv' /\ slots' = slots
<1> USE DEF RingInv, CopyingFromQueue, NoTornFrame
<1>0. head' = head /\ slots' = slots
  BY DEF Foreground
<1>1. CASE CopyField
  <2>1. /\ pc' = pc /\ tail' = tail /\ copied' = copied + 1 /\ copied \in 0 .. 3
        /\ frame' = [frame EXCEPT ![copied + 1] = slots[tail][copied + 1]]
        /\ frame \in [Field -> FrameNo]
    BY <1>1 DEF CopyField, TypeInv, TypeOK
  <2>2. ASSUME NEW f \in 1 .. copied', pc = "copy"
        PROVE  frame'[f] = slots[tail][f]
    BY <2>1, <2>2 DEF Field
  <2> QED
    BY <1>0, <2>1, <2>2
<1>2. CASE QueueReady
  BY <1>0, <1>2 DEF QueueReady
<1>3. CASE ~(CopyField \/ QueueReady)
  <2>1. pc' # "copy"
    BY <1>3 DEF Foreground, SystickInit, ControlDue, run_control_workload, ControlIdle,
       QueueEmpty, ReleaseSlot, DecodeStandard, DecodeExtended, Predict, Finish
  <2> QED
    BY <1>0, <2>1
<1> QED
  BY <1>1, <1>2, <1>3

(* The slot a copy is made of is stable and the copy is never mixed. *)
LEMMA RingInvariant == Spec => [](TypeInv /\ RingInv)
<1>1. Init => RingInv
  BY DEF Init, RingInv, CopyingFromQueue, NoTornFrame
<1>2. TypeInv /\ RingInv /\ [Next]_vars => RingInv'
  <2> SUFFICES ASSUME TypeInv, RingInv, [Next]_vars
               PROVE  RingInv'
    OBVIOUS
  <2>1. CASE UNCHANGED <<pc, head, tail, slots, frame, copied>>
    BY <2>1 DEF RingInv, CopyingFromQueue, NoTornFrame
  <2>2. MailboxStore \/ MailboxOverrun \/ SysTick_Handler \/ UNCHANGED vars
          => UNCHANGED <<pc, head, tail, slots, frame, copied>>
    BY DEF MailboxStore, MailboxOverrun, SysTick_Handler, vars, ringVars, mainVars
  <2> QED
    BY <2>1, <2>2, IsrKeepsRing, ForegroundKeepsRing DEF Next
<1> QED
  BY <1>1, <1>2, TypeInvariant, PTL DEF Spec

(* Whatever the interleaving, the fields main has copied are those of the  *)
(* one frame in the slot it reads.                                         *)
THEOREM CopyIsWhole == Spec => []NoTornFrame
<1>1. RingInv => NoTornFrame
  BY DEF RingInv
<1> QED
  BY <1>1, RingInvariant, PTL

(* No step of the handler changes the slot main is copying.                *)
THEOREM SlotIsStable == Spec => SlotStableDuringCopy
<1>1. TypeInv /\ RingInv /\ [Next]_vars
        => [pc = "copy" => slots'[tail] = slots[tail]]_vars
  <2> SUFFICES ASSUME TypeInv, RingInv, Next
               PROVE  pc = "copy" => slots'[tail] = slots[tail]
    OBVIOUS
  <2>1. MailboxStore \/ MailboxOverrun \/ SysTick_Handler => slots' = slots
    BY DEF MailboxStore, MailboxOverrun, SysTick_Handler, ringVars
  <2> QED
    BY <2>1, IsrKeepsRing, ForegroundKeepsRing DEF Next
<1> QED
  BY <1>1, RingInvariant, PTL DEF Spec, SlotStableDuringCopy
-----------------------------------------------------------------------------
(* Accounting.                                                             *)

(* FIFO0 and its counters: every frame sent is read, held or lost.         *)
LEMMA ControllerCounts ==
    ASSUME TypeInv, EveryFrameAccounted, MailboxStore \/ MailboxOverrun
    PROVE  EveryFrameAccounted'
<1> USE DEF TypeInv, EveryFrameAccounted, ringVars, mainVars
<1>0. /\ Len(fifo) \in Nat /\ lost \in Nat /\ rx["hwRx"] \in Nat
      /\ sent = rx["hwRx"] + Len(fifo) + lost
  BY LenProperties DEF TypeOK, RxCounters
<1>00. /\ UNCHANGED <<rx, ids, head, tail, pc>>
       /\ sent' = sent + 1
  BY DEF MailboxStore, MailboxOverrun
<1>1. CASE MailboxStore
  <2>1. Len(fifo') = Len(fifo) + 1
    BY <1>1, BoundsAssumption DEF MailboxStore, TypeOK
  <2>2. sent' = rx'["hwRx"] + Len(fifo') + lost'
    BY <1>0, <1>00, <1>1, <2>1 DEF MailboxStore
  <2> QED
    BY <1>00, <2>2 DEF depth, InFlight
<1>2. CASE MailboxOverrun
  <2>1. Len(fifo') = Len(fifo)
    BY <1>2 DEF MailboxOverrun
  <2>2. sent' = rx'["hwRx"] + Len(fifo') + lost'
    BY <1>0, <1>00, <1>2, <2>1 DEF MailboxOverrun
  <2> QED
    BY <1>00, <2>2 DEF depth, InFlight
<1> QED
  BY <1>1, <1>2

(* What the handler writes in its counters when it takes a mailbox.        *)
LEMMA EnqueueCounts ==
    ASSUME TypeInv, IsrEnqueue
    PROVE  /\ rx'["hwRx"] = rx["hwRx"] + 1
           /\ rx'["push"] = rx["push"] + 1
           /\ rx'["overflow"] = rx["overflow"]
           /\ rx'["overrun"] = rx["overrun"]
           /\ rx'["maxDepth"] = AtLeast(queue_depth(NextSlot(head), tail), rx["maxDepth"])
BY DEF TypeInv, TypeOK, IsrEnqueue, Stamped, RxCounters

LEMMA OverflowCounts ==
    ASSUME TypeInv, IsrOverflow
    PROVE  /\ rx'["hwRx"] = rx["hwRx"] + 1
           /\ rx'["push"] = rx["push"]
           /\ rx'["overflow"] = rx["overflow"] + 1
           /\ rx'["overrun"] = rx["overrun"]
           /\ rx'["maxDepth"] = rx["maxDepth"]
BY DEF TypeInv, TypeOK, IsrOverflow, Stamped, RxCounters

(* The handler accounts for the mailbox it takes, in the ring or as an overflow. *)
LEMMA IsrCounts ==
    ASSUME TypeInv, EveryFrameAccounted, Isr
    PROVE  EveryFrameAccounted'
<1> USE DEF TypeInv
<1>0. /\ Len(fifo) \in Nat /\ lost \in Nat
      /\ rx["hwRx"] \in Nat /\ rx["push"] \in Nat /\ rx["overflow"] \in Nat
  BY LenProperties DEF TypeOK, RxCounters
<1>a. sent = rx["hwRx"] + Len(fifo) + lost
  BY DEF EveryFrameAccounted
<1>b. rx["hwRx"] = rx["push"] + rx["overflow"]
  BY DEF EveryFrameAccounted
<1>c. rx["push"] = ids["processed"] + InFlight + depth
  BY DEF EveryFrameAccounted
<1>00. depth \in Nat /\ ids["processed"] \in Nat /\ InFlight \in Nat
  BY DepthBound, RingAssumption DEF TypeOK, IdsCounters, InFlight, depth
<1>1. CASE IsrEnter \/ IsrClearOverrun \/ IsrNoMailbox
  <2>1. /\ rx'["hwRx"] = rx["hwRx"] /\ rx'["push"] = rx["push"]
        /\ rx'["overflow"] = rx["overflow"]
    BY <1>1 DEF TypeOK, IsrEnter, IsrClearOverrun, IsrNoMailbox, RxCounters
  <2>2. UNCHANGED <<sent, fifo, lost, ids, head, tail, pc>>
    BY <1>1 DEF IsrEnter, IsrClearOverrun, IsrNoMailbox, hwVars, ringVars, mainVars
  <2> QED
    BY <2>1, <2>2 DEF EveryFrameAccounted, depth, InFlight
<1>2. CASE IsrEnqueue
  <2>1. Len(fifo') = Len(fifo) - 1 /\ sent' = sent /\ lost' = lost
        /\ ids' = ids /\ InFlight' = InFlight
    BY <1>2, TakeMailboxSound DEF IsrEnqueue, TakeMailbox, InFlight, mainVars
  <2>2. depth' = depth + 1
    BY <1>2, DepthPush DEF IsrEnqueue, TakeMailbox, TypeOK, depth
  <2>3. /\ rx'["hwRx"] = rx["hwRx"] + 1 /\ rx'["push"] = rx["push"] + 1
        /\ rx'["overflow"] = rx["overflow"]
    BY <1>2, EnqueueCounts
  <2>4. sent' = rx'["hwRx"] + Len(fifo') + lost'
    BY <1>0, <1>a, <2>1, <2>3
  <2>5. rx'["hwRx"] = rx'["push"] + rx'["overflow"]
    BY <1>0, <1>b, <2>3
  <2>6. rx'["push"] = ids'["processed"] + InFlight' + depth'
    BY <1>00, <1>c, <2>1, <2>2, <2>3
  <2> QED
    BY <2>4, <2>5, <2>6 DEF EveryFrameAccounted
<1>3. CASE IsrOverflow
  <2>1. Len(fifo') = Len(fifo) - 1 /\ sent' = sent /\ lost' = lost
        /\ ids' = ids /\ InFlight' = InFlight /\ depth' = depth
    BY <1>3, TakeMailboxSound DEF IsrOverflow, TakeMailbox, InFlight, depth, mainVars
  <2>2. /\ rx'["hwRx"] = rx["hwRx"] + 1 /\ rx'["push"] = rx["push"]
        /\ rx'["overflow"] = rx["overflow"] + 1
    BY <1>3, OverflowCounts
  <2>4. sent' = rx'["hwRx"] + Len(fifo') + lost'
    BY <1>0, <1>a, <2>1, <2>2
  <2>5. rx'["hwRx"] = rx'["push"] + rx'["overflow"]
    BY <1>0, <1>b, <2>2
  <2>6. rx'["push"] = ids'["processed"] + InFlight' + depth'
    BY <1>00, <1>c, <2>1, <2>2
  <2> QED
    BY <2>4, <2>5, <2>6 DEF EveryFrameAccounted
<1> QED
  BY <1>1, <1>2, <1>3 DEF Isr

(* Main moves a frame from the ring into its hands and then into the       *)
(* processed ones.                                                         *)
LEMMA ForegroundCounts ==
    ASSUME TypeInv, RingInv, EveryFrameAccounted, Foreground
    PROVE  EveryFrameAccounted'
<1> USE DEF TypeInv, EveryFrameAccounted, hwVars, depth
<1>0. /\ depth \in Nat /\ ids["processed"] \in Nat /\ InFlight \in {0, 1}
  BY DepthBound, RingAssumption DEF TypeOK, IdsCounters, InFlight
<1>1. /\ UNCHANGED <<sent, fifo, lost, rx, head>>
  BY DEF Foreground
<1> SUFFICES ids'["processed"] + InFlight' + depth' = ids["processed"] + InFlight + depth
  BY <1>1
<1>2. CASE ReleaseSlot
  <2>1. depth' = depth - 1
    BY <1>1, <1>2, DepthPop DEF ReleaseSlot, TypeOK, RingInv, CopyingFromQueue
  <2>2. ids' = ids /\ InFlight = 0 /\ InFlight' = 1
    BY <1>2 DEF ReleaseSlot, InFlight
  <2> QED
    BY <1>0, <2>1, <2>2
<1>3. CASE Finish
  <2>1. ids'["processed"] = ids["processed"] + 1 /\ InFlight = 1 /\ InFlight' = 0
    BY <1>3 DEF Finish, InFlight, TypeOK, IdsCounters
  <2>2. depth' = depth
    BY <1>1, <1>3 DEF Finish
  <2> QED
    BY <1>0, <2>1, <2>2
<1>4. CASE DecodeStandard \/ DecodeExtended \/ Predict
  <2>1. ids'["processed"] = ids["processed"]
    BY <1>4 DEF DecodeStandard, DecodeExtended, Predict, CountVerdict, TypeOK, IdsCounters
  <2>2. InFlight' = InFlight /\ depth' = depth
    BY <1>1, <1>4 DEF DecodeStandard, DecodeExtended, Predict, InFlight
  <2> QED
    BY <2>1, <2>2
<1>5. CASE \/ SystickInit \/ ControlDue \/ run_control_workload \/ ControlIdle
           \/ QueueEmpty \/ QueueReady \/ CopyField
  <2>1. ids' = ids /\ tail' = tail
    BY <1>5 DEF SystickInit, ControlDue, run_control_workload, ControlIdle, QueueEmpty,
                QueueReady, CopyField
  <2>2. InFlight' = InFlight
    BY <1>5 DEF SystickInit, ControlDue, run_control_workload, ControlIdle, QueueEmpty,
                QueueReady, CopyField, InFlight
  <2> QED
    BY <1>1, <2>1, <2>2
<1> QED
  BY <1>2, <1>3, <1>4, <1>5 DEF Foreground

(* No frame disappears without a trace, for any number of frames, sizes of *)
(* FIFO0 and ring, and any interleaving of controller, handler and main.   *)
THEOREM NothingDisappears == Spec => []EveryFrameAccounted
<1>1. TypeInv /\ Init => EveryFrameAccounted
  <2> SUFFICES ASSUME Init PROVE EveryFrameAccounted
    OBVIOUS
  <2>1. depth = 0 /\ InFlight = 0 /\ Len(fifo) = 0
    BY EmptySeq DEF Init, depth, queue_depth, InFlight
  <2> QED
    BY <2>1 DEF Init, EveryFrameAccounted, RxCounters, IdsCounters
<1>2. TypeInv /\ RingInv /\ EveryFrameAccounted /\ [Next]_vars => EveryFrameAccounted'
  <2> SUFFICES ASSUME TypeInv, RingInv, EveryFrameAccounted, [Next]_vars
               PROVE  EveryFrameAccounted'
    OBVIOUS
  <2>1. CASE UNCHANGED <<sent, fifo, lost, rx, head, tail, ids, pc>>
    BY <2>1 DEF EveryFrameAccounted, depth, InFlight
  <2>2. SysTick_Handler \/ UNCHANGED vars
          => UNCHANGED <<sent, fifo, lost, rx, head, tail, ids, pc>>
    BY DEF SysTick_Handler, vars, hwVars, ringVars, mainVars
  <2> QED
    BY <2>1, <2>2, ControllerCounts, IsrCounts, ForegroundCounts DEF Next
<1> QED
  BY <1>1, <1>2, RingInvariant, PTL DEF Spec
-----------------------------------------------------------------------------
(* The recorded maximum bounds the depth, whoever moved last: the handler  *)
(* updates it with the depth it computed from main's tail.                 *)
THEOREM HighWaterMark == Spec => []HighWater
<1>1. Init => HighWater
  BY RingAssumption DEF Init, HighWater, depth, queue_depth, RxCounters
<1>2. TypeInv /\ RingInv /\ HighWater /\ [Next]_vars => HighWater'
  <2> SUFFICES ASSUME TypeInv, RingInv, HighWater, [Next]_vars
               PROVE  HighWater'
    OBVIOUS
  <2>0. /\ head \in Slot /\ tail \in Slot /\ NextSlot(head) \in Slot
        /\ depth \in 0 .. RingSize - 1
        /\ rx["maxDepth"] \in Nat /\ rx["overflow"] \in Nat
    BY DepthBound, NextSlotInRing DEF TypeInv, TypeOK, depth, RxCounters
  <2>1. CASE UNCHANGED <<rx, head, tail>>
    BY <2>1 DEF HighWater, depth
  <2>2. CASE IsrEnter \/ IsrClearOverrun \/ IsrNoMailbox
    <3>1. /\ rx'["maxDepth"] = rx["maxDepth"] /\ rx'["overflow"] = rx["overflow"]
          /\ head' = head /\ tail' = tail
      BY <2>2 DEF TypeInv, TypeOK, IsrEnter, IsrClearOverrun, IsrNoMailbox, RxCounters, ringVars
    <3> QED
      BY <3>1 DEF HighWater, depth
  <2>3. CASE IsrEnqueue
    <3>1. head' = NextSlot(head) /\ tail' = tail /\ NextSlot(head) # tail
      BY <2>3 DEF IsrEnqueue, TakeMailbox
    <3>2. depth' = depth + 1
      BY <2>0, <3>1, DepthPush DEF depth
    <3>3. depth' \in 0 .. RingSize - 1
      BY <2>0, <3>1, DepthBound DEF depth
    <3>4. rx'["maxDepth"] = AtLeast(depth', rx["maxDepth"]) /\ rx'["overflow"] = rx["overflow"]
      BY <2>3, <3>1, EnqueueCounts DEF depth
    <3> QED
      BY <2>0, <3>2, <3>3, <3>4, RingAssumption DEF HighWater, AtLeast
  <2>4. CASE IsrOverflow
    <3>1. depth' = depth /\ depth = RingSize - 1
      BY <2>0, <2>4, DepthFull DEF IsrOverflow, TakeMailbox, depth
    <3>2. rx'["maxDepth"] = rx["maxDepth"]
      BY <2>4, OverflowCounts
    <3> QED
      BY <2>0, <3>1, <3>2, RingAssumption DEF HighWater
  <2>5. CASE Foreground
    <3>1. rx' = rx /\ head' = head
      BY <2>5 DEF Foreground
    <3>2. CASE ReleaseSlot
      <4>1. depth' = depth - 1
        BY <2>0, <3>1, <3>2, DepthPop DEF ReleaseSlot, RingInv, CopyingFromQueue, depth
      <4> QED
        BY <2>0, <3>1, <4>1 DEF HighWater
    <3>3. CASE ~ReleaseSlot
      <4>1. tail' = tail
        BY <2>5, <3>3 DEF Foreground, SystickInit, ControlDue, run_control_workload,
           ControlIdle, QueueEmpty, QueueReady, CopyField, DecodeStandard,
           DecodeExtended, Predict, Finish
      <4> QED
        BY <2>1, <3>1, <4>1
    <3> QED
      BY <3>2, <3>3
  <2>6. MailboxStore \/ MailboxOverrun \/ SysTick_Handler \/ UNCHANGED vars
          => UNCHANGED <<rx, head, tail>>
    BY DEF MailboxStore, MailboxOverrun, SysTick_Handler, vars, ringVars
  <2> QED
    BY <2>1, <2>2, <2>3, <2>4, <2>5, <2>6 DEF Next, Isr
<1> QED
  BY <1>1, <1>2, RingInvariant, PTL DEF Spec

-----------------------------------------------------------------------------
(* The overrun flag: the handler clears only a flag it is about to have    *)
(* counted, so at most as many overruns are counted as frames were lost    *)
(* and the first loss leaves a trace.                                      *)
ClearsRaisedFlag == isr = "clear" => fovr

OverrunInv == ClearsRaisedFlag /\ OverrunNoticed

THEOREM OverrunsLeaveATrace == Spec => []OverrunNoticed
<1> USE DEF OverrunInv, ClearsRaisedFlag, OverrunNoticed
<1>1. Init => OverrunInv
  BY DEF Init, RxCounters
<1>2. TypeInv /\ OverrunInv /\ [Next]_vars => OverrunInv'
  <2> SUFFICES ASSUME TypeInv, OverrunInv, [Next]_vars
               PROVE  OverrunInv'
    OBVIOUS
  <2>0. rx["overrun"] \in Nat /\ lost \in Nat /\ fovr \in BOOLEAN
    BY DEF TypeInv, TypeOK, RxCounters
  <2>1. CASE UNCHANGED <<rx, lost, fovr, isr>>
    BY <2>1
  <2>2. CASE MailboxOverrun
    BY <2>0, <2>2 DEF MailboxOverrun, isrVars
  <2>3. CASE IsrEnter
    <3>1. rx'["overrun"] = rx["overrun"]
      BY <2>3 DEF IsrEnter, TypeInv, TypeOK, RxCounters
    <3> QED
      BY <2>3, <3>1 DEF IsrEnter, hwVars
  <2>4. CASE IsrClearOverrun
    <3>1. rx'["overrun"] = rx["overrun"] + 1
      BY <2>4 DEF IsrClearOverrun, TypeInv, TypeOK, RxCounters
    <3> QED
      BY <2>0, <2>4, <3>1 DEF IsrClearOverrun
  <2>5. CASE IsrNoMailbox
    BY <2>5 DEF IsrNoMailbox, hwVars
  <2>6. CASE IsrEnqueue \/ IsrOverflow
    <3>1. rx'["overrun"] = rx["overrun"]
      BY <2>6, EnqueueCounts, OverflowCounts
    <3>2. isr' = "idle" /\ lost' = lost /\ fovr' = fovr
      BY <2>6 DEF IsrEnqueue, IsrOverflow, TakeMailbox
    <3> QED
      BY <3>1, <3>2
  <2>7. MailboxStore \/ SysTick_Handler \/ Foreground \/ UNCHANGED vars
          => UNCHANGED <<rx, lost, fovr, isr>>
    BY DEF MailboxStore, SysTick_Handler, Foreground, vars, hwVars, isrVars
  <2> QED
    BY <2>1, <2>2, <2>3, <2>4, <2>5, <2>6, <2>7 DEF Next, Isr
<1>3. OverrunInv => OverrunNoticed
  OBVIOUS
<1> QED
  BY <1>1, <1>2, <1>3, TypeInvariant, PTL DEF Spec
-----------------------------------------------------------------------------
(* The control task, as long as its counters do not wrap.                  *)
ControlInv ==
    /\ ctl["release"] = ticks
    /\ ctl["miss"] <= ticks
    /\ DeadlineStatistics

(* A tick releases one job; the backlog it sees is the true one.           *)
LEMMA TickCounts ==
    ASSUME TypeInv, ControlInv, SysTick_Handler, MaxTicks < CounterMod
    PROVE  ControlInv'
<1> USE DEF TypeInv
<1> DEFINE backlog == Diff(Inc(ctl["release"]), ctl["complete"])
<1>1. /\ ticks \in Nat /\ ticks + 1 < CounterMod
      /\ ctl["release"] = ticks
      /\ ctl["complete"] \in Nat /\ ctl["complete"] <= ticks
      /\ ctl["miss"] \in Nat /\ ctl["miss"] <= ticks
      /\ ctl["maxBacklog"] \in Nat
  BY CounterAssumption, BoundsAssumption
  DEF SysTick_Handler, TypeOK, CtlCounters, Counter, ControlInv, DeadlineStatistics
<1>2. backlog = ticks + 1 - ctl["complete"]
  BY <1>1, CounterAssumption DEF Inc, Diff
<1>3. /\ ctl'["release"] = ticks + 1
      /\ ctl'["complete"] = ctl["complete"]
      /\ ctl'["miss"] = IF backlog > 1 THEN ctl["miss"] + 1 ELSE ctl["miss"]
      /\ ctl'["maxBacklog"] = AtLeast(backlog, ctl["maxBacklog"])
  <2> HIDE DEF backlog
  <2>1. ctl' = [ctl EXCEPT !["tick"] = Inc(@),
                           !["release"] = Inc(@),
                           !["miss"] = IF backlog > 1 THEN Inc(@) ELSE @,
                           !["maxBacklog"] = AtLeast(backlog, @)]
    BY DEF SysTick_Handler, backlog
  <2>2. ctl \in [CtlCounters -> Counter]
    BY DEF TypeOK
  <2>3. Inc(ctl["release"]) = ticks + 1 /\ Inc(ctl["miss"]) = ctl["miss"] + 1
    BY <1>1, CounterAssumption DEF Inc
  <2> QED
    BY <2>1, <2>2, <2>3 DEF CtlCounters
<1>4. ticks' = ticks + 1 /\ pc' = pc
  BY DEF SysTick_Handler, mainVars
<1> HIDE DEF backlog
<1> QED
  BY <1>1, <1>2, <1>3, <1>4 DEF ControlInv, DeadlineStatistics, AtLeast

(* Main completes a job only after it found one released.                  *)
LEMMA ForegroundControl ==
    ASSUME TypeInv, ControlInv, Foreground
    PROVE  ControlInv'
<1> USE DEF TypeInv
<1>1. /\ ticks' = ticks /\ ticks \in Nat
      /\ ctl["release"] \in Counter /\ ctl["complete"] \in Counter
  BY BoundsAssumption DEF Foreground, TypeOK, CtlCounters
<1>2. CASE run_control_workload
  <2>1. ctl["complete"] < ctl["release"]
    BY <1>2 DEF run_control_workload, ControlInv, DeadlineStatistics
  <2>2. Inc(ctl["complete"]) = ctl["complete"] + 1
    BY <1>1, <2>1, CounterAssumption DEF Inc, Counter
  <2>3. /\ ctl'["complete"] = ctl["complete"] + 1
        /\ ctl'["release"] = ctl["release"]
        /\ ctl'["miss"] = ctl["miss"]
        /\ ctl'["maxBacklog"] = ctl["maxBacklog"]
    BY <1>2, <2>2 DEF run_control_workload, TypeOK, CtlCounters
  <2>4. pc' = "loop"
    BY <1>2 DEF run_control_workload
  <2>5. ctl["maxBacklog"] \in Nat
    BY CounterAssumption DEF TypeOK, CtlCounters, Counter
  <2> QED
    BY <1>1, <2>1, <2>3, <2>4, <2>5, CounterAssumption DEF ControlInv, DeadlineStatistics, Counter
<1>3. CASE ControlDue
  BY <1>1, <1>3 DEF ControlDue, ControlInv, DeadlineStatistics
<1>4. CASE ~(run_control_workload \/ ControlDue)
  <2>1. ctl' = ctl /\ pc' # "work"
    BY <1>4 DEF Foreground, SystickInit, ControlIdle, QueueEmpty, QueueReady, CopyField,
       ReleaseSlot, DecodeStandard, DecodeExtended, Predict, Finish
  <2> QED
    BY <1>1, <2>1 DEF ControlInv, DeadlineStatistics
<1> QED
  BY <1>2, <1>3, <1>4

LEMMA ControlInvariant ==
    ASSUME MaxTicks < CounterMod
    PROVE  Spec => [](TypeInv /\ ControlInv)
<1>1. Init => ControlInv
  BY DEF Init, ControlInv, DeadlineStatistics, CtlCounters
<1>2. TypeInv /\ ControlInv /\ [Next]_vars => ControlInv'
  <2> SUFFICES ASSUME TypeInv, ControlInv, [Next]_vars
               PROVE  ControlInv'
    OBVIOUS
  <2>1. CASE UNCHANGED <<ctl, ticks, pc>>
    BY <2>1 DEF ControlInv, DeadlineStatistics
  <2>2. MailboxStore \/ MailboxOverrun \/ Isr \/ UNCHANGED vars => UNCHANGED <<ctl, ticks, pc>>
    BY DEF MailboxStore, MailboxOverrun, Isr, IsrEnter, IsrClearOverrun, IsrNoMailbox,
           IsrEnqueue, IsrOverflow, TakeMailbox, vars, mainVars, ctlVars
  <2> QED
    BY <2>1, <2>2, TickCounts, ForegroundControl DEF Next
<1> QED
  BY <1>1, <1>2, TypeInvariant, PTL DEF Spec

(* No job completes that was not released, and a deadline miss is on       *)
(* record exactly when two jobs were outstanding together.                 *)
THEOREM DeadlinesCounted ==
    ASSUME MaxTicks < CounterMod
    PROVE  Spec => []DeadlineStatistics
<1>1. ControlInv => DeadlineStatistics
  BY DEF ControlInv
<1> QED
  BY <1>1, ControlInvariant, PTL

(* As long as the release counter has not wrapped, main never turns to the *)
(* queue from the head of its loop while a control job is outstanding.     *)
THEOREM ControlComesFirst ==
    ASSUME MaxTicks < CounterMod
    PROVE  Spec => ControlPriority
<1>1. TypeInv /\ ControlInv /\ [Next]_vars
        => [pc = "loop" /\ ctl["release"] # ctl["complete"] => pc' \in {"loop", "work"}]_vars
  <2> SUFFICES ASSUME TypeInv, ControlInv, Next, pc = "loop", ctl["release"] # ctl["complete"]
               PROVE  pc' \in {"loop", "work"}
    OBVIOUS
  <2>1. ctl["complete"] < ctl["release"]
    BY CounterAssumption DEF TypeInv, TypeOK, CtlCounters, Counter, ControlInv, DeadlineStatistics
  <2>2. MailboxStore \/ MailboxOverrun \/ Isr \/ SysTick_Handler => pc' = pc
    BY DEF MailboxStore, MailboxOverrun, Isr, IsrEnter, IsrClearOverrun, IsrNoMailbox,
           IsrEnqueue, IsrOverflow, TakeMailbox, SysTick_Handler, mainVars
  <2>3. Foreground => pc' = "work"
    BY <2>1 DEF Foreground, SystickInit, ControlDue, run_control_workload, ControlIdle,
       QueueEmpty, QueueReady, CopyField, ReleaseSlot, DecodeStandard, DecodeExtended,
       Predict, Finish
  <2> QED
    BY <2>2, <2>3 DEF Next
<1> QED
  BY <1>1, ControlInvariant, PTL DEF Spec, ControlPriority
-----------------------------------------------------------------------------
(* The verdicts: only main counts them, one branch per frame.              *)

(* A verdict is counted as a call and in one of the three other counters.  *)
LEMMA VerdictCounts ==
    ASSUME TypeInv, Predict
    PROVE  /\ ids'["calls"] = ids["calls"] + 1
           /\ ids'["normal"] + ids'["known"] + ids'["unknown"]
                = ids["normal"] + ids["known"] + ids["unknown"] + 1
           /\ ids'["feature"] = ids["feature"]
           /\ ids'["featureError"] = ids["featureError"]
           /\ ids'["processed"] = ids["processed"]
<1>1. PICK code \in Codes : ids' = CountVerdict(ids, code)
  BY DEF Predict
<1>2. ids \in [IdsCounters -> Nat]
  BY DEF TypeInv, TypeOK
<1>3. /\ ids'["calls"] = ids["calls"] + 1
      /\ ids'["feature"] = ids["feature"]
      /\ ids'["featureError"] = ids["featureError"]
      /\ ids'["processed"] = ids["processed"]
  BY <1>1, <1>2 DEF CountVerdict, IdsCounters
<1>4. /\ ids'["normal"] = IF code = 0 THEN ids["normal"] + 1 ELSE ids["normal"]
      /\ ids'["unknown"] = IF code = 5 THEN ids["unknown"] + 1 ELSE ids["unknown"]
      /\ ids'["known"] = IF code \in {0, 5} THEN ids["known"] ELSE ids["known"] + 1
  BY <1>1, <1>2 DEF CountVerdict, IdsCounters
<1>5. ids["normal"] \in Nat /\ ids["known"] \in Nat /\ ids["unknown"] \in Nat
  BY <1>2 DEF IdsCounters
<1> QED
  BY <1>3, <1>4, <1>5

(* Main counts each frame once, whatever it decodes to.                    *)
LEMMA ForegroundVerdicts ==
    ASSUME TypeInv, EveryVerdictCounted, Foreground
    PROVE  EveryVerdictCounted'
<1> USE DEF EveryVerdictCounted
<1>0. \A c \in IdsCounters : ids[c] \in Nat
  BY DEF TypeInv, TypeOK
<1>00. ids \in [IdsCounters -> Nat]
  BY DEF TypeInv, TypeOK
<1>1. CASE DecodeStandard
  <2>1. /\ ids'["feature"] = ids["feature"] + 1
        /\ \A c \in IdsCounters : c # "feature" => ids'[c] = ids[c]
    BY <1>00, <1>1 DEF DecodeStandard, IdsCounters
  <2> QED
    BY <1>0, <1>1, <2>1 DEF DecodeStandard, IdsCounters
<1>2. CASE DecodeExtended
  <2>1. /\ ids'["featureError"] = ids["featureError"] + 1
        /\ \A c \in IdsCounters : c # "featureError" => ids'[c] = ids[c]
    BY <1>00, <1>2 DEF DecodeExtended, IdsCounters
  <2> QED
    BY <1>0, <1>2, <2>1 DEF DecodeExtended, IdsCounters
<1>3. CASE Predict
  <2>1. pc = "predict" /\ pc' = "finish"
    BY <1>3 DEF Predict
  <2> QED
    BY <1>0, <1>3, <2>1, VerdictCounts DEF IdsCounters
<1>4. CASE Finish
  <2>1. /\ ids'["processed"] = ids["processed"] + 1
        /\ \A c \in IdsCounters : c # "processed" => ids'[c] = ids[c]
    BY <1>00, <1>4 DEF Finish, IdsCounters
  <2> QED
    BY <1>0, <1>4, <2>1 DEF Finish, IdsCounters
<1>5. CASE ~(DecodeStandard \/ DecodeExtended \/ Predict \/ Finish)
  <2>1. /\ ids' = ids
        /\ pc \notin {"predict", "finish"} /\ pc' \notin {"predict", "finish"}
    BY <1>5 DEF Foreground, SystickInit, ControlDue, run_control_workload, ControlIdle,
       QueueEmpty, QueueReady, CopyField, ReleaseSlot
  <2> QED
    BY <2>1
<1> QED
  BY <1>1, <1>2, <1>3, <1>4, <1>5

(* Every processed frame got one verdict or one feature error, and every   *)
(* verdict is in one counter.                                              *)
THEOREM VerdictsCounted == Spec => []EveryVerdictCounted
<1>1. Init => EveryVerdictCounted
  BY DEF Init, EveryVerdictCounted, IdsCounters
<1>2. TypeInv /\ EveryVerdictCounted /\ [Next]_vars => EveryVerdictCounted'
  <2> SUFFICES ASSUME TypeInv, EveryVerdictCounted, [Next]_vars
               PROVE  EveryVerdictCounted'
    OBVIOUS
  <2>1. CASE UNCHANGED <<ids, pc>>
    BY <2>1 DEF EveryVerdictCounted
  <2>2. MailboxStore \/ MailboxOverrun \/ Isr \/ SysTick_Handler \/ UNCHANGED vars
          => UNCHANGED <<ids, pc>>
    BY DEF MailboxStore, MailboxOverrun, Isr, IsrEnter, IsrClearOverrun, IsrNoMailbox,
           IsrEnqueue, IsrOverflow, TakeMailbox, SysTick_Handler, vars, mainVars
  <2> QED
    BY <2>1, <2>2, ForegroundVerdicts DEF Next
<1> QED
  BY <1>1, <1>2, TypeInvariant, PTL DEF Spec

-----------------------------------------------------------------------------
(* The arrival stamps, as long as the tick counter does not wrap: it then  *)
(* is the number of ticks, and only grows.                                 *)
SpanInv ==
    /\ ctl["tick"] = ticks
    /\ rx["hwRx"] = 0 => rx["lastTick"] = 0 /\ rx["firstTick"] = 0
    /\ ArrivalSpan

LEMMA StampKeepsSpan ==
    ASSUME TypeInv, SpanInv, IsrEnqueue \/ IsrOverflow
    PROVE  SpanInv'
<1>0. rx \in [RxCounters -> Nat] /\ ctl["tick"] \in Nat
  BY CounterAssumption DEF TypeInv, TypeOK, CtlCounters, Counter
<1>1. UNCHANGED <<ctl, ticks>>
  BY DEF IsrEnqueue, IsrOverflow, TakeMailbox, ctlVars
<1>2. /\ rx'["hwRx"] = rx["hwRx"] + 1
      /\ rx'["firstTick"] = IF rx["hwRx"] = 0 THEN ctl["tick"] ELSE rx["firstTick"]
      /\ rx'["lastTick"] = ctl["tick"]
  BY <1>0 DEF IsrEnqueue, IsrOverflow, Stamped, RxCounters
<1>3. rx["hwRx"] \in Nat /\ rx["firstTick"] \in Nat /\ rx["lastTick"] \in Nat
  BY <1>0 DEF RxCounters
<1> QED
  BY <1>0, <1>1, <1>2, <1>3 DEF SpanInv, ArrivalSpan

(* The first arrival is not after the last, nor the last in the future.    *)
THEOREM SpanHappened ==
    ASSUME MaxTicks < CounterMod
    PROVE  Spec => []ArrivalSpan
<1>1. Init => SpanInv
  BY DEF Init, SpanInv, ArrivalSpan, RxCounters, CtlCounters
<1>2. TypeInv /\ SpanInv /\ [Next]_vars => SpanInv'
  <2> SUFFICES ASSUME TypeInv, SpanInv, [Next]_vars
               PROVE  SpanInv'
    OBVIOUS
  <2> DEFINE Seen(r) == <<r["hwRx"], r["firstTick"], r["lastTick"]>>
  <2>1. CASE Seen(rx') = Seen(rx) /\ ctl'["tick"] = ctl["tick"] /\ ticks' = ticks
    BY <2>1 DEF SpanInv, ArrivalSpan
  <2>2. CASE SysTick_Handler
    <3>1. ticks \in Nat /\ ticks + 1 < CounterMod /\ ctl["tick"] = ticks
      BY <2>2, BoundsAssumption, CounterAssumption
      DEF SysTick_Handler, TypeInv, TypeOK, SpanInv
    <3>2. ctl'["tick"] = Inc(ctl["tick"])
      <4> DEFINE backlog == Diff(Inc(ctl["release"]), ctl["complete"])
      <4>1. ctl' = [ctl EXCEPT !["tick"] = Inc(@),
                               !["release"] = Inc(@),
                               !["miss"] = IF backlog > 1 THEN Inc(@) ELSE @,
                               !["maxBacklog"] = AtLeast(backlog, @)]
        BY <2>2 DEF SysTick_Handler
      <4> HIDE DEF backlog
      <4> QED
        BY <4>1 DEF TypeInv, TypeOK, CtlCounters
    <3>3. rx' = rx /\ ticks' = ticks + 1 /\ rx["lastTick"] \in Nat
      BY <2>2 DEF SysTick_Handler, TypeInv, TypeOK, RxCounters
    <3> QED
      BY <3>1, <3>2, <3>3, CounterAssumption DEF SpanInv, ArrivalSpan, Inc
  <2>3. CASE Foreground
    <3>1. rx' = rx /\ ticks' = ticks
      BY <2>3 DEF Foreground
    <3>2. ctl'["tick"] = ctl["tick"]
      BY <2>3 DEF Foreground, SystickInit, ControlDue, run_control_workload, ControlIdle,
         QueueEmpty, QueueReady, CopyField, ReleaseSlot, DecodeStandard, DecodeExtended,
         Predict, Finish, TypeInv, TypeOK, CtlCounters
    <3> QED
      BY <2>1, <3>1, <3>2
  <2>4. CASE IsrEnter \/ IsrClearOverrun \/ IsrNoMailbox
    <3>1. Seen(rx') = Seen(rx)
      BY <2>4 DEF IsrEnter, IsrClearOverrun, IsrNoMailbox, TypeInv, TypeOK, RxCounters
    <3>2. ctl' = ctl /\ ticks' = ticks
      BY <2>4 DEF IsrEnter, IsrClearOverrun, IsrNoMailbox, ctlVars
    <3> QED
      BY <2>1, <3>1, <3>2
  <2>5. MailboxStore \/ MailboxOverrun \/ UNCHANGED vars => UNCHANGED <<rx, ctl, ticks>>
    BY DEF MailboxStore, MailboxOverrun, vars, ctlVars
  <2> QED
    BY <2>1, <2>2, <2>3, <2>4, <2>5, StampKeepsSpan DEF Next, Isr
<1>3. SpanInv => ArrivalSpan
  BY DEF SpanInv
<1> QED
  BY <1>1, <1>2, <1>3, TypeInvariant, PTL DEF Spec
-----------------------------------------------------------------------------
(* Refinement: the ring, the handler and main implement LossyFifo.         *)

Message == [Field -> FrameNo]

(* A function on 1 .. n is a sequence of length n. *)
LEMMA FunctionIsSequence ==
    ASSUME NEW S, NEW n \in Nat, NEW f \in [1 .. n -> S]
    PROVE  f \in Seq(S) /\ Len(f) = n
<1>1. f \in Seq(S)
  BY SeqDef
<1>2. Len(f) \in Nat /\ 1 .. Len(f) = 1 .. n
  BY <1>1, LenProperties
<1> QED
  BY <1>1, <1>2

(* The positions of the queue are slots, pairwise distinct from the slot   *)
(* at head, and the next position of a full view is head itself.           *)
LEMMA PositionInRing ==
    ASSUME head \in Slot, tail \in Slot, NEW i \in 1 .. depth
    PROVE  Position(i) \in Slot /\ Position(i) # head
BY RingAssumption DEF Slot, depth, queue_depth, Position

LEMMA PositionOfHead ==
    ASSUME head \in Slot, tail \in Slot
    PROVE  Position(depth + 1) = head
BY RingAssumption DEF Slot, depth, queue_depth, Position

(* The contents of the ring as a sequence. *)
ContentsOK ==
    /\ depth \in 0 .. RingSize - 1
    /\ RingContents \in Seq(Message)
    /\ Len(RingContents) = depth
    /\ \A i \in 1 .. depth : RingContents[i] = slots[Position(i)]

LEMMA ContentsTyped == TypeInv => ContentsOK
<1> SUFFICES ASSUME TypeInv PROVE ContentsOK
  OBVIOUS
<1>1. /\ head \in Slot /\ tail \in Slot /\ slots \in [Slot -> Message]
  BY DEF TypeInv, TypeOK, Message
<1>2. depth \in 0 .. RingSize - 1 /\ depth \in Nat
  BY <1>1, DepthBound, RingAssumption DEF depth
<1>3. RingContents \in [1 .. depth -> Message]
  BY <1>1, PositionInRing DEF RingContents
<1>4. RingContents \in Seq(Message) /\ Len(RingContents) = depth
  BY <1>2, <1>3, FunctionIsSequence
<1>5. \A i \in 1 .. depth : RingContents[i] = slots[Position(i)]
  BY DEF RingContents
<1> QED
  BY <1>2, <1>4, <1>5 DEF ContentsOK

(* The same in the next state. *)
LEMMA ContentsTypedNext == TypeInv' => ContentsOK'
BY ContentsTyped, PTL

(* A step that moves neither index nor slot nor result stutters.           *)
LEMMA FifoStutter ==
    ASSUME UNCHANGED <<slots, head, tail, last>>, rx'["overflow"] = rx["overflow"]
    PROVE  UNCHANGED Fifo!fifoVars
BY DEF Fifo!fifoVars, RingContents, depth, Position

(* Publishing a frame appends it to the queue. *)
LEMMA EnqueueIsPut ==
    ASSUME TypeInv, TypeInv', IsrEnqueue
    PROVE  Fifo!Next
<1> DEFINE v == Whole(Head(fifo))
<1>0. /\ head \in Slot /\ tail \in Slot /\ slots \in [Slot -> Message]
  BY DEF TypeInv, TypeOK, Message
<1>c. ContentsOK /\ ContentsOK'
  BY ContentsTyped, ContentsTypedNext
<1>1. /\ head' = NextSlot(head) /\ tail' = tail /\ NextSlot(head) # tail
      /\ slots' = [slots EXCEPT ![head] = v]
      /\ last' = last
  BY DEF IsrEnqueue, TakeMailbox, mainVars
<1>2. v \in {Whole(n) : n \in 1 .. MaxFrames} /\ v \in Message
  BY TakeMailboxSound, WholeTyped DEF IsrEnqueue, Message
<1> HIDE DEF v
<1>3. depth' = depth + 1
  BY <1>0, <1>1, DepthPush DEF depth
<1>4. depth \in Nat /\ depth < RingSize - 1
  BY <1>3, <1>c, RingAssumption DEF ContentsOK
<1>5. RingContents' \in Seq(Message) /\ Len(RingContents') = depth + 1
  BY <1>3, <1>c DEF ContentsOK
<1>6. Append(RingContents, v) \in Seq(Message) /\ Len(Append(RingContents, v)) = depth + 1
  BY <1>2, <1>c DEF ContentsOK
<1>7. ASSUME NEW i \in 1 .. depth + 1
      PROVE  RingContents'[i] = Append(RingContents, v)[i]
  <2>1. Position(i)' = Position(i)
    BY <1>1 DEF Position
  <2>2. RingContents'[i] = slots'[Position(i)]
    BY <1>3, <2>1, <1>c DEF ContentsOK
  <2>3. CASE i \in 1 .. depth
    <3>1. Position(i) \in Slot /\ Position(i) # head
      BY <1>0, <2>3, PositionInRing
    <3>2. Append(RingContents, v)[i] = RingContents[i]
      BY <1>2, <2>3, <1>c DEF ContentsOK
    <3> QED
      BY <1>0, <1>1, <2>2, <2>3, <3>1, <3>2, <1>c DEF ContentsOK
  <2>4. CASE i = depth + 1
    <3>1. Position(i) = head
      BY <1>0, <2>4, PositionOfHead
    <3>2. Append(RingContents, v)[i] = v
      BY <1>2, <2>4, <1>c DEF ContentsOK
    <3> QED
      BY <1>0, <1>1, <2>2, <3>1, <3>2
  <2>5. i \in 1 .. depth \/ i = depth + 1
    BY <1>4
  <2> QED
    BY <2>3, <2>4, <2>5
<1>8. RingContents' = Append(RingContents, v)
  BY <1>5, <1>6, <1>7, SeqEqual
<1>9. Fifo!Put(v)
  BY <1>1, <1>4, <1>8, <1>c, EnqueueCounts DEF Fifo!Put, ContentsOK
<1> QED
  BY <1>2, <1>9 DEF Fifo!Next

(* A frame is refused only when every usable slot is taken. *)
LEMMA OverflowIsRefuse ==
    ASSUME TypeInv, IsrOverflow
    PROVE  Fifo!Next
<1>1. /\ head \in Slot /\ tail \in Slot /\ NextSlot(head) = tail
      /\ UNCHANGED <<slots, head, tail, last>>
  BY DEF TypeInv, TypeOK, IsrOverflow, TakeMailbox, mainVars
<1>2. Len(RingContents) = RingSize - 1
  BY <1>1, DepthFull, ContentsTyped DEF depth, ContentsOK
<1>3. RingContents' = RingContents
  BY <1>1 DEF RingContents, depth, Position
<1>4. Fifo!Refuse
  BY <1>1, <1>2, <1>3, OverflowCounts DEF Fifo!Refuse
<1> QED
  BY <1>4 DEF Fifo!Next

(* Giving a slot back delivers the oldest frame, whole. *)
LEMMA ReleaseIsGet ==
    ASSUME TypeInv, TypeInv', RingInv, Foreground, ReleaseSlot
    PROVE  Fifo!Next
<1>0. /\ head \in Slot /\ tail \in Slot /\ slots \in [Slot -> Message]
      /\ frame \in Message
  BY DEF TypeInv, TypeOK, Message
<1>c. ContentsOK /\ ContentsOK'
  BY ContentsTyped, ContentsTypedNext
<1>1. /\ tail' = NextSlot(tail) /\ tail # head /\ last' = frame
      /\ UNCHANGED <<slots, head, rx>>
  BY DEF ReleaseSlot, Foreground, RingInv, CopyingFromQueue
<1>2. frame = slots[tail]
  BY <1>0 DEF ReleaseSlot, RingInv, NoTornFrame, Field, Message
<1>3. depth' = depth - 1 /\ depth # 0
  BY <1>0, <1>1, DepthPop, DepthBound DEF depth
<1>4. RingContents # <<>> /\ depth \in Nat /\ 1 \in 1 .. depth
  BY <1>3, <1>c, EmptySeq, RingAssumption DEF ContentsOK
<1>5. Position(1) = tail
  BY <1>0, RingAssumption DEF Position, Slot
<1>6. Head(RingContents) = slots[tail]
  BY <1>4, <1>5, <1>c DEF ContentsOK
<1>7. /\ Tail(RingContents) \in Seq(Message)
      /\ Len(Tail(RingContents)) = depth - 1
      /\ \A i \in 1 .. depth - 1 : Tail(RingContents)[i] = RingContents[i + 1]
  BY <1>4, <1>c, HeadTailProperties DEF ContentsOK
<1>8. RingContents' \in Seq(Message) /\ Len(RingContents') = depth - 1
  BY <1>3, <1>c DEF ContentsOK
<1>9. ASSUME NEW i \in 1 .. depth - 1
      PROVE  RingContents'[i] = Tail(RingContents)[i]
  <2>1. Position(i)' = Position(i + 1)
    <3>1. depth \in 0 .. RingSize - 1
      BY <1>c DEF ContentsOK
    <3> QED
      BY <1>0, <1>1, <3>1, RingAssumption DEF Position, NextSlot, Slot
  <2>2. RingContents'[i] = slots'[Position(i)']
    BY <1>3, <1>c DEF ContentsOK
  <2>3. i + 1 \in 1 .. depth
    BY <1>4
  <2> QED
    BY <1>1, <1>7, <2>1, <2>2, <2>3, <1>c DEF ContentsOK
<1>10. RingContents' = Tail(RingContents)
  BY <1>7, <1>8, <1>9, SeqEqual
<1>11. Fifo!Get
  BY <1>1, <1>2, <1>4, <1>6, <1>10 DEF Fifo!Get
<1> QED
  BY <1>11 DEF Fifo!Next

(* The receive path is a bounded lossy FIFO, for every ring size: frames   *)
(* come out whole, in order, and are refused only by a full ring.          *)
THEOREM RingIsFifo == Spec => ImplementsFifo
<1>1. TypeInv /\ Init => Fifo!Init
  <2> SUFFICES ASSUME TypeInv, Init PROVE Fifo!Init
    OBVIOUS
  <2>1. depth = 0
    BY DEF Init, depth, queue_depth
  <2>2. RingContents = <<>>
    BY <2>1, ContentsTyped, EmptySeq DEF ContentsOK
  <2> QED
    BY <2>2 DEF Init, Fifo!Init, RxCounters
<1>2. TypeInv /\ TypeInv' /\ RingInv /\ [Next]_vars => [Fifo!Next]_(Fifo!fifoVars)
  <2> SUFFICES ASSUME TypeInv, TypeInv', RingInv, [Next]_vars
               PROVE  Fifo!Next \/ UNCHANGED Fifo!fifoVars
    OBVIOUS
  <2>1. CASE IsrEnter \/ IsrClearOverrun \/ IsrNoMailbox
    <3>1. UNCHANGED <<slots, head, tail, last>> /\ rx'["overflow"] = rx["overflow"]
      BY <2>1 DEF IsrEnter, IsrClearOverrun, IsrNoMailbox, TypeInv, TypeOK, RxCounters,
                  ringVars, mainVars
    <3> QED
      BY <3>1, FifoStutter
  <2>2. CASE Foreground /\ ~ReleaseSlot
    <3>1. UNCHANGED <<slots, head, tail, last>> /\ rx' = rx
      BY <2>2 DEF Foreground, SystickInit, ControlDue, run_control_workload, ControlIdle,
         QueueEmpty, QueueReady, CopyField, DecodeStandard, DecodeExtended, Predict, Finish
    <3> QED
      BY <3>1, FifoStutter
  <2>3. CASE MailboxStore \/ MailboxOverrun \/ SysTick_Handler \/ UNCHANGED vars
    <3>1. UNCHANGED <<slots, head, tail, last>> /\ rx' = rx
      BY <2>3 DEF MailboxStore, MailboxOverrun, SysTick_Handler, vars, ringVars, mainVars
    <3> QED
      BY <3>1, FifoStutter
  <2> QED
    BY <2>1, <2>2, <2>3, EnqueueIsPut, OverflowIsRefuse, ReleaseIsGet DEF Next, Isr
<1> QED
  BY <1>1, <1>2, RingInvariant, PTL DEF Spec, ImplementsFifo, Fifo!Spec

-----------------------------------------------------------------------------
(***************************************************************************)
(* The program without the inference does what the program with it does.   *)
(* Each is translated from its own text; step by step they are compared.   *)
(***************************************************************************)

(* Indices and the counters that decide something, of the baseline.        *)
TypedOff ==
    /\ g_q_head \in Slot /\ g_q_tail \in Slot
    /\ g_control_tick_count \in Counter /\ g_control_release_count \in Counter
    /\ g_control_complete_count \in Counter /\ g_control_deadline_miss_count \in Counter
    /\ g_feature_count \in Nat /\ g_hw_rx_count \in Nat

(* Masks and wrapping arithmetic are the case distinctions of F6Firmware.  *)
LEMMA RingArithmetic ==
    /\ \A i \in Slot : After(i) \in Slot /\ On!NextSlot(i) = After(i)
    /\ \A h, t \in Slot : On!queue_depth(h, t) = QueueDepth(h, t)
<1>1. \A n \in Nat \ {0} : \A i \in 0 .. n - 1 :
         (i + 1) % n = IF i + 1 = n THEN 0 ELSE i + 1
  OBVIOUS
<1>2. \A n \in Nat \ {0} : \A h, t \in 0 .. n - 1 :
         (h + n - t) % n = IF h >= t THEN h - t ELSE h + n - t
  OBVIOUS
<1>3. RingSize \in Nat \ {0}
  BY RingAssumption
<1>4. \A i \in Slot : After(i) = IF i + 1 = RingSize THEN 0 ELSE i + 1
  BY <1>1, <1>3 DEF After, Slot
<1>5. \A h, t \in Slot :
         QueueDepth(h, t) = IF h >= t THEN h - t ELSE h + RingSize - t
  BY <1>2, <1>3 DEF QueueDepth, Slot
<1>6. \A i \in Slot : After(i) \in Slot
  BY <1>3, <1>4 DEF Slot
<1> QED
  BY <1>4, <1>5, <1>6 DEF On!NextSlot, On!queue_depth

LEMMA ControlArithmetic ==
    /\ \A n \in Counter : Plus1(n) \in Counter /\ On!Inc(n) = Plus1(n)
    /\ \A m, n \in Counter : On!Diff(m, n) = Minus(m, n)
<1>1. \A k \in Nat \ {0} : \A n \in 0 .. k - 1 :
         (n + 1) % k = IF n + 1 = k THEN 0 ELSE n + 1
  OBVIOUS
<1>2. \A k \in Nat \ {0} : \A m, n \in 0 .. k - 1 :
         (m + k - n) % k = IF m >= n THEN m - n ELSE m + k - n
  OBVIOUS
<1>3. CounterMod \in Nat \ {0}
  BY CounterAssumption
<1>4. \A n \in Counter : Plus1(n) = IF n + 1 = CounterMod THEN 0 ELSE n + 1
  BY <1>1, <1>3 DEF Plus1, Counter
<1>5. \A m, n \in Counter : Minus(m, n) = IF m >= n THEN m - n ELSE m + CounterMod - n
  BY <1>2, <1>3 DEF Minus, Counter
<1>6. \A n \in Counter : Plus1(n) \in Counter
  BY <1>3, <1>4 DEF Counter
<1> QED
  BY <1>4, <1>5, <1>6 DEF On!Inc, On!Diff

LEMMA TypedInvariant == SpecOff => []TypedOff
<1>1. InitOff => TypedOff
  BY RingAssumption, CounterAssumption DEF InitOff, TypedOff, Slot, Counter
<1>2. TypedOff /\ [NextOff]_varsOff => TypedOff'
  <2> SUFFICES ASSUME TypedOff, [NextOff]_varsOff PROVE TypedOff'
    OBVIOUS
  <2> USE DEF TypedOff
  <2>1. CASE Store \/ Overrun \/ IrqEntry \/ IrqOverrun \/ IrqNothing \/ UNCHANGED varsOff
    BY <2>1 DEF Store, Overrun, IrqEntry, IrqOverrun, IrqNothing, varsOff, queueVars,
       rxCounts, arrivalCounts, mainVarsOff, idsCounts, controlCounts, releaseCounts
  <2>2. CASE IrqFrame
    <3>1. g_q_head' \in Slot /\ g_hw_rx_count' \in Nat
      BY <2>2, RingArithmetic DEF IrqFrame, PushOrRefuse, StampArrival
    <3> QED
      BY <2>2, <3>1 DEF IrqFrame, mainVarsOff, idsCounts, controlCounts, releaseCounts
  <2>3. CASE Tick
    <3>1. /\ g_control_tick_count' \in Counter /\ g_control_release_count' \in Counter
          /\ g_control_deadline_miss_count' \in Counter
      BY <2>3, ControlArithmetic DEF Tick
    <3> QED
      BY <2>3, <3>1 DEF Tick, queueVars, mainVarsOff, idsCounts, rxCounts, arrivalCounts
  <2>4. CASE MainOff
    <3>1. UNCHANGED <<g_q_head, g_control_tick_count, g_control_release_count,
                      g_control_deadline_miss_count, g_hw_rx_count>>
      BY <2>4 DEF MainOff, queueVars, releaseCounts, rxCounts, arrivalCounts
    <3>2. g_q_tail' \in Slot
      BY <2>4, RingArithmetic DEF MainOff, Started, LoopHead, ControlWork, QueueTest, CopyWord,
         FreeSlot, Features, PredictionOff, Processed
    <3>3. g_control_complete_count' \in Counter
      BY <2>4, ControlArithmetic DEF MainOff, Started, LoopHead, ControlWork, QueueTest,
         CopyWord, FreeSlot, Features, PredictionOff, Processed
    <3>4. g_feature_count' \in Nat
      BY <2>4 DEF MainOff, Started, LoopHead, ControlWork, QueueTest, CopyWord,
         FreeSlot, Features, PredictionOff, Processed, idsCounts
    <3> QED
      BY <3>1, <3>2, <3>3, <3>4
  <2> QED
    BY <2>1, <2>2, <2>3, <2>4 DEF NextOff, IrqOff
<1> QED
  BY <1>1, <1>2, PTL DEF SpecOff

-----------------------------------------------------------------------------
(* The counters, grouped as in F6Firmware, stay when their parts do.       *)
LEMMA RxSame == UNCHANGED rxCounts => rxOn' = rxOn
BY DEF rxCounts, queueCounts, arrivalCounts, rxOn

LEMMA IdsSame == UNCHANGED idsCounts /\ (at = "predict" <=> at' = "predict") => idsOn' = idsOn
BY DEF idsCounts, idsOn, Verdicts

LEMMA CtlSame == UNCHANGED controlCounts => ctlOn' = ctlOn
BY DEF controlCounts, releaseCounts, ctlOn

LEMMA ControllerOn ==
    /\ Store => On!MailboxStore
    /\ Overrun => On!MailboxOverrun
<1>1. ASSUME Store PROVE On!MailboxStore
  <2>1. UNCHANGED <<rxOn, idsOn, ctlOn>>
    BY <1>1, RxSame, IdsSame, CtlSame DEF Store, mainVarsOff
  <2> QED
    BY <1>1, <2>1 DEF Store, On!MailboxStore, irqVars, queueVars, mainVarsOff, On!isrVars,
       On!ringVars, On!mainVars, On!ctlVars
<1>2. ASSUME Overrun PROVE On!MailboxOverrun
  <2>1. UNCHANGED <<rxOn, idsOn, ctlOn>>
    BY <1>2, RxSame, IdsSame, CtlSame DEF Overrun, mainVarsOff
  <2> QED
    BY <1>2, <2>1 DEF Overrun, On!MailboxOverrun, irqVars, queueVars, mainVarsOff, On!isrVars,
       On!ringVars, On!mainVars, On!ctlVars
<1> QED
  BY <1>1, <1>2

(* The interrupt handler.                                                  *)
LEMMA IrqOn ==
    ASSUME TypedOff, IrqOff
    PROVE  On!Isr
<1> USE DEF canVars, irqVars, queueVars, mainVarsOff, On!hwVars, On!isrVars, On!ringVars,
            On!mainVars, On!ctlVars
<1>1. UNCHANGED <<idsOn, ctlOn>>
  <2>1. UNCHANGED <<idsCounts, controlCounts, at>>
    BY DEF IrqOff, IrqEntry, IrqOverrun, IrqNothing, IrqFrame
  <2> QED
    BY <2>1, IdsSame, CtlSame
<1>2. CASE IrqEntry
  <2>1. rxOn' = [rxOn EXCEPT !["irq"] = @ + 1]
    BY <1>2 DEF IrqEntry, rxOn, queueCounts, arrivalCounts
  <2>2. On!IsrEnter
    BY <1>1, <1>2, <2>1 DEF IrqEntry, On!IsrEnter
  <2> QED
    BY <2>2 DEF On!Isr
<1>3. CASE IrqOverrun
  <2>1. rxOn' = [rxOn EXCEPT !["overrun"] = @ + 1]
    BY <1>3 DEF IrqOverrun, rxOn, queueCounts, arrivalCounts
  <2>2. On!IsrClearOverrun
    BY <1>1, <1>3, <2>1 DEF IrqOverrun, On!IsrClearOverrun
  <2> QED
    BY <2>2 DEF On!Isr
<1>4. CASE IrqNothing
  <2>1. rxOn' = rxOn
    BY <1>4, RxSame DEF IrqNothing
  <2>2. On!IsrNoMailbox
    BY <1>1, <1>4, <2>1 DEF IrqNothing, On!IsrNoMailbox
  <2> QED
    BY <2>2 DEF On!Isr
<1>5. CASE IrqFrame
  <2>1. /\ On!TakeMailbox
        /\ UNCHANGED <<g_irq_count, g_hw_overrun_count>>
    BY <1>1, <1>5 DEF IrqFrame, On!TakeMailbox
  <2>2. On!Stamped(rxOn) = [rxOn EXCEPT !["hwRx"] = g_hw_rx_count',
                               !["firstTick"] = g_first_rx_tick', !["lastTick"] = g_last_rx_tick']
    <3>1. /\ rxOn["hwRx"] = g_hw_rx_count /\ rxOn["firstTick"] = g_first_rx_tick
          /\ rxOn["lastTick"] = g_last_rx_tick /\ ctlOn["tick"] = g_control_tick_count
      BY DEF rxOn, ctlOn
    <3>2. /\ g_hw_rx_count' = g_hw_rx_count + 1
          /\ g_first_rx_tick' = IF g_hw_rx_count = 0 THEN g_control_tick_count ELSE g_first_rx_tick
          /\ g_last_rx_tick' = g_control_tick_count
      BY <1>5 DEF IrqFrame, StampArrival, TypedOff
    <3> QED
      BY <3>1, <3>2 DEF On!Stamped
  <2>3. /\ g_q_head \in Slot /\ g_q_tail \in Slot
        /\ On!NextSlot(g_q_head) = After(g_q_head)
        /\ On!queue_depth(After(g_q_head), g_q_tail) = QueueDepth(After(g_q_head), g_q_tail)
        /\ On!Whole(Head(FIFO0)) = Entry(Head(FIFO0))
    BY RingArithmetic DEF TypedOff, On!Whole, On!Field, Entry, Words
  <2>4. CASE After(g_q_head) # g_q_tail
    <3>1. /\ g_rx_queue' = [g_rx_queue EXCEPT ![g_q_head] = Entry(Head(FIFO0))]
          /\ g_q_head' = After(g_q_head)
          /\ g_queue_push_count' = g_queue_push_count + 1
          /\ g_queue_max_depth' =
                On!AtLeast(On!queue_depth(After(g_q_head), g_q_tail), g_queue_max_depth)
          /\ g_queue_overflow_count' = g_queue_overflow_count
      BY <1>5, <2>3, <2>4 DEF IrqFrame, PushOrRefuse, On!AtLeast
    <3>2. rxOn' = [On!Stamped(rxOn) EXCEPT !["push"] = @ + 1,
                     !["maxDepth"] = On!AtLeast(On!queue_depth(On!NextSlot(g_q_head), g_q_tail), @)]
      BY <2>1, <2>2, <2>3, <3>1 DEF rxOn
    <3>3. On!IsrEnqueue
      BY <2>1, <2>3, <2>4, <3>1, <3>2 DEF On!IsrEnqueue
    <3> QED
      BY <3>3 DEF On!Isr
  <2>5. CASE After(g_q_head) = g_q_tail
    <3>1. /\ UNCHANGED <<g_rx_queue, g_q_head, g_queue_push_count, g_queue_max_depth>>
          /\ g_queue_overflow_count' = g_queue_overflow_count + 1
      BY <1>5, <2>5 DEF IrqFrame, PushOrRefuse
    <3>2. rxOn' = [On!Stamped(rxOn) EXCEPT !["overflow"] = @ + 1]
      BY <2>1, <2>2, <3>1 DEF rxOn
    <3>3. On!IsrOverflow
      BY <2>1, <2>3, <2>5, <3>1, <3>2 DEF On!IsrOverflow
    <3> QED
      BY <3>3 DEF On!Isr
  <2> QED
    BY <2>4, <2>5
<1> QED
  BY <1>2, <1>3, <1>4, <1>5 DEF IrqOff

(* The periodic interrupt.                                                 *)
LEMMA TickOn ==
    ASSUME TypedOff, Tick
    PROVE  On!SysTick_Handler
<1>1. UNCHANGED <<rxOn, idsOn>>
  BY RxSame, IdsSame DEF Tick, mainVarsOff
<1>2. /\ ctlOn["release"] = g_control_release_count /\ ctlOn["complete"] = g_control_complete_count
      /\ ctlOn["tick"] = g_control_tick_count /\ ctlOn["miss"] = g_control_deadline_miss_count
      /\ ctlOn["maxBacklog"] = g_control_max_backlog
  BY DEF ctlOn
<1> DEFINE backlog == Minus(Plus1(g_control_release_count), g_control_complete_count)
<1>3. /\ On!Inc(g_control_release_count) = Plus1(g_control_release_count)
      /\ On!Inc(g_control_tick_count) = Plus1(g_control_tick_count)
      /\ On!Inc(g_control_deadline_miss_count) = Plus1(g_control_deadline_miss_count)
      /\ On!Diff(On!Inc(g_control_release_count), g_control_complete_count) = backlog
  BY ControlArithmetic DEF TypedOff
<1>4. /\ g_control_tick_count' = Plus1(g_control_tick_count)
      /\ g_control_release_count' = Plus1(g_control_release_count)
      /\ g_control_complete_count' = g_control_complete_count
      /\ g_control_deadline_miss_count' =
            IF backlog > 1 THEN Plus1(g_control_deadline_miss_count)
            ELSE g_control_deadline_miss_count
      /\ g_control_max_backlog' = On!AtLeast(backlog, g_control_max_backlog)
  BY DEF Tick, On!AtLeast
<1> HIDE DEF backlog
<1>5. ctlOn' = [ctlOn EXCEPT
                  !["tick"] = On!Inc(@), !["release"] = On!Inc(@),
                  !["miss"] = IF backlog > 1 THEN On!Inc(@) ELSE @,
                  !["maxBacklog"] = On!AtLeast(backlog, @)]
  BY <1>3, <1>4 DEF ctlOn
<1> QED
  BY <1>1, <1>2, <1>3, <1>5 DEF Tick, On!SysTick_Handler, canVars, irqVars, queueVars,
     mainVarsOff, On!hwVars, On!isrVars, On!ringVars, On!mainVars

(* main.  The head of the loop and the test of the queue are one step with *)
(* two outcomes here, and the same outcomes there.                         *)
LEMMA MainOn ==
    ASSUME TypedOff, MainOff
    PROVE  On!Foreground
<1>1. /\ irq = "idle" /\ rxOn' = rxOn
      /\ UNCHANGED <<On!hwVars, On!isrVars, g_rx_queue, g_q_head, interrupts>>
  BY RxSame DEF MainOff, canVars, irqVars, queueVars, On!hwVars, On!isrVars
<1>2. UNCHANGED releaseCounts
  BY DEF MainOff
<1>3. /\ ctlOn["release"] = g_control_release_count
      /\ ctlOn["complete"] = g_control_complete_count
  BY DEF ctlOn
<1>4. g_control_complete_count' = g_control_complete_count => ctlOn' = ctlOn
  BY <1>2, CtlSame DEF controlCounts
<1>5. SUFFICES \/ On!SystickInit \/ On!ControlDue \/ On!run_control_workload \/ On!ControlIdle
               \/ On!QueueEmpty \/ On!QueueReady \/ On!CopyField \/ On!ReleaseSlot
               \/ On!DecodeStandard \/ On!DecodeExtended \/ On!Predict \/ On!Finish
  BY <1>1 DEF On!Foreground
<1>6. CASE Started
  <2>1. UNCHANGED <<idsOn, ctlOn>>
    BY <1>4, <1>6, IdsSame DEF Started
  <2> QED
    BY <1>6, <2>1 DEF Started, On!SystickInit
<1>7. CASE LoopHead
  <2>1. UNCHANGED <<idsOn, ctlOn>>
    BY <1>4, <1>7, IdsSame DEF LoopHead
  <2> QED
    BY <1>3, <1>7, <2>1 DEF LoopHead, On!ControlDue, On!ControlIdle
<1>8. CASE ControlWork
  <2>1. idsOn' = idsOn
    BY <1>8, IdsSame DEF ControlWork
  <2>2. On!Inc(g_control_complete_count) = Plus1(g_control_complete_count)
    BY ControlArithmetic DEF TypedOff
  <2>3. ctlOn' = [ctlOn EXCEPT !["complete"] = On!Inc(@)]
    BY <1>2, <1>8, <2>2 DEF ControlWork, releaseCounts, ctlOn
  <2> QED
    BY <1>8, <2>1, <2>3 DEF ControlWork, On!run_control_workload
<1>9. CASE QueueTest
  <2>1. UNCHANGED <<idsOn, ctlOn>>
    BY <1>4, <1>9, IdsSame DEF QueueTest
  <2> QED
    BY <1>9, <2>1 DEF QueueTest, On!QueueEmpty, On!QueueReady
<1>10. CASE CopyWord
  <2>1. UNCHANGED <<idsOn, ctlOn>>
    BY <1>4, <1>10, IdsSame DEF CopyWord
  <2> QED
    BY <1>10, <2>1 DEF CopyWord, On!CopyField
<1>11. CASE FreeSlot
  <2>1. UNCHANGED <<idsOn, ctlOn>>
    BY <1>4, <1>11, IdsSame DEF FreeSlot
  <2>2. On!NextSlot(g_q_tail) = After(g_q_tail)
    BY RingArithmetic DEF TypedOff
  <2> QED
    BY <1>11, <2>1, <2>2 DEF FreeSlot, On!ReleaseSlot
<1>12. CASE Features
  <2>1. ctlOn' = ctlOn
    BY <1>4, <1>12 DEF Features
  <2>2. CASE local[1] \in ExtFrames
    <3>1. idsOn' = [idsOn EXCEPT !["featureError"] = @ + 1]
      BY <1>12, <2>2 DEF Features, idsOn, Verdicts
    <3> QED
      BY <1>12, <2>1, <2>2, <3>1 DEF Features, On!DecodeExtended
  <2>3. CASE local[1] \notin ExtFrames
    <3>1. Verdicts' = Verdicts
      BY <1>12, <2>3 DEF Features, Verdicts, TypedOff
    <3>2. idsOn' = [idsOn EXCEPT !["feature"] = @ + 1]
      BY <1>12, <2>3, <3>1 DEF Features, idsOn
    <3> QED
      BY <1>12, <2>1, <2>3, <3>2 DEF Features, On!DecodeStandard
  <2> QED
    BY <2>2, <2>3
<1>13. CASE PredictionOff
  <2>1. ctlOn' = ctlOn
    BY <1>4, <1>13 DEF PredictionOff
  <2>2. Verdicts' = Verdicts + 1
    BY <1>13 DEF PredictionOff, Verdicts, TypedOff, idsCounts
  <2>3. idsOn' = On!CountVerdict(idsOn, 0)
    <3>1. On!CountVerdict(idsOn, 0) =
             [idsOn EXCEPT !["calls"] = @ + 1, !["normal"] = @ + 1]
      <4>1. On!CountVerdict(idsOn, 0) =
               [idsOn EXCEPT !["calls"] = idsOn["calls"] + 1, !["normal"] = idsOn["normal"] + 1,
                             !["unknown"] = idsOn["unknown"], !["known"] = idsOn["known"]]
        BY DEF On!CountVerdict, idsOn
      <4> QED
        BY <4>1 DEF idsOn
    <3>2. UNCHANGED <<g_processed_count, g_feature_count, g_feature_error_count>>
      BY <1>13 DEF PredictionOff, idsCounts
    <3> QED
      BY <2>2, <3>1, <3>2 DEF idsOn
  <2> QED
    BY <1>13, <2>1, <2>3 DEF PredictionOff, On!Predict
<1>14. CASE Processed
  <2>1. ctlOn' = ctlOn
    BY <1>4, <1>14 DEF Processed
  <2>2. Verdicts' = Verdicts
    BY <1>14 DEF Processed, Verdicts
  <2>3. idsOn' = [idsOn EXCEPT !["processed"] = @ + 1]
    BY <1>14, <2>2 DEF Processed, idsOn
  <2> QED
    BY <1>14, <2>1, <2>3 DEF Processed, On!Finish
<1> QED
  BY <1>6, <1>7, <1>8, <1>9, <1>10, <1>11, <1>12, <1>13, <1>14 DEF MainOff

(* The comparison of the two firmwares is fair for every instance: each    *)
(* step of main_ids_off.c is a step of main.c whose verdict, if it has     *)
(* one, is normal, with the same effect on all but the verdict counters.   *)
THEOREM BaselineIsOn == SpecOff => OffIsOnWithoutVerdicts
<1>1. InitOff => On!Init
  <2> SUFFICES ASSUME InitOff PROVE On!Init
    OBVIOUS
  <2>1. rxOn = [c \in On!RxCounters |-> 0]
    BY DEF InitOff, rxOn, On!RxCounters
  <2>2. idsOn = [c \in On!IdsCounters |-> 0]
    BY DEF InitOff, idsOn, Verdicts, On!IdsCounters
  <2>3. ctlOn = [c \in On!CtlCounters |-> 0]
    BY DEF InitOff, ctlOn, On!CtlCounters
  <2> QED
    BY <2>1, <2>2, <2>3 DEF InitOff, On!Init, On!Slot, On!Whole, On!Field, Entry, Words
<1>2. TypedOff /\ [NextOff]_varsOff => [On!Next]_(On!vars)
  <2> SUFFICES ASSUME TypedOff, [NextOff]_varsOff
               PROVE  On!Next \/ UNCHANGED On!vars
    OBVIOUS
  <2>1. CASE UNCHANGED varsOff
    <3>1. UNCHANGED <<rxOn, idsOn, ctlOn>>
      BY <2>1, RxSame, IdsSame, CtlSame DEF varsOff, mainVarsOff
    <3> QED
      BY <2>1, <3>1 DEF varsOff, canVars, irqVars, queueVars, mainVarsOff, On!vars, On!hwVars,
         On!isrVars, On!ringVars, On!mainVars, On!ctlVars
  <2> QED
    BY <2>1, ControllerOn, IrqOn, TickOn, MainOn DEF NextOff, On!Next
<1> QED
  BY <1>1, <1>2, TypedInvariant, PTL DEF SpecOff, OffIsOnWithoutVerdicts, On!Spec
=============================================================================
