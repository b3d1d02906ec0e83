----------------------------- MODULE F6Firmware -----------------------------
(***************************************************************************)
(* The F6 intrusion-detection firmware, src/models_c/f6_v2/main.c: the     *)
(* bxCAN receive FIFO (external hardware), the CAN receive interrupt, the  *)
(* periodic SysTick interrupt and the foreground loop that runs control    *)
(* jobs and the IDS.                                                       *)
(*                                                                         *)
(* Both interrupts have the reset priority, so neither preempts the other; *)
(* each preempts the foreground between any two of its memory accesses.    *)
(* The CAN controller goes on receiving while the handler runs, so the     *)
(* handler is split where it reads and writes the controller's registers.  *)
(*                                                                         *)
(* A frame is known by its arrival number; a slot keeps, per field, the    *)
(* number of the frame the field came from, so a mixed slot is visible.    *)
(***************************************************************************)
EXTENDS F6Constants

CONSTANT Codes   \* results can_ids_predict may return

ASSUME CodesAssumption == Codes \subseteq 0 .. 5

VARIABLES
    sent,      \* frames put on the bus so far
    fifo,      \* FIFO0: numbers of the frames held, oldest first
    fovr,      \* RF0R.FOVR0: a frame met a full FIFO0
    lost,      \* frames the full FIFO0 lost (not visible to the program)
    latched,   \* the interrupt will be taken once more with nothing to read
    isr,       \* where CAN1_RX0_IRQHandler is
    fmp,       \* its copy of RF0R.FMP0
    slots,     \* g_rx_queue
    head,      \* g_q_head
    tail,      \* g_q_tail
    pc,        \* where main is
    frame,     \* main's local copy of a slot
    copied,    \* how many fields of it main has copied
    last,      \* g_last_processed_*
    rx,        \* receive counters
    ids,       \* foreground counters
    ctl,       \* control-task counters
    ticks      \* SysTick interrupts so far; bounds the model

hwVars == <<sent, fifo, fovr, lost>>
isrVars == <<latched, isr, fmp>>
ringVars == <<slots, head, tail>>
mainVars == <<pc, frame, copied, last>>
ctlVars == <<ctl, ticks>>
vars == <<hwVars, isrVars, ringVars, mainVars, rx, ids, ctlVars>>

Slot == 0 .. RingSize - 1

(* The words of can_frame_t: 1 = id, 2 = dlc, 3 = low, 4 = high. *)
Field == 1 .. 4

(* Frame n as it stands in memory; number 0 is the zeroed array. *)
Whole(n) == [f \in Field |-> n]
FrameNo == 0 .. MaxFrames

(* (i + 1) & RX_QUEUE_MASK: the mask is a modulus, 16 being a power of 2. *)
NextSlot(i) == IF i + 1 = RingSize THEN 0 ELSE i + 1

(* (h - t) & RX_QUEUE_MASK *)
queue_depth(h, t) == IF h >= t THEN h - t ELSE h + RingSize - t

(* ++ and - on the uint32_t counters of the control task. *)
Counter == 0 .. CounterMod - 1
Inc(n) == IF n + 1 = CounterMod THEN 0 ELSE n + 1
Diff(m, n) == IF m >= n THEN m - n ELSE m + CounterMod - n

RxCounters == {"irq", "hwRx", "overrun", "push", "overflow", "maxDepth",
               "firstTick", "lastTick"}
IdsCounters == {"processed", "feature", "featureError", "calls", "normal",
                "known", "unknown"}
CtlCounters == {"tick", "release", "complete", "miss", "maxBacklog"}

AtLeast(m, n) == IF m > n THEN m ELSE n

-----------------------------------------------------------------------------
Init ==
    /\ sent = 0 /\ fifo = <<>> /\ fovr = FALSE /\ lost = 0
    /\ latched = FALSE /\ isr = "idle" /\ fmp = 0
    /\ slots = [i \in Slot |-> Whole(0)] /\ head = 0 /\ tail = 0
    /\ pc = "boot" /\ frame = Whole(0) /\ copied = 0 /\ last = Whole(0)
    /\ rx = [c \in RxCounters |-> 0]
    /\ ids = [c \in IdsCounters |-> 0]
    /\ ctl = [c \in CtlCounters |-> 0]
    /\ ticks = 0

-----------------------------------------------------------------------------
(* The CAN controller.                                                     *)

MailboxStore ==
    /\ sent < MaxFrames
    /\ Len(fifo) < FifoDepth
    /\ sent' = sent + 1
    /\ fifo' = Append(fifo, sent + 1)
    /\ UNCHANGED <<fovr, lost, isrVars, ringVars, mainVars, rx, ids, ctlVars>>

(* A full FIFO0 drops the new frame or, unlocked, its youngest one. *)
MailboxOverrun ==
    /\ sent < MaxFrames
    /\ Len(fifo) = FifoDepth
    /\ sent' = sent + 1
    /\ fovr' = TRUE
    /\ lost' = lost + 1
    /\ fifo' \in {fifo, [fifo EXCEPT ![FifoDepth] = sent + 1]}
    /\ UNCHANGED <<isrVars, ringVars, mainVars, rx, ids, ctlVars>>

-----------------------------------------------------------------------------
(* CAN1_RX0_IRQHandler: one entry handles at most one mailbox.             *)

IsrEnter ==
    /\ isr = "idle"
    /\ fifo # <<>> \/ latched
    /\ latched' = FALSE
    /\ fmp' = Len(fifo)
    /\ isr' = IF fovr THEN "clear" ELSE "receive"
    /\ rx' = [rx EXCEPT !["irq"] = @ + 1]
    /\ UNCHANGED <<hwVars, ringVars, mainVars, ids, ctlVars>>

(* Fault: the flag is cleared without being counted. *)
IsrClearUncounted ==
    /\ isr = "clear"
    /\ isr' = "receive"
    /\ fovr' = FALSE
    /\ UNCHANGED <<sent, fifo, lost, latched, fmp, ringVars, mainVars, rx, ids, ctlVars>>

IsrClearOverrun ==
    /\ isr = "clear"
    /\ isr' = "receive"
    /\ rx' = [rx EXCEPT !["overrun"] = @ + 1]
    /\ fovr' = FALSE
    /\ UNCHANGED <<sent, fifo, lost, latched, fmp, ringVars, mainVars, ids, ctlVars>>

IsrNoMailbox ==
    /\ isr = "receive"
    /\ fmp = 0
    /\ isr' = "idle"
    /\ UNCHANGED <<hwVars, latched, fmp, ringVars, mainVars, rx, ids, ctlVars>>

(* The mailbox is counted, time-stamped and released whatever becomes of   *)
(* the frame.  The release may reach the controller after the handler has  *)
(* returned, and then the interrupt is taken again for an empty FIFO0.     *)
TakeMailbox ==
    /\ isr = "receive"
    /\ fmp # 0
    /\ isr' = "idle"
    /\ fifo' = Tail(fifo)
    /\ latched' \in BOOLEAN
    /\ latched' => fifo' = <<>>
    /\ UNCHANGED <<sent, fovr, lost, fmp, mainVars, ids, ctlVars, tail>>

(* Fault: the first arrival is recognised before the counter is advanced. *)
StampedLate(r) ==
    [r EXCEPT !["hwRx"] = @ + 1,
              !["firstTick"] = IF r["hwRx"] = 1 THEN ctl["tick"] ELSE @,
              !["lastTick"] = ctl["tick"]]

Stamped(r) ==
    [r EXCEPT !["hwRx"] = @ + 1,
              !["firstTick"] = IF r["hwRx"] = 0 THEN ctl["tick"] ELSE @,
              !["lastTick"] = ctl["tick"]]

(* Fault: the frame is written where head is about to point. *)
IsrEnqueueAhead ==
    /\ TakeMailbox
    /\ NextSlot(head) # tail
    /\ slots' = [slots EXCEPT ![NextSlot(head)] = Whole(Head(fifo))]
    /\ head' = NextSlot(head)
    /\ rx' = [Stamped(rx) EXCEPT
                !["push"] = @ + 1,
                !["maxDepth"] = AtLeast(queue_depth(NextSlot(head), tail), @)]

IsrEnqueue ==
    /\ TakeMailbox
    /\ NextSlot(head) # tail
    /\ slots' = [slots EXCEPT ![head] = Whole(Head(fifo))]
    /\ head' = NextSlot(head)
    /\ rx' = [Stamped(rx) EXCEPT
                !["push"] = @ + 1,
                !["maxDepth"] = AtLeast(queue_depth(NextSlot(head), tail), @)]

(* Fault: the refused frame is not counted. *)
IsrOverflowUncounted ==
    /\ TakeMailbox
    /\ NextSlot(head) = tail
    /\ rx' = Stamped(rx)
    /\ UNCHANGED <<slots, head>>

IsrOverflow ==
    /\ TakeMailbox
    /\ NextSlot(head) = tail
    /\ rx' = [Stamped(rx) EXCEPT !["overflow"] = @ + 1]
    /\ UNCHANGED <<slots, head>>

Isr ==
    \/ IsrEnter
    \/ IsrClearOverrun
    \/ IsrNoMailbox
    \/ IsrEnqueue
    \/ IsrOverflow

-----------------------------------------------------------------------------
(* SysTick_Handler.  systick_init runs after can1_init, so frames may      *)
(* already be received while no tick can come.                             *)

(* Fault: the backlog is taken before the new release is counted. *)
SysTickStaleBacklog ==
    /\ isr = "idle"
    /\ pc # "boot"
    /\ ticks < MaxTicks
    /\ ticks' = ticks + 1
    /\ LET backlog == Diff(ctl["release"], ctl["complete"])
       IN  ctl' = [ctl EXCEPT
                     !["tick"] = Inc(@),
                     !["release"] = Inc(@),
                     !["miss"] = IF backlog > 1 THEN Inc(@) ELSE @,
                     !["maxBacklog"] = AtLeast(backlog, @)]
    /\ UNCHANGED <<hwVars, isrVars, ringVars, mainVars, rx, ids>>

SysTick_Handler ==
    /\ isr = "idle"
    /\ pc # "boot"
    /\ ticks < MaxTicks
    /\ ticks' = ticks + 1
    /\ LET backlog == Diff(Inc(ctl["release"]), ctl["complete"])
       IN  ctl' = [ctl EXCEPT
                     !["tick"] = Inc(@),
                     !["release"] = Inc(@),
                     !["miss"] = IF backlog > 1 THEN Inc(@) ELSE @,
                     !["maxBacklog"] = AtLeast(backlog, @)]
    /\ UNCHANGED <<hwVars, isrVars, ringVars, mainVars, rx, ids>>

-----------------------------------------------------------------------------
(* main.                                                                   *)

SystickInit ==
    /\ pc = "boot"
    /\ pc' = "loop"
    /\ UNCHANGED <<frame, copied, last, tail, ids, ctl>>

ControlDue ==
    /\ pc = "loop"
    /\ ctl["complete"] < ctl["release"]
    /\ pc' = "work"
    /\ UNCHANGED <<frame, copied, last, tail, ids, ctl>>

(* Fault: the job is run and its completion forgotten. *)
WorkloadNotCompleted ==
    /\ pc = "work"
    /\ pc' = "loop"
    /\ UNCHANGED <<frame, copied, last, tail, ids, ctl>>

run_control_workload ==
    /\ pc = "work"
    /\ pc' = "loop"
    /\ ctl' = [ctl EXCEPT !["complete"] = Inc(@)]
    /\ UNCHANGED <<frame, copied, last, tail, ids>>

(* Fault: the queue is looked at whatever the control task waits for. *)
QueueFirst ==
    /\ pc = "loop"
    /\ pc' = "queue"
    /\ UNCHANGED <<frame, copied, last, tail, ids, ctl>>

ControlIdle ==
    /\ pc = "loop"
    /\ ~(ctl["complete"] < ctl["release"])
    /\ pc' = "queue"
    /\ UNCHANGED <<frame, copied, last, tail, ids, ctl>>

QueueEmpty ==
    /\ pc = "queue"
    /\ tail = head
    /\ pc' = "loop"
    /\ UNCHANGED <<frame, copied, last, tail, ids, ctl>>

(* Fault: the slot is given back before it is copied. *)
QueueReadyReleasing ==
    /\ pc = "queue"
    /\ tail # head
    /\ pc' = "copy"
    /\ copied' = 0
    /\ tail' = NextSlot(tail)
    /\ UNCHANGED <<frame, last, ids, ctl>>

QueueReady ==
    /\ pc = "queue"
    /\ tail # head
    /\ pc' = "copy"
    /\ copied' = 0
    /\ UNCHANGED <<frame, last, tail, ids, ctl>>

CopyField ==
    /\ pc = "copy"
    /\ copied < 4
    /\ copied' = copied + 1
    /\ frame' = [frame EXCEPT ![copied + 1] = slots[tail][copied + 1]]
    /\ UNCHANGED <<pc, last, tail, ids, ctl>>

ReleaseSlot ==
    /\ pc = "copy"
    /\ copied = 4
    /\ pc' = "decode"
    /\ tail' = NextSlot(tail)
    /\ last' = frame
    /\ UNCHANGED <<frame, copied, ids, ctl>>

(* The IDE bit is in the first word; an 11-bit ID is always below 2048, so *)
(* feature_v2_process succeeds on every standard frame.                    *)
DecodeStandard ==
    /\ pc = "decode"
    /\ frame[1] \notin ExtFrames
    /\ pc' = "predict"
    /\ ids' = [ids EXCEPT !["feature"] = @ + 1]
    /\ UNCHANGED <<frame, copied, last, tail, ctl>>

DecodeExtended ==
    /\ pc = "decode"
    /\ frame[1] \in ExtFrames
    /\ pc' = "finish"
    /\ ids' = [ids EXCEPT !["featureError"] = @ + 1]
    /\ UNCHANGED <<frame, copied, last, tail, ctl>>

(* Fault: whatever is not normal counts as a known attack, 5 included. *)
CountVerdictTwice(g, code) ==
    [g EXCEPT !["calls"] = @ + 1,
              !["normal"] = IF code = 0 THEN @ + 1 ELSE @,
              !["unknown"] = IF code = 5 THEN @ + 1 ELSE @,
              !["known"] = IF code = 0 THEN @ ELSE @ + 1]

CountVerdict(g, code) ==
    [g EXCEPT !["calls"] = @ + 1,
              !["normal"] = IF code = 0 THEN @ + 1 ELSE @,
              !["unknown"] = IF code = 5 THEN @ + 1 ELSE @,
              !["known"] = IF code \in {0, 5} THEN @ ELSE @ + 1]

Predict ==
    /\ pc = "predict"
    /\ pc' = "finish"
    /\ \E code \in Codes : ids' = CountVerdict(ids, code)
    /\ UNCHANGED <<frame, copied, last, tail, ctl>>

Finish ==
    /\ pc = "finish"
    /\ pc' = "loop"
    /\ ids' = [ids EXCEPT !["processed"] = @ + 1]
    /\ UNCHANGED <<frame, copied, last, tail, ctl>>

Foreground ==
    /\ isr = "idle"
    /\ UNCHANGED <<hwVars, isrVars, slots, head, rx, ticks>>
    /\ \/ SystickInit
       \/ ControlDue
       \/ run_control_workload
       \/ ControlIdle
       \/ QueueEmpty
       \/ QueueReady
       \/ CopyField
       \/ ReleaseSlot
       \/ DecodeStandard
       \/ DecodeExtended
       \/ Predict
       \/ Finish

-----------------------------------------------------------------------------
Next ==
    \/ MailboxStore
    \/ MailboxOverrun
    \/ Isr
    \/ SysTick_Handler
    \/ Foreground

Spec == Init /\ [][Next]_vars

(* The processor never stops: interrupts are served and main polls. *)
FairSpec == Spec /\ WF_vars(Isr) /\ WF_vars(Foreground)
-----------------------------------------------------------------------------
(* Properties.                                                             *)

(* Every variable keeps its range: indices stay inside the ring, the FIFO  *)
(* within its mailboxes, the control counters below their modulus.         *)
TypeOK ==
    /\ sent \in 0 .. MaxFrames
    /\ fifo \in Seq(1 .. MaxFrames) /\ Len(fifo) <= FifoDepth
    /\ fovr \in BOOLEAN
    /\ lost \in Nat
    /\ latched \in BOOLEAN
    /\ isr \in {"idle", "clear", "receive"}
    /\ fmp \in 0 .. FifoDepth
    /\ slots \in [Slot -> [Field -> FrameNo]]
    /\ head \in Slot
    /\ tail \in Slot
    /\ pc \in {"boot", "loop", "work", "queue", "copy", "decode", "predict",
               "finish"}
    /\ frame \in [Field -> FrameNo]
    /\ copied \in 0 .. 4
    /\ last \in [Field -> FrameNo]
    /\ rx \in [RxCounters -> Nat]
    /\ ids \in [IdsCounters -> Nat]
    /\ ctl \in [CtlCounters -> Counter]
    /\ ticks \in 0 .. MaxTicks

depth == queue_depth(head, tail)

(* The frame main has taken out of the ring and not yet counted.           *)
InFlight == IF pc \in {"decode", "predict", "finish"} THEN 1 ELSE 0

(* No frame disappears without a trace: whatever was put on the bus waits  *)
(* in FIFO0 or the ring, is being processed, was processed, or is in       *)
(* g_queue_overflow_count or among the frames the controller overran.  The *)
(* counters involved are written by the handler, by main and by the        *)
(* controller, in any order.                                               *)
EveryFrameAccounted ==
    /\ sent = rx["hwRx"] + Len(fifo) + lost
    /\ rx["hwRx"] = rx["push"] + rx["overflow"]
    /\ rx["push"] = ids["processed"] + InFlight + depth

(* A frame main has finished was counted once, as a feature vector with    *)
(* exactly one verdict or as a feature error.                              *)
EveryVerdictCounted ==
    /\ ids["feature"] + ids["featureError"]
         = ids["processed"] + (IF pc \in {"predict", "finish"} THEN 1 ELSE 0)
    /\ ids["calls"] = ids["feature"] - (IF pc = "predict" THEN 1 ELSE 0)
    /\ ids["calls"] = ids["normal"] + ids["known"] + ids["unknown"]

(* A loss in the controller never goes unnoticed: several may be merged in *)
(* one count, but the flag or the counter shows there was one, although    *)
(* the handler clears the flag after it read it and frames arrive between. *)
OverrunNoticed ==
    /\ lost > 0 => rx["overrun"] > 0 \/ fovr
    /\ rx["overrun"] + (IF fovr THEN 1 ELSE 0) <= lost

(* g_queue_max_depth is a high-water mark, never above the usable          *)
(* capacity, and the ring overflowed only if it had been completely full.  *)
HighWater ==
    /\ depth <= rx["maxDepth"]
    /\ rx["maxDepth"] < RingSize
    /\ rx["overflow"] > 0 => rx["maxDepth"] = RingSize - 1

(* While main copies a slot the handler does not touch it, however many    *)
(* frames arrive between two fields.                                       *)
SlotStableDuringCopy ==
    [][pc = "copy" => slots'[tail] = slots[tail]]_vars

(* What main holds when it gives the slot back is one frame, the oldest    *)
(* one in the ring, never fields of two.                                   *)
NoTornFrame ==
    \A f \in 1 .. copied : pc = "copy" => frame[f] = slots[tail][f]

(* The ring, the handler and main together are a bounded FIFO that refuses *)
(* a frame only when all RingSize - 1 usable entries are taken.            *)
Position(i) == IF tail + i <= RingSize THEN tail + i - 1 ELSE tail + i - 1 - RingSize
RingContents == [i \in 1 .. depth |-> slots[Position(i)]]

Fifo == INSTANCE LossyFifo
    WITH Capacity <- RingSize - 1,
         Value <- {Whole(n) : n \in 1 .. MaxFrames},
         NoValue <- Whole(0),
         queue <- RingContents,
         out <- last,
         refused <- rx["overflow"]

ImplementsFifo == Fifo!Spec

(* main.c:373 "Periodic ECU-control work has priority over foreground IDS  *)
(* processing": from the head of the loop, with a job released and not     *)
(* completed, main goes nowhere but into the job.                          *)
ControlPriority ==
    [][pc = "loop" /\ ctl["release"] # ctl["complete"] => pc' \in {"loop", "work"}]_vars

(* A control job completes only if it was released, and the deadline       *)
(* statistics agree: a miss is on record exactly when two jobs were once   *)
(* outstanding together, and no backlog exceeds the recorded maximum.      *)
DeadlineStatistics ==
    /\ pc = "work" => ctl["complete"] < ctl["release"]
    /\ ctl["complete"] <= ctl["release"]
    /\ ctl["release"] - ctl["complete"] <= ctl["maxBacklog"]
    /\ ctl["miss"] = 0 <=> ctl["maxBacklog"] <= 1

(* The arrival span the timestamps give is one that happened.              *)
ArrivalSpan ==
    /\ rx["firstTick"] <= rx["lastTick"]
    /\ rx["lastTick"] <= ctl["tick"]
    /\ rx["hwRx"] = 1 => rx["firstTick"] = rx["lastTick"]

(* All frames on the bus are settled, processed or lost on record, again   *)
(* and again, as frames and ticks are bounded: a tick cannot starve the    *)
(* queue for ever, nor the queue be forgotten after a missed interrupt.    *)
EveryFrameSettled == []<>(ids["processed"] + rx["overflow"] + lost = sent)
=============================================================================
