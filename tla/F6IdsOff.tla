------------------------------ MODULE F6IdsOff ------------------------------
(***************************************************************************)
(* The baseline of the A/B comparison, src/models_c/f6_v2/main_ids_off.c:  *)
(* a second program, written out in full, that is to differ from main.c    *)
(* in the inference alone.  It is translated here from its own text, with  *)
(* a variable for each of its variables, and compared with F6Firmware.     *)
(***************************************************************************)
EXTENDS F6Constants

VARIABLES
    arrived,   \* frames put on the bus so far; a frame is known by its number
    FIFO0,     \* the controller's mailboxes, oldest first
    FOVR0,     \* its overrun flag
    dropped,   \* frames it lost
    again,     \* the interrupt will be taken once more with nothing to read
    irq,       \* where CAN1_RX0_IRQHandler is
    rf0r,      \* the pending mailboxes in its copy of CAN_RF0R
    g_rx_queue, g_q_head, g_q_tail,
    g_irq_count, g_hw_rx_count, g_hw_overrun_count,
    g_queue_push_count, g_queue_overflow_count, g_queue_max_depth,
    g_first_rx_tick, g_last_rx_tick,
    at,        \* where main is
    local,     \* its variable frame, a number for each word
    words,     \* how many words of it are copied
    g_last_processed,
    g_processed_count, g_feature_count, g_feature_error_count,
    g_control_tick_count, g_control_release_count, g_control_complete_count,
    g_control_deadline_miss_count, g_control_max_backlog,
    interrupts \* SysTick interrupts so far; bounds the model

canVars == <<arrived, FIFO0, FOVR0, dropped>>
irqVars == <<again, irq, rf0r>>
queueVars == <<g_rx_queue, g_q_head>>
queueCounts == <<g_queue_push_count, g_queue_overflow_count, g_queue_max_depth>>
arrivalCounts == <<g_hw_rx_count, g_first_rx_tick, g_last_rx_tick>>
rxCounts == <<g_irq_count, g_hw_overrun_count, queueCounts, arrivalCounts>>
mainVarsOff == <<at, local, words, g_last_processed, g_q_tail>>
idsCounts == <<g_processed_count, g_feature_count, g_feature_error_count>>
releaseCounts == <<g_control_tick_count, g_control_release_count,
                   g_control_deadline_miss_count, g_control_max_backlog>>
controlCounts == <<releaseCounts, g_control_complete_count>>
varsOff == <<canVars, irqVars, queueVars, rxCounts, mainVarsOff, idsCounts,
             controlCounts, interrupts>>

(* The words of can_frame_t, and what they hold of frame n. *)
Words == 1 .. 4
Entry(n) == [w \in Words |-> n]

(* (i + 1u) & RX_QUEUE_MASK, (head - tail) & RX_QUEUE_MASK, and ++ and -   *)
(* on the uint32_t counters of the control task.                           *)
After(i) == (i + 1) % RingSize
QueueDepth(h, t) == (h + RingSize - t) % RingSize
Plus1(n) == (n + 1) % CounterMod
Minus(m, n) == (m + CounterMod - n) % CounterMod

InitOff ==
    /\ arrived = 0 /\ FIFO0 = <<>> /\ FOVR0 = FALSE /\ dropped = 0
    /\ again = FALSE /\ irq = "idle" /\ rf0r = 0
    /\ g_rx_queue = [i \in 0 .. RingSize - 1 |-> Entry(0)] /\ g_q_head = 0 /\ g_q_tail = 0
    /\ g_irq_count = 0 /\ g_hw_rx_count = 0 /\ g_hw_overrun_count = 0
    /\ g_queue_push_count = 0 /\ g_queue_overflow_count = 0 /\ g_queue_max_depth = 0
    /\ g_first_rx_tick = 0 /\ g_last_rx_tick = 0
    /\ at = "boot" /\ local = Entry(0) /\ words = 0 /\ g_last_processed = Entry(0)
    /\ g_processed_count = 0 /\ g_feature_count = 0 /\ g_feature_error_count = 0
    /\ g_control_tick_count = 0 /\ g_control_release_count = 0
    /\ g_control_complete_count = 0
    /\ g_control_deadline_miss_count = 0 /\ g_control_max_backlog = 0
    /\ interrupts = 0

-----------------------------------------------------------------------------
(* The CAN controller: it stores a frame, or its FIFO0 is full and it      *)
(* loses that frame or its youngest one.                                   *)
Store ==
    /\ arrived < MaxFrames /\ Len(FIFO0) < FifoDepth
    /\ arrived' = arrived + 1
    /\ FIFO0' = Append(FIFO0, arrived + 1)
    /\ UNCHANGED <<FOVR0, dropped, irqVars, queueVars, rxCounts, mainVarsOff, idsCounts,
                   controlCounts, interrupts>>

Overrun ==
    /\ arrived < MaxFrames /\ Len(FIFO0) = FifoDepth
    /\ arrived' = arrived + 1
    /\ FIFO0' \in {FIFO0, [FIFO0 EXCEPT ![FifoDepth] = arrived + 1]}
    /\ FOVR0' = TRUE /\ dropped' = dropped + 1
    /\ UNCHANGED <<irqVars, queueVars, rxCounts, mainVarsOff, idsCounts, controlCounts,
                   interrupts>>

-----------------------------------------------------------------------------
(* CAN1_RX0_IRQHandler, cut at its accesses to CAN_RF0R.                   *)

IrqEntry ==
    /\ irq = "idle" /\ (FIFO0 # <<>> \/ again)
    /\ again' = FALSE
    /\ g_irq_count' = g_irq_count + 1
    /\ rf0r' = Len(FIFO0)
    /\ irq' = IF FOVR0 THEN "clear" ELSE "receive"
    /\ UNCHANGED <<canVars, queueVars, g_hw_overrun_count, queueCounts, arrivalCounts,
                   mainVarsOff, idsCounts, controlCounts, interrupts>>

IrqOverrun ==
    /\ irq = "clear" /\ irq' = "receive"
    /\ g_hw_overrun_count' = g_hw_overrun_count + 1
    /\ FOVR0' = FALSE
    /\ UNCHANGED <<arrived, FIFO0, dropped, again, rf0r, queueVars, g_irq_count, queueCounts,
                   arrivalCounts, mainVarsOff, idsCounts, controlCounts, interrupts>>

IrqNothing ==
    /\ irq = "receive" /\ rf0r = 0 /\ irq' = "idle"
    /\ UNCHANGED <<again, rf0r, canVars, queueVars, rxCounts, mainVarsOff, idsCounts,
                   controlCounts, interrupts>>

StampArrival ==
    /\ g_hw_rx_count' = g_hw_rx_count + 1
    /\ g_first_rx_tick' = IF g_hw_rx_count + 1 = 1 THEN g_control_tick_count ELSE g_first_rx_tick
    /\ g_last_rx_tick' = g_control_tick_count

(* Fault: the copy still has the handler of before the push counter. *)
PushUncounted(n) ==
    LET next == After(g_q_head) IN
    IF next # g_q_tail
    THEN /\ g_rx_queue' = [g_rx_queue EXCEPT ![g_q_head] = Entry(n)]
         /\ g_q_head' = next
         /\ UNCHANGED queueCounts
    ELSE /\ g_queue_overflow_count' = g_queue_overflow_count + 1
         /\ UNCHANGED <<g_rx_queue, g_q_head, g_queue_push_count, g_queue_max_depth>>

(* The slot is written and published, or the frame refused.                *)
PushOrRefuse(n) ==
    LET next == After(g_q_head)
        deep == QueueDepth(next, g_q_tail)
    IN IF next # g_q_tail
       THEN /\ g_rx_queue' = [g_rx_queue EXCEPT ![g_q_head] = Entry(n)]
            /\ g_q_head' = next
            /\ g_queue_push_count' = g_queue_push_count + 1
            /\ g_queue_max_depth' = IF deep > g_queue_max_depth THEN deep ELSE g_queue_max_depth
            /\ UNCHANGED g_queue_overflow_count
       ELSE /\ g_queue_overflow_count' = g_queue_overflow_count + 1
            /\ UNCHANGED <<g_rx_queue, g_q_head, g_queue_push_count, g_queue_max_depth>>

(* The release of the mailbox may reach the controller after the handler   *)
(* has returned, and then the interrupt is taken again for an empty FIFO0. *)
IrqFrame ==
    /\ irq = "receive" /\ rf0r # 0 /\ irq' = "idle"
    /\ StampArrival
    /\ PushOrRefuse(Head(FIFO0))
    /\ FIFO0' = Tail(FIFO0)
    /\ again' \in BOOLEAN /\ (again' => FIFO0' = <<>>)
    /\ UNCHANGED <<arrived, FOVR0, dropped, rf0r, g_irq_count, g_hw_overrun_count,
                   mainVarsOff, idsCounts, controlCounts, interrupts>>

(* SysTick_Handler. *)
Tick ==
    /\ irq = "idle" /\ at # "boot"
    /\ interrupts < MaxTicks /\ interrupts' = interrupts + 1
    /\ LET releases == Plus1(g_control_release_count)
           backlog == Minus(releases, g_control_complete_count)
       IN /\ g_control_tick_count' = Plus1(g_control_tick_count)
          /\ g_control_release_count' = releases
          /\ g_control_deadline_miss_count' =
                IF backlog > 1 THEN Plus1(g_control_deadline_miss_count)
                ELSE g_control_deadline_miss_count
          /\ g_control_max_backlog' =
                IF backlog > g_control_max_backlog THEN backlog ELSE g_control_max_backlog
    /\ UNCHANGED <<canVars, irqVars, queueVars, rxCounts, mainVarsOff, idsCounts,
                   g_control_complete_count>>

-----------------------------------------------------------------------------
(* main.                                                                   *)

Started ==
    /\ at = "boot" /\ at' = "loop"
    /\ UNCHANGED <<local, words, g_last_processed, g_q_tail, idsCounts, g_control_complete_count>>

LoopHead ==
    /\ at = "loop"
    /\ at' = IF g_control_complete_count < g_control_release_count THEN "work" ELSE "queue"
    /\ UNCHANGED <<local, words, g_last_processed, g_q_tail, idsCounts, g_control_complete_count>>

(* Fault: main goes on to the queue instead of continuing the loop. *)
ContinueForgotten ==
    /\ at = "work" /\ at' = "queue"
    /\ g_control_complete_count' = Plus1(g_control_complete_count)
    /\ UNCHANGED <<local, words, g_last_processed, g_q_tail, idsCounts>>

ControlWork ==
    /\ at = "work" /\ at' = "loop"
    /\ g_control_complete_count' = Plus1(g_control_complete_count)
    /\ UNCHANGED <<local, words, g_last_processed, g_q_tail, idsCounts>>

QueueTest ==
    /\ at = "queue"
    /\ IF g_q_tail # g_q_head
       THEN at' = "copy" /\ words' = 0
       ELSE at' = "loop" /\ UNCHANGED words
    /\ UNCHANGED <<local, g_last_processed, g_q_tail, idsCounts, g_control_complete_count>>

CopyWord ==
    /\ at = "copy" /\ words < 4
    /\ words' = words + 1
    /\ local' = [local EXCEPT ![words + 1] = g_rx_queue[g_q_tail][words + 1]]
    /\ UNCHANGED <<at, g_last_processed, g_q_tail, idsCounts, g_control_complete_count>>

(* Fault: the slot is given back before its last word is copied. *)
FreedEarly ==
    /\ at = "copy" /\ words >= 3 /\ at' = "decode"
    /\ g_q_tail' = After(g_q_tail)
    /\ g_last_processed' = local
    /\ UNCHANGED <<local, words, idsCounts, g_control_complete_count>>

FreeSlot ==
    /\ at = "copy" /\ words = 4 /\ at' = "decode"
    /\ g_q_tail' = After(g_q_tail)
    /\ g_last_processed' = local
    /\ UNCHANGED <<local, words, idsCounts, g_control_complete_count>>

(* The IDE bit is tested in the first word; feature_v2_process refuses no  *)
(* 11-bit identifier.                                                      *)
Features ==
    /\ at = "decode"
    /\ IF local[1] \in ExtFrames
       THEN /\ at' = "finish" /\ g_feature_error_count' = g_feature_error_count + 1
            /\ UNCHANGED g_feature_count
       ELSE /\ at' = "predict" /\ g_feature_count' = g_feature_count + 1
            /\ UNCHANGED g_feature_error_count
    /\ UNCHANGED <<local, words, g_last_processed, g_q_tail, g_processed_count,
                   g_control_complete_count>>

(* Fault: the frame is not counted as processed either. *)
PredictionSkipsRest ==
    /\ at = "predict" /\ at' = "loop"
    /\ UNCHANGED <<local, words, g_last_processed, g_q_tail, idsCounts, g_control_complete_count>>

(* The prediction is 0, and no verdict is counted.                         *)
PredictionOff ==
    /\ at = "predict" /\ at' = "finish"
    /\ UNCHANGED <<local, words, g_last_processed, g_q_tail, idsCounts, g_control_complete_count>>

Processed ==
    /\ at = "finish" /\ at' = "loop"
    /\ g_processed_count' = g_processed_count + 1
    /\ UNCHANGED <<local, words, g_last_processed, g_q_tail, g_feature_count,
                   g_feature_error_count, g_control_complete_count>>

MainOff ==
    /\ irq = "idle"
    /\ \/ Started \/ LoopHead \/ ControlWork \/ QueueTest \/ CopyWord \/ FreeSlot
       \/ Features \/ PredictionOff \/ Processed
    /\ UNCHANGED <<canVars, irqVars, queueVars, rxCounts, releaseCounts, interrupts>>

IrqOff == IrqEntry \/ IrqOverrun \/ IrqNothing \/ IrqFrame

NextOff == Store \/ Overrun \/ IrqOff \/ Tick \/ MainOff

SpecOff == InitOff /\ [][NextOff]_varsOff

-----------------------------------------------------------------------------
(* The counters as F6Firmware groups them.  The verdicts, which are not    *)
(* counted here, are all normal, one for each frame decoded.               *)
rxOn == [c \in {"irq", "hwRx", "overrun", "push", "overflow", "maxDepth", "firstTick",
                "lastTick"} |->
            CASE c = "irq" -> g_irq_count [] c = "hwRx" -> g_hw_rx_count
              [] c = "overrun" -> g_hw_overrun_count [] c = "push" -> g_queue_push_count
              [] c = "overflow" -> g_queue_overflow_count [] c = "maxDepth" -> g_queue_max_depth
              [] c = "firstTick" -> g_first_rx_tick [] OTHER -> g_last_rx_tick]

Verdicts == g_feature_count - (IF at = "predict" THEN 1 ELSE 0)

idsOn == [c \in {"processed", "feature", "featureError", "calls", "normal", "known", "unknown"} |->
            CASE c = "processed" -> g_processed_count [] c = "feature" -> g_feature_count
              [] c = "featureError" -> g_feature_error_count
              [] c \in {"calls", "normal"} -> Verdicts [] OTHER -> 0]

ctlOn == [c \in {"tick", "release", "complete", "miss", "maxBacklog"} |->
            CASE c = "tick" -> g_control_tick_count [] c = "release" -> g_control_release_count
              [] c = "complete" -> g_control_complete_count
              [] c = "miss" -> g_control_deadline_miss_count [] OTHER -> g_control_max_backlog]

On == INSTANCE F6Firmware
    WITH Codes <- {0},
         sent <- arrived, fifo <- FIFO0, fovr <- FOVR0, lost <- dropped,
         latched <- again, isr <- irq, fmp <- rf0r,
         slots <- g_rx_queue, head <- g_q_head, tail <- g_q_tail,
         pc <- at, frame <- local, copied <- words, last <- g_last_processed,
         rx <- rxOn, ids <- idsOn, ctl <- ctlOn, ticks <- interrupts

(* The comparison is fair: main_ids_off.c, as it stands, does nothing that *)
(* main.c cannot do when every verdict is normal.  It receives, refuses,   *)
(* copies, decodes, counts and stamps the same frames at the same points   *)
(* between interrupts, and serves control in the same places.              *)
OffIsOnWithoutVerdicts == On!Spec
=============================================================================
