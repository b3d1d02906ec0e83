------------------------------- MODULE SimEcu -------------------------------
(***************************************************************************)
(* What src/docker_sim/firmware.c puts around the F6 firmware: a receive   *)
(* interrupt that stamps arrivals, a transmit queue before the mailbox of  *)
(* the CAN controller, and a main loop that sleeps when it finds no work.  *)
(*                                                                         *)
(* The handler it wraps, cut at its accesses in F6Firmware, is one step    *)
(* here.  External are the bus, the mailbox, which finishes a frame when   *)
(* it likes and raises no interrupt for it, and the timer.  What is sent   *)
(* EcuApplication says; here every new tick may bring up to Burst frames.  *)
(***************************************************************************)
EXTENDS Naturals, Sequences

CONSTANTS
    RingSize,    \* RX_QUEUE_SIZE
    TxSize,      \* slots of tx_queue: 8, one of which stays unused
    Burst,       \* frames application_step sends at most
    CounterMod,  \* bound: the counters of the control task are kept modulo this
    MaxWaiting,  \* bound: frames waiting in the controller
    MaxFrames    \* bound: frames handed to send_frame

ASSUME RingAssumption == RingSize \in Nat /\ RingSize >= 2
ASSUME TxAssumption == TxSize \in Nat /\ TxSize >= 2
ASSUME BurstAssumption == Burst \in Nat
ASSUME BoundAssumption ==
    /\ CounterMod \in Nat \ {0} /\ MaxWaiting \in Nat /\ MaxFrames \in Nat

VARIABLES
    waiting,       \* frames in the controller's FIFO
    expired,       \* the SysTick interrupt is pending
    masked,        \* cpsid
    tick,          \* g_control_tick_count
    release,       \* g_control_release_count
    complete,      \* g_control_complete_count
    head, tail,    \* g_q_head, g_q_tail
    arrival_tick,
    came,          \* for every slot the tick its frame was received in
    taken,         \* the frame main took last: what was recorded, what is true
    due,           \* now # app_tick
    toSend,        \* frames application_step has still to send
    pc,
    tx_queue, tx_head, tx_tail,
    mailbox,       \* "empty", "busy" or "finished"
    pending_tx,    \* the mailbox is the program's, # 0
    offered,       \* frames handed to send_frame; numbers the frames
    loaded,        \* the frame put into the mailbox last
    sim_tx_busy

rxVars == <<waiting, head, arrival_tick, came>>
takeVars == <<tail, taken>>
timeVars == <<expired, tick, due, release, complete>>
queueVars == <<tx_queue, tx_head, offered, sim_tx_busy>>
boxVars == <<tx_tail, mailbox, pending_tx, loaded>>
vars == <<rxVars, takeVars, timeVars, queueVars, boxVars, masked, toSend, pc>>

Slot == 0 .. RingSize - 1

NextSlot(i) == (i + 1) % RingSize
TxSlot == 0 .. TxSize - 1
NextTx(i) == (i + 1) % TxSize
Count(c) == (c + 1) % CounterMod

Init ==
    /\ waiting = 0 /\ expired = FALSE /\ masked = FALSE
    /\ tick = 0 /\ due = FALSE /\ release = 0 /\ complete = 0
    /\ head = 0 /\ tail = 0
    /\ arrival_tick = [s \in Slot |-> 0] /\ came = [s \in Slot |-> 0]
    /\ taken = <<0, 0>>
    /\ toSend = 0 /\ pc = "poll"
    /\ tx_queue = [s \in TxSlot |-> 0] /\ tx_head = 0 /\ tx_tail = 0
    /\ mailbox = "empty" /\ pending_tx = FALSE
    /\ offered = 0 /\ loaded = 0 /\ sim_tx_busy = 0

-----------------------------------------------------------------------------
(* The controller and the timer.                                           *)

FrameArrives ==
    /\ waiting < MaxWaiting
    /\ waiting' = waiting + 1
    /\ UNCHANGED <<head, arrival_tick, came, takeVars, timeVars, queueVars, boxVars, masked, toSend, pc>>

TimerExpires ==
    /\ ~expired
    /\ expired' = TRUE
    /\ UNCHANGED <<tick, due, release, complete, rxVars, takeVars, queueVars, boxVars, masked, toSend, pc>>

MailboxFinishes ==
    /\ mailbox = "busy"
    /\ mailbox' = "finished"
    /\ UNCHANGED <<tx_tail, pending_tx, loaded, rxVars, takeVars, timeVars, queueVars, masked, toSend, pc>>

-----------------------------------------------------------------------------
(* The interrupts.                                                         *)

Interrupt == ~masked /\ UNCHANGED <<takeVars, queueVars, boxVars, masked, toSend, pc>>

(* Fault: the arrival is stamped when the handler has moved the head. *)
StampsAfter ==
    /\ Interrupt
    /\ waiting > 0 /\ waiting' = waiting - 1
    /\ head' = IF NextSlot(head) # tail THEN NextSlot(head) ELSE head
    /\ came' = IF NextSlot(head) # tail THEN [came EXCEPT ![head] = tick] ELSE came
    /\ arrival_tick' = [arrival_tick EXCEPT ![head'] = tick]
    /\ UNCHANGED timeVars

(* The slot of the head is stamped before the handler knows whether the    *)
(* ring has room: when it is full the stamp is of no frame.                *)
CAN1_RX0_IRQHandler ==
    /\ Interrupt
    /\ waiting > 0 /\ waiting' = waiting - 1
    /\ arrival_tick' = [arrival_tick EXCEPT ![head] = tick]
    /\ IF NextSlot(head) # tail
       THEN came' = [came EXCEPT ![head] = tick] /\ head' = NextSlot(head)
       ELSE UNCHANGED <<came, head>>
    /\ UNCHANGED timeVars

SysTick_Handler ==
    /\ Interrupt
    /\ expired /\ expired' = FALSE
    /\ tick' = Count(tick)
    /\ due' = TRUE
    /\ release' = Count(release)
    /\ UNCHANGED <<complete, rxVars>>

-----------------------------------------------------------------------------
(* The transmit queue.                                                     *)

(* tx_poll reads the status of the mailbox once.                           *)
tx_poll ==
    LET finished == pending_tx /\ mailbox = "finished"
        load == (~pending_tx \/ finished) /\ tx_head # tx_tail /\ mailbox # "busy"
    IN  /\ pending_tx' = (load \/ (pending_tx /\ ~finished))
        /\ mailbox' = IF load THEN "busy" ELSE IF finished THEN "empty" ELSE mailbox
        /\ tx_tail' = IF load THEN NextTx(tx_tail) ELSE tx_tail
        /\ loaded' = IF load THEN tx_queue[tx_tail] ELSE loaded

(* Fault: no test for a full queue. *)
SendUnchecked ==
    /\ pc = "send" /\ toSend > 0 /\ offered < MaxFrames
    /\ offered' = offered + 1
    /\ toSend' = toSend - 1
    /\ tx_queue' = [tx_queue EXCEPT ![tx_head] = offered + 1]
    /\ tx_head' = NextTx(tx_head) /\ pc' = "pollAgain"
    /\ UNCHANGED <<sim_tx_busy, boxVars, rxVars, takeVars, timeVars, masked>>

send_frame ==
    /\ pc = "send" /\ toSend > 0 /\ offered < MaxFrames
    /\ offered' = offered + 1
    /\ toSend' = toSend - 1
    /\ \/ /\ NextTx(tx_head) = tx_tail
          /\ sim_tx_busy' = sim_tx_busy + 1
          /\ UNCHANGED <<tx_queue, tx_head, pc>>
       \/ /\ NextTx(tx_head) # tx_tail
          /\ tx_queue' = [tx_queue EXCEPT ![tx_head] = offered + 1]
          /\ tx_head' = NextTx(tx_head) /\ pc' = "pollAgain"
          /\ UNCHANGED sim_tx_busy
    /\ UNCHANGED <<boxVars, rxVars, takeVars, timeVars, masked>>

PollAfterSend ==
    /\ pc = "pollAgain" /\ pc' = "send"
    /\ tx_poll
    /\ UNCHANGED <<queueVars, rxVars, takeVars, timeVars, masked, toSend>>

-----------------------------------------------------------------------------
(* main.                                                                   *)

(* Fault: the loop leaves it to send_frame to look after the mailbox. *)
LoopWithoutPoll ==
    /\ pc = "poll" /\ pc' = "step"
    /\ UNCHANGED <<boxVars, queueVars, rxVars, takeVars, timeVars, masked, toSend>>

PollInLoop ==
    /\ pc = "poll" /\ pc' = "step"
    /\ tx_poll
    /\ UNCHANGED <<queueVars, rxVars, takeVars, timeVars, masked, toSend>>

application_step ==
    /\ pc = "step" /\ pc' = "send"
    /\ due' = FALSE
    /\ IF due THEN toSend' \in 0 .. Burst ELSE UNCHANGED toSend
    /\ UNCHANGED <<expired, tick, release, complete, boxVars, queueVars, rxVars, takeVars, masked>>

StepDone ==
    /\ pc = "send" /\ (toSend = 0 \/ offered = MaxFrames)
    /\ pc' = "control" /\ toSend' = 0
    /\ UNCHANGED <<boxVars, queueVars, rxVars, takeVars, timeVars, masked>>

(* The free-running counters are compared with <, as main.c does it: once  *)
(* release has wrapped and complete has not, a released job is not seen.   *)
Control ==
    /\ pc = "control" /\ pc' = "receive"
    /\ complete' = IF complete < release THEN Count(complete) ELSE complete
    /\ UNCHANGED <<expired, tick, release, due, boxVars, queueVars, rxVars, takeVars, masked, toSend>>

(* The first test of the queue, with interrupts enabled: a frame or a tick *)
(* may come before they are masked.                                        *)
NothingReceived ==
    /\ pc = "receive" /\ tail = head
    /\ pc' = "mask"
    /\ UNCHANGED <<masked, boxVars, queueVars, rxVars, takeVars, timeVars, toSend>>

(* Fault: interrupts stay enabled while main decides to sleep. *)
MaskForgotten ==
    /\ pc = "mask" /\ pc' = "idle"
    /\ UNCHANGED <<masked, boxVars, queueVars, rxVars, takeVars, timeVars, toSend>>

Mask ==
    /\ pc = "mask" /\ pc' = "idle"
    /\ masked' = TRUE
    /\ UNCHANGED <<boxVars, queueVars, rxVars, takeVars, timeVars, toSend>>

(* Fault: the queue, found empty before, is not tested again. *)
TestsJobsOnly ==
    /\ pc = "idle"
    /\ pc' = IF complete = release THEN "asleep" ELSE "unmask"
    /\ UNCHANGED <<boxVars, queueVars, rxVars, takeVars, timeVars, masked, toSend>>

(* The test that decides on the sleep, made with interrupts masked.        *)
IdleTest ==
    /\ pc = "idle"
    /\ pc' = IF tail = head /\ complete = release THEN "asleep" ELSE "unmask"
    /\ UNCHANGED <<boxVars, queueVars, rxVars, takeVars, timeVars, masked, toSend>>

(* Fault: main sleeps as long as the test, made with interrupts masked,    *)
(* finds no work.                                                          *)
SleepsInLoop ==
    /\ pc = "asleep" /\ (waiting > 0 \/ expired)
    /\ pc' = "idle"
    /\ UNCHANGED <<boxVars, queueVars, rxVars, takeVars, timeVars, masked, toSend>>

(* wfi ends when an interrupt is pending, masked or not. *)
Wake ==
    /\ pc = "asleep" /\ (waiting > 0 \/ expired)
    /\ pc' = "unmask"
    /\ UNCHANGED <<boxVars, queueVars, rxVars, takeVars, timeVars, masked, toSend>>

Unmask ==
    /\ pc = "unmask" /\ pc' = "poll"
    /\ masked' = FALSE
    /\ UNCHANGED <<boxVars, queueVars, rxVars, takeVars, timeVars, toSend>>

(* The frame and its arrival are read, then the slot is given back. *)
Received ==
    /\ pc = "receive" /\ tail # head
    /\ pc' = "release"
    /\ taken' = <<arrival_tick[tail], came[tail]>>
    /\ UNCHANGED <<tail, boxVars, queueVars, rxVars, timeVars, masked, toSend>>

Release ==
    /\ pc = "release" /\ pc' = "poll"
    /\ tail' = NextSlot(tail)
    /\ UNCHANGED <<taken, boxVars, queueVars, rxVars, timeVars, masked, toSend>>

main ==
    \/ PollInLoop \/ application_step \/ send_frame \/ PollAfterSend \/ StepDone
    \/ Control \/ NothingReceived \/ Mask \/ IdleTest \/ Wake \/ Unmask
    \/ Received \/ Release

Next ==
    \/ FrameArrives \/ TimerExpires \/ MailboxFinishes
    \/ CAN1_RX0_IRQHandler \/ SysTick_Handler
    \/ main

Spec == Init /\ [][Next]_vars

(* The processor runs, the timer goes on, the controller finishes what it  *)
(* sends, and a pending interrupt is taken when it is unmasked, however    *)
(* soon main masks it again.                                               *)
FairSpec ==
    /\ Spec
    /\ WF_vars(main) /\ WF_vars(TimerExpires) /\ WF_vars(MailboxFinishes)
    /\ SF_vars(CAN1_RX0_IRQHandler) /\ SF_vars(SysTick_Handler)

-----------------------------------------------------------------------------
TypeOK ==
    /\ waiting \in 0 .. MaxWaiting /\ expired \in BOOLEAN /\ masked \in BOOLEAN
    /\ tick \in 0 .. CounterMod - 1 /\ due \in BOOLEAN
    /\ release \in 0 .. CounterMod - 1 /\ complete \in 0 .. CounterMod - 1
    /\ head \in Slot /\ tail \in Slot
    /\ arrival_tick \in [Slot -> 0 .. CounterMod - 1] /\ came \in [Slot -> 0 .. CounterMod - 1]
    /\ taken \in (0 .. CounterMod - 1) \X (0 .. CounterMod - 1)
    /\ toSend \in 0 .. Burst
    /\ pc \in {"poll", "step", "send", "pollAgain", "control", "receive", "mask",
               "idle", "asleep", "unmask", "release"}
    /\ tx_queue \in [TxSlot -> 0 .. MaxFrames] /\ tx_head \in TxSlot /\ tx_tail \in TxSlot
    /\ mailbox \in {"empty", "busy", "finished"} /\ pending_tx \in BOOLEAN
    /\ offered \in 0 .. MaxFrames /\ loaded \in 0 .. MaxFrames /\ sim_tx_busy \in 0 .. offered

(* The arrival main records with a frame is the tick in which its own      *)
(* interrupt came, although the handler's wrapper stamps a slot on every   *)
(* interrupt, those of refused frames included.                            *)
ArrivalOfFrame == taken[1] = taken[2]

(* main never sleeps on a frame it could take or a control job that is     *)
(* released and not complete, although an interrupt may come between its   *)
(* first test of the queue and the masking (firmware.c:98-100).            *)
NeverSleepsOnWork == pc = "asleep" => tail = head /\ complete = release

(* The transmit queue hands every frame it accepts to the mailbox once and *)
(* in order, refuses one only when its usable slots are taken, and counts  *)
(* every refusal.                                                          *)
Waiting == [i \in 1 .. (tx_head + TxSize - tx_tail) % TxSize |->
                tx_queue[(tx_tail + i - 1) % TxSize]]
TxFifo == INSTANCE LossyFifo WITH
    Capacity <- TxSize - 1, Value <- 1 .. MaxFrames, NoValue <- 0,
    queue <- Waiting, out <- loaded, refused <- sim_tx_busy
ImplementsTxFifo == TxFifo!Spec

(* Although a finished transmission wakes nobody, the transmit queue       *)
(* empties: the timer wakes main, and main looks after the mailbox.        *)
TransmitQueueEmpties == tx_head # tx_tail ~> tx_head = tx_tail

(* main sleeps with interrupts masked and still wakes up to take them.     *)
SleepEnds == pc = "asleep" ~> ~masked
=============================================================================
