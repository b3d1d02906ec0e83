---------------------------- MODULE F6Constants ----------------------------
(***************************************************************************)
(* The sizes both F6 firmwares are built with, main.c and main_ids_off.c   *)
(* of src/models_c/f6_v2, and the traffic they are given.                  *)
(***************************************************************************)
EXTENDS Naturals, Sequences

CONSTANTS
    RingSize,    \* RX_QUEUE_SIZE, one slot of which stays unused
    FifoDepth,   \* mailboxes of the controller's FIFO0
    CounterMod,  \* the counters of the control task are kept modulo this
    ExtFrames,   \* arrival numbers of the frames sent with a 29-bit ID
    MaxFrames,   \* bound: frames put on the bus
    MaxTicks     \* bound: SysTick interrupts

ASSUME RingAssumption == RingSize \in Nat /\ RingSize >= 2
ASSUME FifoAssumption == FifoDepth \in Nat /\ FifoDepth >= 1
ASSUME CounterAssumption == CounterMod \in Nat /\ CounterMod >= 2
ASSUME BoundsAssumption == MaxFrames \in Nat /\ MaxTicks \in Nat
=============================================================================
