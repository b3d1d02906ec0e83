------------------------------ MODULE LossyFifo ------------------------------
(***************************************************************************)
(* What the software receive queue of the F6 firmware promises: a bounded  *)
(* first-in first-out queue that refuses a value when it is full and       *)
(* counts the refusal.  Values are handed over whole and in order.         *)
(* src/models_c/f6_v2/main.c implements it with a ring of RX_QUEUE_SIZE    *)
(* slots written by an interrupt handler; F6Firmware states that it does.  *)
(***************************************************************************)
EXTENDS Naturals, Sequences

CONSTANTS
    Capacity,   \* usable capacity of the queue
    Value,      \* the values that may be put
    NoValue     \* what the consumer holds before its first Get

VARIABLES
    queue,      \* accepted values, oldest first
    out,        \* the value the consumer took last
    refused     \* how many values were refused

fifoVars == <<queue, out, refused>>

Init ==
    /\ queue = <<>>
    /\ out = NoValue
    /\ refused = 0

(* A value is accepted exactly when there is room for it. *)
Put(v) ==
    /\ Len(queue) < Capacity
    /\ queue' = Append(queue, v)
    /\ UNCHANGED <<out, refused>>

Refuse ==
    /\ Len(queue) = Capacity
    /\ refused' = refused + 1
    /\ UNCHANGED <<queue, out>>

Get ==
    /\ queue # <<>>
    /\ out' = Head(queue)
    /\ queue' = Tail(queue)
    /\ UNCHANGED refused

Next ==
    \/ \E v \in Value : Put(v)
    \/ Refuse
    \/ Get

Spec == Init /\ [][Next]_fifoVars
=============================================================================
