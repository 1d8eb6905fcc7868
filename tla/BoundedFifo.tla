----------------------------- MODULE BoundedFifo -----------------------------
(* What the ring buffer promises its two users: a producer (the interrupt of *)
(* the serial port) and a consumer. Items come out in the order they went    *)
(* in, none twice and none changed. An item is refused when the queue is     *)
(* full. A flush takes time: what was queued before it is discarded at its   *)
(* start, an item that arrives meanwhile is lost or comes out as Zero.       *)
EXTENDS Naturals, Sequences

CONSTANTS Data, Zero, Capacity

VARIABLES queue, taken, flushing

fifoVars == <<queue, taken, flushing>>

FifoInit == queue = <<>> /\ taken = Zero /\ flushing = FALSE

Enqueue(d) ==
    /\ Len(queue) < Capacity
    /\ queue' = Append(queue, d)
    /\ UNCHANGED <<taken, flushing>>

Dequeue ==
    /\ ~flushing /\ queue # <<>>
    /\ taken' = Head(queue)
    /\ queue' = Tail(queue)
    /\ UNCHANGED flushing

FlushStart ==
    /\ ~flushing /\ flushing' = TRUE
    /\ queue' = <<>>
    /\ UNCHANGED taken

FlushEnd ==
    /\ flushing /\ flushing' = FALSE
    /\ queue' = [i \in 1..Len(queue) |-> Zero]
    /\ UNCHANGED taken

FifoNext == Dequeue \/ FlushStart \/ FlushEnd \/ \E d \in Data : Enqueue(d)

FifoSpec == FifoInit /\ [][FifoNext]_fifoVars
=============================================================================
