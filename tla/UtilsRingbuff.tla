---------------------------- MODULE UtilsRingbuff ----------------------------
(* The ring buffer of utils_ringbuff.c between one producer, an interrupt    *)
(* handler, and one consumer. The interrupt is one step for the consumer;    *)
(* the consumer can be interrupted between any two of its assignments.       *)
(* readpoint is the slot read last, writepoint the slot written last: one of *)
(* the Size slots stays unused.                                              *)
EXTENDS Naturals, Sequences

CONSTANTS
    Size,      \* RING_BUFF_LEN
    Data,      \* what the producer sends
    Zero       \* what memset leaves

ASSUME SizeAssumption == Size \in Nat /\ Size >= 2

Slots == 0..(Size - 1)

VARIABLES
    buffer, readpoint, writepoint,
    full,      \* set when an item was refused
    r_pc,      \* where the consumer is: "idle", "load", "flush_w", "flush_m"
    popped     \* pData of the last ring_buff_pop_data

ringVars == <<buffer, readpoint, writepoint, full, r_pc, popped>>

Succ(i) == (i + 1) % Size

(* ring_buff_init                                                            *)
RingInit ==
    /\ buffer = [i \in Slots |-> Zero]
    /\ readpoint = 0 /\ writepoint = 0
    /\ full = FALSE
    /\ r_pc = "idle" /\ popped = Zero

-----------------------------------------------------------------------------
(* Mutant: the full buffer is not noticed.                                   *)
PushUnchecked(d) ==
    /\ writepoint' = Succ(writepoint)
    /\ buffer' = [buffer EXCEPT ![Succ(writepoint)] = d]
    /\ UNCHANGED <<readpoint, full, r_pc, popped>>

(* ring_buff_push_data with one byte, in the interrupt.                      *)
Push(d) ==
    /\ IF Succ(writepoint) = readpoint
       THEN full' = TRUE /\ UNCHANGED <<buffer, writepoint>>
       ELSE /\ writepoint' = Succ(writepoint)
            /\ buffer' = [buffer EXCEPT ![Succ(writepoint)] = d]
            /\ UNCHANGED full
    /\ UNCHANGED <<readpoint, r_pc, popped>>

(* ring_buff_pop_data with one byte: readpoint moves before the byte is read.*)
PopAdvance ==
    /\ r_pc = "idle" /\ writepoint # readpoint
    /\ readpoint' = Succ(readpoint)
    /\ r_pc' = "load"
    /\ UNCHANGED <<buffer, writepoint, full, popped>>

PopLoad ==
    /\ r_pc = "load"
    /\ popped' = buffer[readpoint]
    /\ r_pc' = "idle"
    /\ UNCHANGED <<buffer, readpoint, writepoint, full>>

(* ring_buff_flush: three assignments and a memset.                          *)
FlushRead ==
    /\ r_pc = "idle"
    /\ readpoint' = 0
    /\ r_pc' = "flush_w"
    /\ UNCHANGED <<buffer, writepoint, full, popped>>

FlushWrite ==
    /\ r_pc = "flush_w"
    /\ writepoint' = 0
    /\ r_pc' = "flush_m"
    /\ UNCHANGED <<buffer, readpoint, full, popped>>

FlushClear ==
    /\ r_pc = "flush_m"
    /\ buffer' = [i \in Slots |-> Zero]
    /\ full' = FALSE
    /\ r_pc' = "idle"
    /\ UNCHANGED <<readpoint, writepoint, popped>>

RingNext == PopAdvance \/ PopLoad \/ FlushRead \/ FlushWrite \/ FlushClear \/ \E d \in Data : Push(d)

RingSpec == RingInit /\ [][RingNext]_ringVars

-----------------------------------------------------------------------------
(* The slots after readpoint up to writepoint are the queue. Between its     *)
(* first two assignments a flush has moved readpoint only: the queue is      *)
(* already empty and what arrives is lost.                                   *)
Fill == (writepoint + Size - readpoint) % Size
Content == IF r_pc = "flush_w" THEN <<>> ELSE [i \in 1..Fill |-> buffer[(readpoint + i) % Size]]

Fifo == INSTANCE BoundedFifo WITH
            Capacity <- Size - 1,
            queue    <- Content,
            taken    <- IF r_pc = "load" THEN buffer[readpoint] ELSE popped,
            flushing <- r_pc \in {"flush_w", "flush_m"}

(* The ring buffer implements the queue: whatever the interrupt does between *)
(* two assignments of the consumer, items come out once, unchanged and in    *)
(* order, and only a flush or a full buffer loses any.                       *)
RingImplementsFifo == Fifo!FifoSpec
=============================================================================
