--------------------------- MODULE AtClientProofs ---------------------------
(* The AT client for any number of threads and commands, any ring buffer and *)
(* any line buffer: whose answer completes a command (AnswersMatch), and     *)
(* that parser thread and receive interrupt use the ring buffer as its       *)
(* proofs assume.                                                            *)
(*                                                                           *)
(* The argument for AnswersMatch. A command number never exceeds that of the *)
(* command sent last (AgeInv, HistInv), so an answer that is not a command's *)
(* own comes from an earlier one. Until the first timeout and the first      *)
(* CIPSEND without its end sign (Clean), every token that could complete a   *)
(* command, wherever it is between modem and semaphore, belongs to the       *)
(* command that holds the lock (LiveClean), there is none before the modem   *)
(* has taken that command (TodoClean), and none follows the token that ends  *)
(* its answer (OrderClean): when the parser posts, nothing is left that      *)
(* could complete the next command (PostClean).                              *)
(*                                                                           *)
(* First the ring buffer by itself: it implements the bounded queue for      *)
(* every size of at least two slots and every alphabet. The only invariant   *)
(* needed beside the types is that a flush leaves readpoint at 0 until it    *)
(* ends. What carries the argument is arithmetic: Fill is the distance from  *)
(* readpoint to writepoint, a push that is not refused adds one to it and    *)
(* writes a slot that is neither among the Fill slots of the queue nor the   *)
(* slot under readpoint.                                                     *)
EXTENDS AtClient, TLAPS

-----------------------------------------------------------------------------
(* The ring buffer.                                                          *)

Values == Data \cup {Zero}

RingTypeOK ==
    /\ buffer \in [Slots -> Values]
    /\ readpoint \in Slots /\ writepoint \in Slots
    /\ full \in BOOLEAN
    /\ r_pc \in {"idle", "load", "flush_w", "flush_m"}
    /\ popped \in Values

(* A flush has put readpoint to 0 and nothing moves it before the flush ends.*)
RingInv == RingTypeOK /\ (r_pc \in {"flush_w", "flush_m"} => readpoint = 0)

-----------------------------------------------------------------------------
(* Indices. The slot n places behind slot r, and the distance between slots, *)
(* without a remainder.                                                      *)

(* The slot after i is i + 1, or 0 at the end (ring_buff_push_data and       *)
(* ring_buff_pop_data compute it with %).                                    *)
LEMMA SuccValue ==
  ASSUME NEW i \in Slots
  PROVE  /\ Succ(i) \in Slots
         /\ Succ(i) = IF i = Size - 1 THEN 0 ELSE i + 1
  BY SizeAssumption DEF Succ, Slots

(* A sum of a slot and a distance below Size wraps at most once.             *)
LEMMA PlaceValue ==
  ASSUME NEW r \in Slots, NEW n \in 0..(Size - 1)
  PROVE  /\ (r + n) % Size \in Slots
         /\ (r + n) % Size = IF r + n < Size THEN r + n ELSE r + n - Size
  BY SizeAssumption DEF Slots

(* The distance between two slots.                                           *)
LEMMA DistanceValue ==
  ASSUME NEW r \in Slots, NEW w \in Slots
  PROVE  /\ (w + Size - r) % Size \in Slots
         /\ (w + Size - r) % Size = IF r <= w THEN w - r ELSE w + Size - r
  BY SizeAssumption DEF Slots

(* What Fill and the mapped queue are in a state of the right types.         *)
LEMMA FillValue ==
  ASSUME RingInv
  PROVE  /\ Fill \in 0..(Size - 1)
         /\ Fill = IF readpoint <= writepoint THEN writepoint - readpoint
                   ELSE writepoint + Size - readpoint
  BY DistanceValue, SizeAssumption DEF RingInv, RingTypeOK, Fill, Slots

LEMMA FillValueNext ==
  ASSUME RingInv'
  PROVE  /\ Fill' \in 0..(Size - 1)
         /\ Fill' = IF readpoint' <= writepoint' THEN writepoint' - readpoint'
                    ELSE writepoint' + Size - readpoint'
  BY DistanceValue, SizeAssumption DEF RingInv, RingTypeOK, Fill, Slots

-----------------------------------------------------------------------------
(* The types and the flush, whatever the interleaving of the consumer's      *)
(* assignments with the interrupt.                                           *)
LEMMA RingInvStep == RingInv /\ [RingNext]_ringVars => RingInv'
<1> SUFFICES ASSUME RingInv, [RingNext]_ringVars PROVE RingInv'
  OBVIOUS
<1> USE DEF RingInv, RingTypeOK
<1>0. 0 \in Slots /\ Zero \in Values
  BY SizeAssumption DEF Slots, Values
<1>1. ASSUME NEW d \in Data, Push(d) PROVE RingInv'
  BY <1>1, SuccValue DEF Push, Values
<1>2. CASE PopAdvance
  BY <1>2, SuccValue DEF PopAdvance
<1>3. CASE PopLoad
  BY <1>3 DEF PopLoad
<1>4. CASE FlushRead
  BY <1>0, <1>4 DEF FlushRead
<1>5. CASE FlushWrite
  BY <1>0, <1>5 DEF FlushWrite
<1>6. CASE FlushClear
  BY <1>0, <1>6 DEF FlushClear
<1>7. CASE UNCHANGED ringVars
  BY <1>7 DEF ringVars
<1> QED
  BY <1>1, <1>2, <1>3, <1>4, <1>5, <1>6, <1>7 DEF RingNext

LEMMA RingInvInit == RingInit => RingInv
<1> SUFFICES ASSUME RingInit PROVE RingInv
  OBVIOUS
<1>1. full \in BOOLEAN
  BY DEF RingInit
<1> QED
  BY <1>1, SizeAssumption DEF RingInit, RingInv, RingTypeOK, Values, Slots

(* The types hold in every state of the ring buffer.                         *)
THEOREM RingInvariance == RingSpec => []RingInv
  BY RingInvInit, RingInvStep, PTL DEF RingSpec

-----------------------------------------------------------------------------
(* The refinement, one lemma per action of the ring buffer.                  *)

(* What BoundedFifo's constants and variables are mapped to.                 *)
Taken    == IF r_pc = "load" THEN buffer[readpoint] ELSE popped
Flushing == r_pc \in {"flush_w", "flush_m"}

(* What is known of the mapped queue: its items and its length.              *)
ContentIs ==
    /\ r_pc # "flush_w" => Content = [i \in 1..Fill |-> buffer[(readpoint + i) % Size]]
    /\ r_pc = "flush_w" => Content = <<>>
    /\ Content \in Seq(Values)
    /\ Len(Content) = IF r_pc = "flush_w" THEN 0 ELSE Fill

LEMMA ContentShape == RingInv => ContentIs
<1> SUFFICES ASSUME RingInv PROVE ContentIs
  OBVIOUS
<1>1. CASE r_pc = "flush_w"
  BY <1>1 DEF Content, ContentIs
<1>2. CASE r_pc # "flush_w"
  <2>1. Content = [i \in 1..Fill |-> buffer[(readpoint + i) % Size]]
    BY <1>2 DEF Content
  <2>2. ASSUME NEW i \in 1..Fill PROVE buffer[(readpoint + i) % Size] \in Values
    <3>1. i \in 0..(Size - 1)
      BY FillValue, SizeAssumption
    <3> QED
      BY <3>1, PlaceValue DEF RingInv, RingTypeOK
  <2>3. Fill \in Nat
    BY FillValue, SizeAssumption
  <2> QED
    BY <1>2, <2>1, <2>2, <2>3 DEF ContentIs
<1> QED
  BY <1>1, <1>2

LEMMA ContentShapeNext == RingInv' => ContentIs'
  BY ContentShape, PTL

(* ring_buff_push_data adds its byte at the end of the queue, refuses it     *)
(* when the queue is full, or loses it in the first part of a flush.         *)
LEMMA PushRefines ==
  ASSUME NEW d \in Data, RingInv, RingInv', Push(d)
  PROVE  \/ /\ Len(Content) < Size - 1
            /\ Content' = Append(Content, d)
            /\ Taken' = Taken /\ Flushing' = Flushing
         \/ UNCHANGED <<Content, Taken, Flushing>>
<1> USE DEF RingInv, RingTypeOK
<1>0. ContentIs /\ ContentIs'
  BY ContentShape, ContentShapeNext
<1>1. Flushing' = Flushing
  BY DEF Push, Flushing
<1>2. CASE Succ(writepoint) = readpoint
  <2>1. UNCHANGED <<buffer, readpoint, writepoint, r_pc, popped>>
    BY <1>2 DEF Push
  <2> QED
    BY <2>1, <1>1 DEF Content, Fill, Taken
<1>3. CASE Succ(writepoint) # readpoint
  <2>1. /\ writepoint' = Succ(writepoint)
        /\ buffer' = [buffer EXCEPT ![Succ(writepoint)] = d]
        /\ UNCHANGED <<readpoint, r_pc, popped>>
    BY <1>3 DEF Push
  <2>2. Taken' = Taken
    BY <1>3, <2>1, SuccValue DEF Taken
  <2>3. CASE r_pc = "flush_w"
    BY <1>1, <2>1, <2>2, <2>3 DEF Content
  <2>4. CASE r_pc # "flush_w"
    <3>0. Succ(writepoint) = IF writepoint = Size - 1 THEN 0 ELSE writepoint + 1
      BY SuccValue
    <3>a. /\ Fill = IF readpoint <= writepoint THEN writepoint - readpoint
                     ELSE writepoint + Size - readpoint
          /\ Fill' = IF readpoint <= writepoint' THEN writepoint' - readpoint
                      ELSE writepoint' + Size - readpoint
      BY <2>1, FillValue, FillValueNext
    <3>1. Fill < Size - 1 /\ Fill' = Fill + 1 /\ Fill \in Nat
      BY <1>3, <2>1, <3>0, <3>a, SizeAssumption DEF Slots
    <3>2. Len(Content) = Fill /\ Len(Content') = Fill + 1
      BY <1>0, <2>1, <2>4, <3>1 DEF ContentIs
    <3>3. ASSUME NEW i \in 1..Fill PROVE Content'[i] = Content[i]
      <4>1. i \in 0..(Size - 1)
        BY <3>1, SizeAssumption
      <4>2. (readpoint + i) % Size # Succ(writepoint)
        <5>1. (readpoint + i) % Size = IF readpoint + i < Size THEN readpoint + i
                                       ELSE readpoint + i - Size
          BY <4>1, PlaceValue
        <5> QED
          BY <1>3, <3>0, <3>a, <3>1, <5>1, SizeAssumption DEF Slots
      <4> QED
        BY <1>0, <2>1, <2>4, <3>1, <4>1, <4>2, PlaceValue DEF ContentIs
    <3>4. Content'[Fill + 1] = d
      <4>1. (readpoint + (Fill + 1)) % Size = Succ(writepoint)
        <5>1. Fill + 1 \in 0..(Size - 1)
          BY <3>1, SizeAssumption
        <5>2. (readpoint + (Fill + 1)) % Size = IF readpoint + (Fill + 1) < Size THEN readpoint + (Fill + 1)
                                                ELSE readpoint + (Fill + 1) - Size
          BY <5>1, PlaceValue
        <5> QED
          BY <1>3, <3>0, <3>a, <3>1, <5>2, SizeAssumption DEF Slots
      <4> QED
        BY <1>0, <2>1, <2>4, <3>1, <4>1, SuccValue DEF ContentIs
    <3>5. Content' = Append(Content, d)
      BY <1>0, <3>1, <3>2, <3>3, <3>4 DEF ContentIs, Values
    <3> QED
      BY <1>1, <2>2, <3>1, <3>2, <3>5
  <2> QED
    BY <2>3, <2>4
<1> QED
  BY <1>2, <1>3

(* The pop takes the head of the queue at its first assignment: the byte it  *)
(* will load cannot change any more.                                         *)
LEMMA PopRefines ==
  ASSUME RingInv, RingInv', PopAdvance
  PROVE  /\ ~Flushing /\ Content # <<>>
         /\ Taken' = Head(Content)
         /\ Content' = Tail(Content)
         /\ Flushing' = Flushing
<1> USE DEF RingInv, RingTypeOK
<1>0. ContentIs /\ ContentIs'
  BY ContentShape, ContentShapeNext
<1>1. /\ r_pc = "idle" /\ r_pc' = "load" /\ readpoint' = Succ(readpoint)
      /\ writepoint # readpoint /\ UNCHANGED <<buffer, writepoint>>
  BY DEF PopAdvance
<1>a. readpoint' = IF readpoint = Size - 1 THEN 0 ELSE readpoint + 1
  BY <1>1, SuccValue
<1>b. /\ Fill = IF readpoint <= writepoint THEN writepoint - readpoint
                 ELSE writepoint + Size - readpoint
      /\ Fill' = IF readpoint' <= writepoint THEN writepoint - readpoint'
                  ELSE writepoint + Size - readpoint'
  BY <1>1, FillValue, FillValueNext
<1>2. Fill \in Nat /\ Fill > 0 /\ Fill' = Fill - 1 /\ Fill <= Size - 1
  BY <1>1, <1>a, <1>b, SizeAssumption DEF Slots
<1>3. /\ Content \in Seq(Values) /\ Len(Content) = Fill
      /\ Content' \in Seq(Values) /\ Len(Content') = Fill - 1
  BY <1>0, <1>1, <1>2 DEF ContentIs
<1>4. Content[1] = buffer[readpoint']
  <2>1. (readpoint + 1) % Size = readpoint'
    BY <1>1 DEF Succ
  <2> QED
    BY <1>0, <1>1, <1>2, <2>1 DEF ContentIs
<1>5. ASSUME NEW i \in 1..(Fill - 1) PROVE Content'[i] = Content[i + 1]
  <2>1. i \in 0..(Size - 1) /\ i + 1 \in 0..(Size - 1) /\ i + 1 \in 1..Fill
    BY <1>2, SizeAssumption
  <2>2. (readpoint' + i) % Size = (readpoint + (i + 1)) % Size
    <3>1. (readpoint' + i) % Size = IF readpoint' + i < Size THEN readpoint' + i
                                    ELSE readpoint' + i - Size
      BY <2>1, PlaceValue
    <3>2. (readpoint + (i + 1)) % Size = IF readpoint + (i + 1) < Size THEN readpoint + (i + 1)
                                         ELSE readpoint + (i + 1) - Size
      BY <2>1, PlaceValue
    <3> QED
      BY <1>a, <1>2, <2>1, <3>1, <3>2, SizeAssumption DEF Slots
  <2> QED
    BY <1>0, <1>1, <1>2, <2>1, <2>2 DEF ContentIs
<1>6. Content' = Tail(Content)
  BY <1>2, <1>3, <1>5
<1> QED
  BY <1>1, <1>2, <1>3, <1>4, <1>6 DEF Flushing, Taken

(* The second assignment of the pop is invisible.                            *)
LEMMA LoadRefines ==
  ASSUME PopLoad
  PROVE  UNCHANGED <<Content, Taken, Flushing>>
  BY DEF PopLoad, Content, Fill, Taken, Flushing

(* A flush empties the queue with its first assignment.                      *)
LEMMA FlushReadRefines ==
  ASSUME FlushRead
  PROVE  /\ ~Flushing /\ Flushing' /\ Content' = <<>> /\ Taken' = Taken
  BY DEF FlushRead, Content, Taken, Flushing

(* Its second makes the ring agree with the empty queue.                     *)
LEMMA FlushWriteRefines ==
  ASSUME RingInv, RingInv', FlushWrite
  PROVE  UNCHANGED <<Content, Taken, Flushing>>
<1>1. /\ r_pc = "flush_w" /\ r_pc' = "flush_m" /\ writepoint' = 0 /\ readpoint' = 0
      /\ UNCHANGED <<buffer, popped>>
  BY DEF FlushWrite, RingInv
<1>2. Fill' = 0
  BY <1>1, FillValueNext
<1>3. Content' \in Seq(Values) /\ Len(Content') = 0
  BY <1>1, <1>2, ContentShapeNext DEF ContentIs
<1>4. Content' = <<>> /\ Content = <<>>
  <2>1. Content = <<>>
    BY <1>1 DEF Content
  <2>2. Content' = <<>>
    BY <1>3
  <2> QED
    BY <2>1, <2>2
<1> QED
  BY <1>1, <1>4 DEF Taken, Flushing

(* memset turns what arrived after the second into zeros.                    *)
LEMMA FlushClearRefines ==
  ASSUME RingInv, RingInv', FlushClear
  PROVE  /\ Flushing /\ ~Flushing'
         /\ Content' = [i \in 1..Len(Content) |-> Zero]
         /\ Taken' = Taken
<1>0. ContentIs /\ ContentIs'
  BY ContentShape, ContentShapeNext
<1>1. /\ r_pc = "flush_m" /\ r_pc' = "idle" /\ buffer' = [i \in Slots |-> Zero]
      /\ UNCHANGED <<readpoint, writepoint, popped>>
  BY DEF FlushClear
<1>2. Fill' = Fill /\ Fill \in 0..(Size - 1)
  BY <1>1, FillValue, FillValueNext
<1>3. ASSUME NEW i \in 1..Fill PROVE buffer'[(readpoint' + i) % Size] = Zero
  BY <1>1, <1>2, PlaceValue, SizeAssumption DEF RingInv, RingTypeOK
<1>4. Len(Content) = Fill
  BY <1>0, <1>1 DEF ContentIs
<1>5. Content' = [i \in 1..Fill |-> Zero]
  BY <1>0, <1>1, <1>2, <1>3 DEF ContentIs
<1> QED
  BY <1>1, <1>4, <1>5 DEF Taken, Flushing

(* Every step of consumer or interrupt is a step of the queue or invisible.  *)
LEMMA RingStepRefines ==
  RingInv /\ RingInv' /\ [RingNext]_ringVars => [Fifo!FifoNext]_(Fifo!fifoVars)
<1> SUFFICES ASSUME RingInv, RingInv', [RingNext]_ringVars
             PROVE  [Fifo!FifoNext]_(Fifo!fifoVars)
  OBVIOUS
<1> USE DEF Fifo!FifoNext, Fifo!fifoVars, Taken, Flushing
<1>1. ASSUME NEW d \in Data, Push(d) PROVE [Fifo!FifoNext]_(Fifo!fifoVars)
  BY <1>1, PushRefines DEF Fifo!Enqueue
<1>2. CASE PopAdvance
  BY <1>2, PopRefines DEF Fifo!Dequeue
<1>3. CASE PopLoad
  BY <1>3, LoadRefines
<1>4. CASE FlushRead
  BY <1>4, FlushReadRefines DEF Fifo!FlushStart
<1>5. CASE FlushWrite
  BY <1>5, FlushWriteRefines
<1>6. CASE FlushClear
  BY <1>6, FlushClearRefines DEF Fifo!FlushEnd
<1>7. CASE UNCHANGED ringVars
  BY <1>7 DEF ringVars, Content, Fill
<1> QED
  BY <1>1, <1>2, <1>3, <1>4, <1>5, <1>6, <1>7 DEF RingNext

LEMMA RingInitRefines == RingInit => Fifo!FifoInit
<1> SUFFICES ASSUME RingInit PROVE Fifo!FifoInit
  OBVIOUS
<1>1. RingInv
  BY RingInvInit
<1>2. Content \in Seq(Values) /\ Len(Content) = 0
  BY <1>1, ContentShape, FillValue DEF ContentIs, RingInit
<1> QED
  BY <1>2 DEF RingInit, Fifo!FifoInit

(* The ring buffer of utils_ringbuff.c is a bounded queue, for every size:   *)
(* items come out once, unchanged and in order, whenever the interrupt comes.*)
THEOREM RingRefinesFifo == RingSpec => RingImplementsFifo
<1>1. RingInv /\ [RingNext]_ringVars => [Fifo!FifoNext]_(Fifo!fifoVars)
  BY RingInvStep, RingStepRefines
<1> QED
  BY <1>1, RingInvariance, RingInitRefines, PTL DEF RingSpec, RingImplementsFifo, Fifo!FifoSpec

-----------------------------------------------------------------------------
(* The AT client: the inductive invariant.                                   *)

(* The places from which client_parser posts the semaphore.                  *)
Posting == {"prompt", "ok", "error"}

(* What the modem can be sent.                                               *)
Jobs == [cmd : Commands, kind : {"plain", "send", "data"}]

TypeOK ==
    /\ RingInv
    /\ lock \in Threads \cup {NoThread} /\ resp \in Nat
    /\ end_sign \in BOOLEAN /\ sem \in Seq(Commands \cup {Nobody})
    /\ pc \in [Threads -> {"idle", "lock", "wait", "data"}]
    /\ cmd \in [Threads -> Commands \cup {None}] /\ kind \in [Threads -> {"plain", "send"}]
    /\ sent \in Commands \cup {None}
    /\ line \in Seq(Values) /\ p_pc \in {"readline", "flush", "dispatch", "more"} \cup Posting
    /\ line_counts \in Nat
    /\ todo \in Seq(Jobs)
    /\ uart \in Seq(Tokens)
    /\ got \in [Commands -> Commands \cup {None, Nobody}]
    /\ timedOut \subseteq Commands /\ unsigned \subseteq Commands

(* client->lock: its holder waits for the command sent last.                 *)
LockInv ==
    /\ \A t \in Threads : pc[t] = "wait" <=> lock = t
    /\ \A t \in Threads : pc[t] = "data" => cmd[t] # None
    /\ lock # NoThread => /\ cmd[lock] = sent /\ sent # None
                          /\ \A t \in Threads : t # lock => cmd[t] < sent
    /\ resp # None => lock # NoThread /\ resp = sent
    /\ \A t \in Threads : cmd[t] <= sent

(* Nothing in the stream and nothing in the semaphore or the history is of a *)
(* command that was not sent yet.                                            *)
AgeInv ==
    /\ \A i \in Slots : buffer[i].cmd <= sent
    /\ \A i \in DOMAIN line : line[i].cmd <= sent
    /\ \A i \in DOMAIN uart : uart[i].cmd <= sent
    /\ \A i \in DOMAIN todo : todo[i].cmd <= sent

HistInv ==
    /\ \A i \in DOMAIN sem : sem[i] <= sent
    /\ \A c \in Commands : got[c] # None => c <= sent /\ got[c] <= c
    /\ \A c \in timedOut : c <= sent /\ (lock # NoThread => c < sent)
    /\ \A c \in unsigned : c <= sent

(* Where the parser is in the ring buffer and in the line.                   *)
ReadInv ==
    /\ r_pc = "load" => p_pc = "readline"
    /\ r_pc \in {"flush_w", "flush_m"} => p_pc = "flush"
    /\ p_pc \in {"dispatch", "more"} \cup Posting => line # <<>>
    /\ p_pc = "error" => \E i \in DOMAIN line : line[i].txt = "error"

(* Before the first timeout: a post is taken by the command it was made for, *)
(* and the response the parser has found stays.                              *)
RespInv ==
    timedOut = {} =>
        /\ sem # <<>> => resp = None /\ Len(sem) = 1 /\ lock # NoThread
        /\ p_pc \in {"more"} \cup Posting => resp # None

(* Tokens that can complete a command, and those that end an answer.         *)
Clean == timedOut = {} /\ unsigned = {}

Live(tok) == tok.txt \in Posting
Sending == lock # NoThread /\ kind[lock] = "send"
Final(tok, sending) == tok.txt \in {"prompt", "error"} \/ (tok.txt = "ok" /\ ~sending)

NoneIn(s) == \A i \in DOMAIN s : ~Live(s[i])
Behind == (r_pc = "load" => ~Live(Taken)) /\ NoneIn(Content) /\ NoneIn(uart)
OwnIn(s, c) == \A i \in DOMAIN s : Live(s[i]) => s[i].cmd = c

(* A post is for the command that waits; a CIPSEND has its end sign.         *)
SemClean == Clean => \A i \in DOMAIN sem : sem[i] = sent
SignClean == Clean /\ Sending => end_sign

(* What can complete a command belongs to the one that waits.                *)
LiveClean ==
    Clean =>
        /\ OwnIn(line, sent) /\ OwnIn(Content, sent) /\ OwnIn(uart, sent)
        /\ r_pc = "load" /\ Live(Taken) => Taken.cmd = sent
        /\ resp = None => NoneIn(line) /\ Behind

(* A command the modem has not taken yet has no answer.                      *)
TodoClean ==
    Clean => \A i \in DOMAIN todo : todo[i].kind # "data" =>
        /\ resp # None /\ NoneIn(line) /\ Behind
        /\ todo[i].kind = kind[lock]
        /\ \A j \in DOMAIN todo : todo[j].kind # "data" => j = i
        /\ todo[i].cmd = sent

(* Nothing that can complete a command follows the end of its answer.        *)
OrderClean ==
    Clean =>
        /\ \A i, j \in DOMAIN uart : i < j /\ Final(uart[i], Sending) => ~Live(uart[j])
        /\ \A i, j \in DOMAIN Content : i < j /\ Final(Content[i], Sending) => ~Live(Content[j])
        /\ \A i \in DOMAIN Content : Final(Content[i], Sending) => NoneIn(uart)
        /\ r_pc = "load" /\ Final(Taken, Sending) => NoneIn(Content) /\ NoneIn(uart)
        /\ \A i \in DOMAIN line : Final(line[i], Sending) => Behind

(* The line that completes the command is its own and the end of its answer. *)
PostClean ==
    Clean /\ p_pc \in Posting =>
        /\ Behind
        /\ \A i \in DOMAIN todo : todo[i].kind = "data"
        /\ Origin = sent

IInv ==
    /\ TypeOK /\ LockInv /\ AgeInv /\ HistInv /\ ReadInv /\ RespInv
    /\ SemClean /\ SignClean /\ LiveClean /\ TodoClean /\ OrderClean /\ PostClean
    /\ AnswersMatch

-----------------------------------------------------------------------------
(* Constants and tokens.                                                     *)

(* Commands are positive numbers; no thread is NoThread.                     *)
LEMMA Numbers ==
  /\ MaxCommands \in Nat /\ MaxCommands > 0 /\ None = 0 /\ Nobody = -1
  /\ Commands = 1..MaxCommands
  /\ NoThread \notin Threads
  BY AtAssumption DEF Commands, None, Nobody

(* A token is of a command or of none, and one that can complete a command   *)
(* is of a command.                                                          *)
LEMMA ValueFields ==
  ASSUME NEW v \in Values
  PROVE  /\ v.cmd \in Commands \cup {None}
         /\ Live(v) => v.cmd \in Commands
<1>1. CASE v \in [cmd : Commands, txt : {"ok", "error", "prompt", "urc"}]
  BY <1>1 DEF Live, Posting
<1>2. CASE v \in {EOL, Noise, Zero}
  BY <1>2, TokenAssumption DEF Live, Posting, EOL, Noise
<1> QED
  BY <1>1, <1>2, TokenAssumption DEF Values, Tokens

(* Ends of lines, stray output and the cleared slots of the ring buffer      *)
(* complete nothing.                                                         *)
LEMMA DeadTokens ==
  /\ ~Live(EOL) /\ ~Live(Noise) /\ ~Live(Zero)
  /\ EOL.cmd = None /\ Noise.cmd = None /\ Zero.cmd = None
  /\ EOL \in Tokens /\ Noise \in Tokens /\ Tokens \subseteq Values /\ Data = Tokens
  BY TokenAssumption DEF Live, Posting, EOL, Noise, Tokens, Values

(* What ends an answer can complete a command.                               *)
LEMMA FinalIsLive ==
  ASSUME NEW tok, NEW b, Final(tok, b)
  PROVE  Live(tok)
  BY DEF Final, Live, Posting

(* A step that leaves the ring buffer's variables alone leaves its content.  *)
LEMMA RingSame ==
  ASSUME UNCHANGED ringVars, RingInv
  PROVE  /\ RingInv' /\ Content' = Content /\ Taken' = Taken /\ buffer' = buffer /\ r_pc' = r_pc
<1>1. UNCHANGED <<buffer, readpoint, writepoint, full, r_pc, popped>>
  BY DEF ringVars
<1>2. RingInv'
  BY <1>1 DEF RingInv, RingTypeOK
<1> QED
  BY <1>1, <1>2 DEF Content, Taken, Fill

(* What is known of the ring buffer and its items.                           *)
LEMMA ContentValues ==
  ASSUME RingInv
  PROVE  /\ Content \in Seq(Values) /\ Taken \in Values /\ buffer \in [Slots -> Values]
<1>1. Content \in Seq(Values)
  BY ContentShape DEF ContentIs
<1>2. Taken \in Values /\ buffer \in [Slots -> Values]
  BY DEF RingInv, RingTypeOK, Taken
<1> QED
  BY <1>1, <1>2

(* esp8266_send sets the end sign, another command changes nothing shared.   *)
LEMMA BeginStep ==
  ASSUME NEW t \in Threads, IInv, Begin(t)
  PROVE  IInv'
<1>s. /\ TypeOK /\ LockInv /\ AgeInv /\ HistInv /\ ReadInv /\ RespInv
      /\ SemClean /\ SignClean /\ LiveClean /\ TodoClean /\ OrderClean /\ PostClean
      /\ AnswersMatch
  BY DEF IInv
<1>n. /\ MaxCommands \in Nat /\ None = 0 /\ Nobody = -1 /\ Commands = 1..MaxCommands
      /\ NoThread \notin Threads /\ MaxCommands > 0
  BY Numbers
<1>r. RingInv' /\ Content' = Content /\ Taken' = Taken /\ buffer' = buffer /\ r_pc' = r_pc
  BY <1>s, RingSame DEF TypeOK, Begin
<1>a. pc[t] = "idle" /\ lock # t
  BY <1>s DEF Begin, LockInv
<1>b. /\ pc' = [pc EXCEPT ![t] = "lock"] /\ kind' \in [Threads -> {"plain", "send"}]
      /\ \A u \in Threads : u # t => kind'[u] = kind[u]
      /\ end_sign' \in BOOLEAN /\ (end_sign => end_sign')
      /\ UNCHANGED <<lock, resp, resp_status, sem, cmd, sent, line, p_pc, line_counts, todo,
                     uart, noise, got, timedOut, unsigned>>
  BY <1>s DEF Begin, TypeOK, client, parser, modem, history
<1>c. Sending' = Sending /\ (lock # NoThread => kind'[lock] = kind[lock])
  BY <1>s, <1>a, <1>b DEF Sending, TypeOK
<1>1. TypeOK'
  BY <1>s, <1>r, <1>b DEF TypeOK
<1>2. LockInv'
  BY <1>s, <1>a, <1>b DEF LockInv
<1>3. AgeInv'
  BY <1>s, <1>r, <1>b DEF AgeInv
<1>4. HistInv'
  BY <1>s, <1>b DEF HistInv
<1>5. ReadInv'
  BY <1>s, <1>r, <1>b DEF ReadInv
<1>6. RespInv'
  BY <1>s, <1>b DEF RespInv
<1>8. SemClean'
  BY <1>s, <1>b DEF SemClean, Clean
<1>9. SignClean'
  BY <1>s, <1>b, <1>c DEF SignClean, Clean
<1>10. LiveClean'
  BY <1>s, <1>r, <1>b DEF LiveClean, Clean, Behind
<1>11. TodoClean'
  BY <1>s, <1>r, <1>b, <1>c DEF TodoClean, Clean, Behind, LockInv
<1>12. OrderClean'
  BY <1>s, <1>r, <1>b, <1>c DEF OrderClean, Clean, Behind
<1>13. PostClean'
  BY <1>s, <1>r, <1>b DEF PostClean, Clean, Behind, Origin, Decisive
<1>14. AnswersMatch'
  BY <1>s, <1>b DEF AnswersMatch
<1> QED
  BY <1>1, <1>2, <1>3, <1>4, <1>5, <1>6, <1>8, <1>9, <1>10, <1>11, <1>12, <1>13, <1>14
    DEF IInv

(* at_obj_exec_cmd takes the lock and sends: no post is left unless one      *)
(* timed out.                                                                *)
LEMMA ExecCmdStep ==
  ASSUME NEW t \in Threads, IInv, ExecCmd(t)
  PROVE  IInv'
<1>s. /\ TypeOK /\ LockInv /\ AgeInv /\ HistInv /\ ReadInv /\ RespInv
      /\ SemClean /\ SignClean /\ LiveClean /\ TodoClean /\ OrderClean /\ PostClean
      /\ AnswersMatch
  BY DEF IInv
<1>n. /\ MaxCommands \in Nat /\ None = 0 /\ Nobody = -1 /\ Commands = 1..MaxCommands
      /\ NoThread \notin Threads /\ MaxCommands > 0
  BY Numbers
<1>r. RingInv' /\ Content' = Content /\ Taken' = Taken /\ buffer' = buffer /\ r_pc' = r_pc
  BY <1>s, RingSame DEF TypeOK, ExecCmd
<1>a. pc[t] = "lock" /\ lock = NoThread /\ resp = None
  BY <1>s, <1>n DEF ExecCmd, LockInv, TypeOK
<1>d0. sent' = sent + 1 /\ sent \in Int /\ sent' \in Commands
  BY <1>s, <1>n DEF ExecCmd, TypeOK
<1>d1. unsigned' = IF kind[t] = "send" /\ ~end_sign THEN unsigned \cup {sent + 1} ELSE unsigned
  BY DEF ExecCmd
<1>d2. /\ unsigned \subseteq unsigned' /\ unsigned' \subseteq unsigned \cup {sent + 1}
      /\ (kind[t] = "send" /\ ~end_sign => unsigned' # {})
  BY <1>d1
<1>b. /\ lock' = t /\ resp' = sent + 1
      /\ cmd' = [cmd EXCEPT ![t] = sent + 1] /\ pc' = [pc EXCEPT ![t] = "wait"]
      /\ todo' = Append(todo, [cmd |-> sent + 1, kind |-> kind[t]])
      /\ UNCHANGED <<end_sign, sem, kind, line, p_pc, line_counts, uart, noise, got,
                      timedOut>>
  BY DEF ExecCmd, parser
<1>c. /\ todo' \in Seq(Jobs)
      /\ Len(todo') = Len(todo) + 1 /\ Len(todo) \in Nat
      /\ todo'[Len(todo) + 1].cmd = sent + 1
      /\ todo'[Len(todo) + 1].kind = kind[t]
      /\ \A i \in DOMAIN todo : todo'[i] = todo[i]
      /\ DOMAIN todo = 1..Len(todo) /\ DOMAIN todo' = 1..(Len(todo) + 1)
  <2>0. kind[t] \in {"plain", "send", "data"} /\ sent + 1 \in Commands
    BY <1>s, <1>d0 DEF TypeOK
  <2>a. PICK job : job = [cmd |-> sent + 1, kind |-> kind[t]]
    OBVIOUS
  <2>1. job \in Jobs /\ job.cmd = sent + 1 /\ job.kind = kind[t] /\ todo' = Append(todo, job)
    BY <1>b, <2>0, <2>a DEF Jobs
  <2> QED
    BY <1>s, <2>1 DEF TypeOK
<1>e. Clean' => /\ Clean /\ NoneIn(line) /\ Behind /\ sem = <<>>
                /\ \A i \in DOMAIN todo : todo[i].kind = "data"
  BY <1>s, <1>a, <1>b, <1>d2 DEF Clean, LiveClean, RespInv, TodoClean
<1>f. timedOut = {} => sem = <<>> /\ p_pc \notin Posting \cup {"more"}
  BY <1>s, <1>a DEF RespInv
<1>g. \A u \in Threads : cmd[u] \in Int /\ cmd[u] <= sent
  BY <1>s, <1>n DEF LockInv, TypeOK
<1>1. TypeOK'
  BY <1>s, <1>n, <1>r, <1>d0, <1>d2, <1>b, <1>c DEF TypeOK
<1>2. LockInv'
  <2>1. \A u \in Threads : pc'[u] = "wait" <=> lock' = u
    BY <1>s, <1>n, <1>a, <1>b DEF LockInv, TypeOK
  <2>2. \A u \in Threads : pc'[u] = "data" => cmd'[u] # None
    BY <1>s, <1>n, <1>a, <1>b DEF LockInv, TypeOK
  <2>3. \A u \in Threads : cmd'[u] <= sent' /\ (u # t => cmd'[u] < sent')
    BY <1>s, <1>d0, <1>b, <1>g DEF TypeOK
  <2>4. cmd'[t] = sent' /\ sent' # None /\ resp' = sent'
    BY <1>s, <1>n, <1>d0, <1>b DEF TypeOK
  <2> QED
    BY <1>n, <1>b, <2>1, <2>2, <2>3, <2>4 DEF LockInv
<1>3. AgeInv'
  <2>1. ASSUME NEW v \in Values, v.cmd <= sent PROVE v.cmd <= sent'
    BY <1>n, <1>d0, <2>1, ValueFields
  <2>2. \A i \in Slots : buffer'[i].cmd <= sent'
    BY <1>s, <1>r, <2>1, ContentValues DEF AgeInv, TypeOK
  <2>3. \A i \in DOMAIN line' : line'[i].cmd <= sent'
    BY <1>s, <1>b, <2>1 DEF AgeInv, TypeOK
  <2>4. \A i \in DOMAIN uart' : uart'[i].cmd <= sent'
    BY <1>s, <1>b, <2>1, DeadTokens DEF AgeInv, TypeOK
  <2>5. \A i \in DOMAIN todo' : todo'[i].cmd <= sent'
    <3>1. ASSUME NEW i \in DOMAIN todo PROVE todo[i].cmd \in Int /\ todo[i].cmd <= sent
      <4>1. todo \in Seq(Jobs)
        BY <1>s DEF TypeOK
      <4>2. todo[i] \in Jobs
        BY <4>1
      <4> QED
        BY <1>s, <1>n, <4>2 DEF AgeInv, Jobs
    <3>2. ASSUME NEW i \in DOMAIN todo' PROVE i \in DOMAIN todo \/ i = Len(todo) + 1
      BY <1>c
    <3> QED
      BY <1>d0, <1>c, <3>1, <3>2
  <2> QED
    BY <2>2, <2>3, <2>4, <2>5 DEF AgeInv
<1>4. HistInv'
  <2>1. \A i \in DOMAIN sem' : sem'[i] <= sent'
    <3>1. \A i \in DOMAIN sem : sem[i] \in Int
      BY <1>s, <1>n DEF TypeOK
    <3> QED
      BY <1>s, <1>b, <1>d0, <3>1 DEF HistInv
  <2>2. \A c \in Commands : got'[c] # None => c <= sent' /\ got'[c] <= c
    BY <1>s, <1>n, <1>b, <1>d0 DEF HistInv
  <2>3. \A c \in timedOut' : c <= sent' /\ c < sent'
    BY <1>s, <1>n, <1>b, <1>d0 DEF HistInv, TypeOK
  <2>4. \A c \in unsigned' : c <= sent'
    BY <1>s, <1>n, <1>d0, <1>d2 DEF HistInv, TypeOK
  <2> QED
    BY <2>1, <2>2, <2>3, <2>4 DEF HistInv
<1>5. ReadInv'
  BY <1>s, <1>r, <1>b DEF ReadInv
<1>6. RespInv'
  BY <1>s, <1>a, <1>b DEF RespInv
<1>8. SemClean'
  BY <1>b, <1>e DEF SemClean
<1>9. SignClean'
  BY <1>d2, <1>b DEF SignClean, Clean, Sending
<1>10. LiveClean'
  BY <1>r, <1>b, <1>e DEF LiveClean, NoneIn, Behind, OwnIn
<1>11. TodoClean'
  BY <1>n, <1>r, <1>d0, <1>b, <1>e DEF TodoClean, Behind
<1>12. OrderClean'
  BY <1>r, <1>b, <1>e DEF OrderClean, NoneIn, Behind
<1>13. PostClean'
  BY <1>b, <1>f DEF PostClean, Clean
<1>14. AnswersMatch'
  BY <1>s, <1>d2, <1>b DEF AnswersMatch
<1> QED
  BY <1>1, <1>2, <1>3, <1>4, <1>5, <1>6, <1>8, <1>9, <1>10, <1>11, <1>12, <1>13, <1>14
    DEF IInv

(* A command takes a post and returns.                                       *)
LEMMA SemWaitDoneStep ==
  ASSUME NEW t \in Threads, IInv, SemWaitDone(t)
  PROVE  IInv'
<1>s. /\ TypeOK /\ LockInv /\ AgeInv /\ HistInv /\ ReadInv /\ RespInv
      /\ SemClean /\ SignClean /\ LiveClean /\ TodoClean /\ OrderClean /\ PostClean
      /\ AnswersMatch
  BY DEF IInv
<1>n. /\ MaxCommands \in Nat /\ None = 0 /\ Nobody = -1 /\ Commands = 1..MaxCommands
      /\ NoThread \notin Threads /\ MaxCommands > 0
  BY Numbers
<1>r. RingInv' /\ Content' = Content /\ Taken' = Taken /\ buffer' = buffer /\ r_pc' = r_pc
  BY <1>s, RingSame DEF TypeOK, SemWaitDone
<1>a. /\ lock = t /\ sem # <<>> /\ cmd[t] = sent /\ sent # None /\ lock # NoThread
      /\ sent \in Commands
  BY <1>s, <1>n DEF SemWaitDone, LockInv, TypeOK
<1>b. /\ sem' = Tail(sem) /\ got' = [got EXCEPT ![sent] = Head(sem)] /\ resp' = None
      /\ lock' = NoThread
      /\ \/ pc' = [pc EXCEPT ![t] = "data"] /\ cmd' = cmd
         \/ pc' = [pc EXCEPT ![t] = "idle"] /\ cmd' = [cmd EXCEPT ![t] = None]
      /\ UNCHANGED <<resp_status, end_sign, kind, sent, line, p_pc, line_counts, todo, uart,
                      noise, timedOut, unsigned>>
  BY <1>s, <1>a DEF SemWaitDone, ExecExit, parser, modem
<1>c. /\ sem' \in Seq(Commands \cup {Nobody}) /\ Head(sem) \in Commands \cup {Nobody}
      /\ Head(sem) = sem[1] /\ 1 \in DOMAIN sem
      /\ Len(sem') = Len(sem) - 1
      /\ \A i \in DOMAIN sem' : i + 1 \in DOMAIN sem /\ sem'[i] = sem[i + 1]
  BY <1>s, <1>a, <1>b DEF TypeOK
<1>e. timedOut = {} => resp = None /\ sem' = <<>> /\ p_pc \notin Posting \cup {"more"}
  BY <1>s, <1>a, <1>b, <1>c DEF RespInv, TypeOK
<1>f. Clean => /\ NoneIn(line) /\ Behind /\ Head(sem) = sent
               /\ \A i \in DOMAIN todo : todo[i].kind = "data"
  BY <1>s, <1>c, <1>e DEF Clean, LiveClean, TodoClean, SemClean
<1>g. \A u \in Threads : cmd[u] \in Int /\ cmd[u] <= sent
  BY <1>s, <1>n DEF LockInv, TypeOK
<1>1. TypeOK'
  BY <1>s, <1>n, <1>r, <1>b, <1>c DEF TypeOK
<1>2. LockInv'
  <2>1. CASE pc' = [pc EXCEPT ![t] = "data"] /\ cmd' = cmd
    BY <1>s, <1>n, <1>a, <1>b, <1>g, <2>1 DEF LockInv, TypeOK
  <2>2. CASE pc' = [pc EXCEPT ![t] = "idle"] /\ cmd' = [cmd EXCEPT ![t] = None]
    BY <1>s, <1>n, <1>a, <1>b, <1>g, <2>2 DEF LockInv, TypeOK
  <2> QED
    BY <1>b, <2>1, <2>2
<1>3. AgeInv'
  BY <1>s, <1>r, <1>b DEF AgeInv
<1>4. HistInv'
  <2>1. \A i \in DOMAIN sem' : sem'[i] <= sent'
    BY <1>s, <1>b, <1>c DEF HistInv
  <2>2. \A c \in Commands : got'[c] # None => c <= sent' /\ got'[c] <= c
    <3>1. Head(sem) <= sent /\ sent <= sent
      BY <1>s, <1>n, <1>a, <1>c DEF HistInv
    <3> QED
      BY <1>s, <1>a, <1>b, <3>1 DEF HistInv, TypeOK
  <2> QED
    BY <1>s, <1>b, <2>1, <2>2 DEF HistInv
<1>5. ReadInv'
  BY <1>s, <1>r, <1>b DEF ReadInv
<1>6. RespInv'
  BY <1>s, <1>b, <1>c DEF RespInv
<1>8. SemClean'
  BY <1>s, <1>b, <1>c DEF SemClean, Clean
<1>9. SignClean'
  BY <1>b DEF SignClean, Sending
<1>10. LiveClean'
  BY <1>s, <1>r, <1>b, <1>e DEF LiveClean, Clean, Behind
<1>11. TodoClean'
  BY <1>s, <1>b, <1>e DEF TodoClean, Clean
<1>12. OrderClean'
  BY <1>r, <1>b, <1>f DEF OrderClean, Clean, NoneIn, Behind
<1>13. PostClean'
  BY <1>b, <1>e DEF PostClean, Clean
<1>14. AnswersMatch'
  <2>1. CASE Clean
    BY <1>s, <1>n, <1>a, <1>b, <1>f, <2>1 DEF AnswersMatch, TypeOK
  <2>2. CASE ~Clean
    <3>1. (\E e \in timedOut : e < sent) \/ (\E u \in unsigned : u <= sent)
      BY <1>s, <1>a, <2>2 DEF Clean, HistInv
    <3>2. Head(sem) <= sent /\ Head(sem) \in Int /\ sent \in Int
      BY <1>s, <1>n, <1>a, <1>c DEF HistInv
    <3>3. ASSUME NEW c \in Commands, got'[c] \notin {None, c}
          PROVE  /\ got'[c] < c
                 /\ (\E e \in timedOut : e < c) \/ (\E u \in unsigned : u <= c)
      <4>1. CASE c = sent
        BY <1>s, <1>n, <1>a, <1>b, <3>1, <3>2, <3>3, <4>1 DEF TypeOK
      <4>2. CASE c # sent
        BY <1>s, <1>a, <1>b, <3>3, <4>2 DEF AnswersMatch, TypeOK
      <4> QED
        BY <4>1, <4>2
    <3> QED
      BY <1>b, <3>3 DEF AnswersMatch
  <2> QED
    BY <2>1, <2>2
<1> QED
  BY <1>1, <1>2, <1>3, <1>4, <1>5, <1>6, <1>8, <1>9, <1>10, <1>11, <1>12, <1>13, <1>14
    DEF IInv

(* A command gives up: nothing is clean from here on.                        *)
LEMMA SemWaitTimeoutStep ==
  ASSUME NEW t \in Threads, IInv, SemWaitTimeout(t)
  PROVE  IInv'
<1>s. /\ TypeOK /\ LockInv /\ AgeInv /\ HistInv /\ ReadInv /\ RespInv
      /\ SemClean /\ SignClean /\ LiveClean /\ TodoClean /\ OrderClean /\ PostClean
      /\ AnswersMatch
  BY DEF IInv
<1>n. /\ MaxCommands \in Nat /\ None = 0 /\ Nobody = -1 /\ Commands = 1..MaxCommands
      /\ NoThread \notin Threads /\ MaxCommands > 0
  BY Numbers
<1>r. RingInv' /\ Content' = Content /\ Taken' = Taken /\ buffer' = buffer /\ r_pc' = r_pc
  BY <1>s, RingSame DEF TypeOK, SemWaitTimeout
<1>a. /\ lock = t /\ sem = <<>> /\ cmd[t] = sent /\ sent # None /\ lock # NoThread
      /\ sent \in Commands
  BY <1>s, <1>n DEF SemWaitTimeout, LockInv, TypeOK
<1>b. /\ timedOut' = timedOut \cup {sent} /\ resp' = None /\ lock' = NoThread
      /\ pc' = [pc EXCEPT ![t] = "idle"] /\ cmd' = [cmd EXCEPT ![t] = None]
      /\ UNCHANGED <<resp_status, end_sign, sem, kind, sent, line, p_pc, line_counts, todo,
                      uart, noise, got, unsigned>>
  BY <1>s, <1>a DEF SemWaitTimeout, ExecExit, parser, modem
<1>c. ~Clean' /\ timedOut' # {}
  BY <1>b DEF Clean
<1>1. TypeOK'
  BY <1>s, <1>n, <1>r, <1>a, <1>b DEF TypeOK
<1>2. LockInv'
  BY <1>s, <1>n, <1>a, <1>b DEF LockInv, TypeOK
<1>3. AgeInv'
  BY <1>s, <1>r, <1>b DEF AgeInv
<1>4. HistInv'
  BY <1>s, <1>n, <1>a, <1>b DEF HistInv
<1>5. ReadInv'
  BY <1>s, <1>r, <1>b DEF ReadInv
<1>6. RespInv'
  BY <1>c DEF RespInv
<1>8. SemClean'
  BY <1>c DEF SemClean
<1>9. SignClean'
  BY <1>c DEF SignClean
<1>10. LiveClean'
  BY <1>c DEF LiveClean
<1>11. TodoClean'
  BY <1>c DEF TodoClean
<1>12. OrderClean'
  BY <1>c DEF OrderClean
<1>13. PostClean'
  BY <1>c DEF PostClean
<1>14. AnswersMatch'
  BY <1>s, <1>b DEF AnswersMatch
<1> QED
  BY <1>1, <1>2, <1>3, <1>4, <1>5, <1>6, <1>8, <1>9, <1>10, <1>11, <1>12, <1>13, <1>14
    DEF IInv

(* The end sign is reset: a CIPSEND that waits has lost it.                  *)
LEMMA SendDataStep ==
  ASSUME NEW t \in Threads, IInv, SendData(t)
  PROVE  IInv'
<1>s. /\ TypeOK /\ LockInv /\ AgeInv /\ HistInv /\ ReadInv /\ RespInv
      /\ SemClean /\ SignClean /\ LiveClean /\ TodoClean /\ OrderClean /\ PostClean
      /\ AnswersMatch
  BY DEF IInv
<1>n. /\ MaxCommands \in Nat /\ None = 0 /\ Nobody = -1 /\ Commands = 1..MaxCommands
      /\ NoThread \notin Threads /\ MaxCommands > 0
  BY Numbers
<1>r. RingInv' /\ Content' = Content /\ Taken' = Taken /\ buffer' = buffer /\ r_pc' = r_pc
  BY <1>s, RingSame DEF TypeOK, SendData
<1>a. lock # t /\ cmd[t] # None /\ cmd[t] \in Commands /\ cmd[t] <= sent
  BY <1>s, <1>n DEF SendData, LockInv, TypeOK
<1>b. /\ end_sign' = FALSE /\ pc' = [pc EXCEPT ![t] = "idle"]
      /\ cmd' = [cmd EXCEPT ![t] = None]
      /\ todo' = Append(todo, [cmd |-> cmd[t], kind |-> "data"])
      /\ unsigned' = unsigned \cup {cmd[u] : u \in {u \in Threads : pc[u] = "wait" /\ kind[u] = "send"}}
      /\ UNCHANGED <<lock, resp, resp_status, sem, kind, sent, line, p_pc, line_counts,
                      uart, noise, got, timedOut>>
  BY <1>s DEF SendData, client, parser
<1>c. /\ todo' \in Seq(Jobs)
      /\ Len(todo') = Len(todo) + 1 /\ Len(todo) \in Nat /\ todo'[Len(todo) + 1].cmd = cmd[t]
      /\ todo'[Len(todo) + 1].kind = "data"
      /\ \A i \in DOMAIN todo : todo'[i] = todo[i]
      /\ DOMAIN todo = 1..Len(todo) /\ DOMAIN todo' = 1..(Len(todo) + 1)
  <2>a. PICK job : job = [cmd |-> cmd[t], kind |-> "data"]
    OBVIOUS
  <2>1. job \in Jobs /\ job.cmd = cmd[t] /\ job.kind = "data" /\ todo' = Append(todo, job)
    BY <1>a, <1>b, <2>a DEF Jobs
  <2> QED
    BY <1>s, <2>1 DEF TypeOK
<1>e. \A c \in unsigned' : c \in unsigned \/ (c = sent /\ c \in Commands)
  BY <1>s, <1>n, <1>b DEF LockInv, TypeOK
<1>f. unsigned \subseteq unsigned' /\ (Clean' => Clean)
  BY <1>b DEF Clean
<1>g. Sending => unsigned' # {}
  <2>1. Sending => lock \in {u \in Threads : pc[u] = "wait" /\ kind[u] = "send"}
    BY <1>s DEF Sending, LockInv, TypeOK
  <2> QED
    BY <1>b, <2>1
<1>1. TypeOK'
  BY <1>s, <1>r, <1>b, <1>c, <1>e DEF TypeOK
<1>2. LockInv'
  BY <1>s, <1>n, <1>a, <1>b DEF LockInv, TypeOK
<1>3. AgeInv'
  BY <1>s, <1>r, <1>a, <1>b DEF AgeInv
<1>4. HistInv'
  BY <1>s, <1>n, <1>b, <1>e DEF HistInv
<1>5. ReadInv'
  BY <1>s, <1>r, <1>b DEF ReadInv
<1>6. RespInv'
  BY <1>s, <1>b DEF RespInv
<1>8. SemClean'
  BY <1>s, <1>b, <1>f DEF SemClean
<1>9. SignClean'
  BY <1>b, <1>g DEF SignClean, Clean, Sending
<1>10. LiveClean'
  BY <1>s, <1>r, <1>b, <1>f DEF LiveClean, Behind
<1>11. TodoClean'
  BY <1>s, <1>r, <1>b, <1>f DEF TodoClean, Behind
<1>12. OrderClean'
  BY <1>s, <1>r, <1>b, <1>g DEF OrderClean, Clean, Final, Behind
<1>13. PostClean'
  BY <1>s, <1>r, <1>b, <1>f DEF PostClean, Behind, Origin, Decisive
<1>14. AnswersMatch'
  BY <1>s, <1>b DEF AnswersMatch
<1> QED
  BY <1>1, <1>2, <1>3, <1>4, <1>5, <1>6, <1>8, <1>9, <1>10, <1>11, <1>12, <1>13, <1>14
    DEF IInv

(* A line nobody waits for is dropped.                                       *)
LEMMA IgnoreStep ==
  ASSUME IInv, Ignore
  PROVE  IInv'
<1>s. /\ TypeOK /\ LockInv /\ AgeInv /\ HistInv /\ ReadInv /\ RespInv
      /\ SemClean /\ SignClean /\ LiveClean /\ TodoClean /\ OrderClean /\ PostClean
      /\ AnswersMatch
  BY DEF IInv
<1>n. /\ MaxCommands \in Nat /\ None = 0 /\ Nobody = -1 /\ Commands = 1..MaxCommands
      /\ NoThread \notin Threads /\ MaxCommands > 0
  BY Numbers
<1>r. RingInv' /\ Content' = Content /\ Taken' = Taken /\ buffer' = buffer /\ r_pc' = r_pc
  BY <1>s, RingSame DEF TypeOK, Ignore
<1>b. /\ p_pc = "dispatch" /\ line' = <<>> /\ p_pc' = "readline"
      /\ UNCHANGED <<lock, resp, resp_status, end_sign, sem, pc, cmd, kind, sent,
                      line_counts, todo, uart, noise, got, timedOut, unsigned>>
  BY DEF Ignore, client, callers, modem, history
<1>1. TypeOK'
  BY <1>s, <1>r, <1>b DEF TypeOK
<1>2. LockInv'
  BY <1>s, <1>b DEF LockInv
<1>3. AgeInv'
  BY <1>s, <1>r, <1>b DEF AgeInv
<1>4. HistInv'
  BY <1>s, <1>b DEF HistInv
<1>5. ReadInv'
  BY <1>s, <1>r, <1>b DEF ReadInv, Posting
<1>6. RespInv'
  BY <1>s, <1>b DEF RespInv, Posting
<1>8. SemClean'
  BY <1>s, <1>b DEF SemClean, Clean
<1>9. SignClean'
  BY <1>s, <1>b DEF SignClean, Clean, Sending
<1>10. LiveClean'
  BY <1>s, <1>r, <1>b DEF LiveClean, Clean, NoneIn, Behind, OwnIn
<1>11. TodoClean'
  BY <1>s, <1>r, <1>b DEF TodoClean, Clean, NoneIn, Behind
<1>12. OrderClean'
  BY <1>s, <1>r, <1>b DEF OrderClean, Clean, Sending
<1>13. PostClean'
  BY <1>b DEF PostClean, Posting
<1>14. AnswersMatch'
  BY <1>s, <1>b DEF AnswersMatch
<1> QED
  BY <1>1, <1>2, <1>3, <1>4, <1>5, <1>6, <1>8, <1>9, <1>10, <1>11, <1>12, <1>13, <1>14
    DEF IInv

(* A line is counted.                                                        *)
LEMMA CopyLineStep ==
  ASSUME IInv, CopyLine
  PROVE  IInv'
<1>s. /\ TypeOK /\ LockInv /\ AgeInv /\ HistInv /\ ReadInv /\ RespInv
      /\ SemClean /\ SignClean /\ LiveClean /\ TodoClean /\ OrderClean /\ PostClean
      /\ AnswersMatch
  BY DEF IInv
<1>n. /\ MaxCommands \in Nat /\ None = 0 /\ Nobody = -1 /\ Commands = 1..MaxCommands
      /\ NoThread \notin Threads /\ MaxCommands > 0
  BY Numbers
<1>r. RingInv' /\ Content' = Content /\ Taken' = Taken /\ buffer' = buffer /\ r_pc' = r_pc
  BY <1>s, RingSame DEF TypeOK, CopyLine
<1>b. /\ p_pc = "more"
      /\ line_counts' = line_counts + 1 /\ line' = <<>> /\ p_pc' = "readline"
      /\ UNCHANGED <<lock, resp, resp_status, end_sign, sem, pc, cmd, kind, sent,
                      todo, uart, noise, got, timedOut, unsigned>>
  BY DEF CopyLine, client, callers, modem
<1>1. TypeOK'
  BY <1>s, <1>r, <1>b DEF TypeOK
<1>2. LockInv'
  BY <1>s, <1>b DEF LockInv
<1>3. AgeInv'
  BY <1>s, <1>r, <1>b DEF AgeInv
<1>4. HistInv'
  BY <1>s, <1>b DEF HistInv
<1>5. ReadInv'
  BY <1>s, <1>r, <1>b DEF ReadInv, Posting
<1>6. RespInv'
  BY <1>s, <1>b DEF RespInv
<1>8. SemClean'
  BY <1>s, <1>b DEF SemClean, Clean
<1>9. SignClean'
  BY <1>s, <1>b DEF SignClean, Clean, Sending
<1>10. LiveClean'
  BY <1>s, <1>r, <1>b DEF LiveClean, Clean, NoneIn, Behind, OwnIn
<1>11. TodoClean'
  BY <1>s, <1>r, <1>b DEF TodoClean, Clean, NoneIn, Behind
<1>12. OrderClean'
  BY <1>s, <1>r, <1>b DEF OrderClean, Clean, Sending
<1>13. PostClean'
  BY <1>b DEF PostClean, Posting
<1>14. AnswersMatch'
  BY <1>s, <1>b DEF AnswersMatch
<1> QED
  BY <1>1, <1>2, <1>3, <1>4, <1>5, <1>6, <1>8, <1>9, <1>10, <1>11, <1>12, <1>13, <1>14
    DEF IInv

(* A line of nobody completes nothing.                                       *)
LEMMA ModemPrintsStep ==
  ASSUME IInv, ModemPrints
  PROVE  IInv'
<1>s. /\ TypeOK /\ LockInv /\ AgeInv /\ HistInv /\ ReadInv /\ RespInv
      /\ SemClean /\ SignClean /\ LiveClean /\ TodoClean /\ OrderClean /\ PostClean
      /\ AnswersMatch
  BY DEF IInv
<1>n. /\ MaxCommands \in Nat /\ None = 0 /\ Nobody = -1 /\ Commands = 1..MaxCommands
      /\ NoThread \notin Threads /\ MaxCommands > 0
  BY Numbers
<1>r. RingInv' /\ Content' = Content /\ Taken' = Taken /\ buffer' = buffer /\ r_pc' = r_pc
  BY <1>s, RingSame DEF TypeOK, ModemPrints
<1>b. /\ uart = <<>> /\ uart' = <<Noise, EOL>>
      /\ UNCHANGED <<lock, resp, resp_status, end_sign, sem, pc, cmd, kind, sent,
                      line, p_pc, line_counts, todo, got, timedOut, unsigned>>
  BY DEF ModemPrints, client, callers, parser, history
<1>c. /\ uart' \in Seq(Tokens) /\ NoneIn(uart') /\ \A i \in DOMAIN uart' : uart'[i].cmd = None
  BY <1>b, DeadTokens DEF NoneIn
<1>e. \A i \in DOMAIN uart' : uart'[i].cmd <= sent
  BY <1>s, <1>n, <1>c DEF TypeOK
<1>1. TypeOK'
  BY <1>s, <1>r, <1>b, <1>c DEF TypeOK
<1>2. LockInv'
  BY <1>s, <1>b DEF LockInv
<1>3. AgeInv'
  BY <1>s, <1>r, <1>b, <1>e DEF AgeInv
<1>4. HistInv'
  BY <1>s, <1>b DEF HistInv
<1>5. ReadInv'
  BY <1>s, <1>r, <1>b DEF ReadInv
<1>6. RespInv'
  BY <1>s, <1>b DEF RespInv
<1>8. SemClean'
  BY <1>s, <1>b DEF SemClean, Clean
<1>9. SignClean'
  BY <1>s, <1>b DEF SignClean, Clean, Sending
<1>10. LiveClean'
  BY <1>s, <1>r, <1>b, <1>c DEF LiveClean, Clean, NoneIn, Behind, OwnIn
<1>11. TodoClean'
  BY <1>s, <1>r, <1>b, <1>c DEF TodoClean, Clean, Behind
<1>12. OrderClean'
  BY <1>s, <1>r, <1>b, <1>c DEF OrderClean, Clean, NoneIn, Behind, Sending
<1>13. PostClean'
  BY <1>s, <1>r, <1>b, <1>c DEF PostClean, Clean, Behind, Origin, Decisive
<1>14. AnswersMatch'
  BY <1>s, <1>b DEF AnswersMatch
<1> QED
  BY <1>1, <1>2, <1>3, <1>4, <1>5, <1>6, <1>8, <1>9, <1>10, <1>11, <1>12, <1>13, <1>14
    DEF IInv

(* A line completes the command that waits only when it ends its own answer. *)
LEMMA DispatchStep ==
  ASSUME IInv, Dispatch
  PROVE  IInv'
<1>s. /\ TypeOK /\ LockInv /\ AgeInv /\ HistInv /\ ReadInv /\ RespInv
      /\ SemClean /\ SignClean /\ LiveClean /\ TodoClean /\ OrderClean /\ PostClean
      /\ AnswersMatch
  BY DEF IInv
<1>n. /\ MaxCommands \in Nat /\ None = 0 /\ Nobody = -1 /\ Commands = 1..MaxCommands
      /\ NoThread \notin Threads /\ MaxCommands > 0
  BY Numbers
<1>r. RingInv' /\ Content' = Content /\ Taken' = Taken /\ buffer' = buffer /\ r_pc' = r_pc
  BY <1>s, RingSame DEF TypeOK, Dispatch
<1>b. /\ p_pc = "dispatch" /\ ~Ignored /\ p_pc' = Outcome
      /\ UNCHANGED <<lock, resp, resp_status, end_sign, sem, pc, cmd, kind, sent,
                      line, line_counts, todo, uart, noise, got, timedOut, unsigned>>
  BY DEF Dispatch, client, callers, history, modem
<1>c. /\ line # <<>> /\ resp # None /\ lock # NoThread /\ resp = sent /\ r_pc # "load"
      /\ r_pc \notin {"flush_w", "flush_m"}
      /\ end_sign => Last(line).txt = "prompt"
  BY <1>s, <1>n, <1>b DEF Ignored, ReadInv, LockInv
<1>e. /\ line \in Seq(Values) /\ Len(line) \in DOMAIN line /\ Last(line) = line[Len(line)]
      /\ 1 \in DOMAIN line /\ Head(line) = line[1]
  BY <1>s, <1>c DEF TypeOK, Last
<1>f. Outcome \in {"more"} \cup Posting
  BY DEF Outcome, Posting
<1>g. /\ Outcome = "prompt" => end_sign
      /\ Outcome = "error" => \E i \in DOMAIN line : line[i].txt = "error"
      /\ Outcome = "ok" => ~end_sign /\ ((Head(line).txt = "ok" /\ LineNum = 0) \/ LineNum # 0)
  <2>1. LineNum = 0 => line_counts + 1 # LineNum
    BY <1>s DEF TypeOK
  <2> DEFINE Err == \E i \in DOMAIN line : line[i].txt = "error"
  <2>2. CASE end_sign
    <3>1. Outcome = "prompt"
      BY <2>2 DEF Outcome
    <3> QED
      BY <2>2, <3>1
  <2>3. CASE ~end_sign /\ Head(line).txt = "ok" /\ LineNum = 0
    BY <2>3 DEF Outcome
  <2>4. CASE ~end_sign /\ ~(Head(line).txt = "ok" /\ LineNum = 0) /\ Err
    <3>1. Outcome = "error"
      BY <2>4, Zenon DEF Outcome
    <3> QED
      BY <2>4, <3>1
  <2>5. CASE ~end_sign /\ ~(Head(line).txt = "ok" /\ LineNum = 0) /\ ~Err
    <3>1. Outcome = IF line_counts + 1 = LineNum THEN "ok" ELSE "more"
      BY <2>5 DEF Outcome
    <3> QED
      BY <2>1, <2>5, <3>1
  <2> QED
    BY <2>2, <2>3, <2>4, <2>5
<1>h. (LineNum # 0) <=> kind[lock] = "send"
  <2>1. (LineNum # 0) <=> \E t \in Threads : cmd[t] = resp /\ kind[t] = "send"
    BY DEF LineNum
  <2>2. lock \in Threads /\ cmd[lock] = sent /\ \A t \in Threads : t # lock => cmd[t] < sent
    BY <1>s, <1>c DEF LockInv, TypeOK
  <2>3. sent \in Int /\ \A t \in Threads : cmd[t] \in Int
    BY <1>s, <1>n DEF TypeOK
  <2> QED
    BY <1>c, <2>1, <2>2, <2>3
<1>i. Clean /\ Outcome \in Posting => \E tok \in {line[i] : i \in DOMAIN line} :
                                   /\ Final(tok, Sending) /\ Live(tok)
                                   /\ Outcome = "prompt" => tok = Last(line)
                                   /\ Outcome = "ok" => tok = Head(line)
                                   /\ Outcome = "error" => tok.txt = "error"
  <2> SUFFICES ASSUME Clean, Outcome \in Posting
               PROVE  \E tok \in {line[i] : i \in DOMAIN line} :
                                   /\ Final(tok, Sending) /\ Live(tok)
                                   /\ Outcome = "prompt" => tok = Last(line)
                                   /\ Outcome = "ok" => tok = Head(line)
                                   /\ Outcome = "error" => tok.txt = "error"
    OBVIOUS
  <2>1. CASE Outcome = "prompt"
    BY <1>c, <1>e, <1>g, <2>1 DEF Final, Live, Posting
  <2>2. CASE Outcome = "error"
    BY <1>g, <2>2 DEF Final, Live, Posting
  <2>3. CASE Outcome = "ok"
    <3>1. ~Sending
      BY <1>s, <1>g, <2>3 DEF SignClean
    <3>2. LineNum = 0
      BY <1>c, <1>h, <3>1 DEF Sending
    <3> QED
      BY <1>e, <1>g, <2>3, <3>1, <3>2 DEF Final, Live, Posting
  <2> QED
    BY <2>1, <2>2, <2>3 DEF Posting
<1>1. TypeOK'
  BY <1>s, <1>r, <1>b, <1>f DEF TypeOK
<1>2. LockInv'
  BY <1>s, <1>b DEF LockInv
<1>3. AgeInv'
  BY <1>s, <1>r, <1>b DEF AgeInv
<1>4. HistInv'
  BY <1>s, <1>b DEF HistInv
<1>5. ReadInv'
  BY <1>s, <1>r, <1>b, <1>g DEF ReadInv
<1>6. RespInv'
  BY <1>s, <1>b, <1>c DEF RespInv
<1>8. SemClean'
  BY <1>s, <1>b DEF SemClean, Clean
<1>9. SignClean'
  BY <1>s, <1>b DEF SignClean, Clean, Sending
<1>10. LiveClean'
  BY <1>s, <1>r, <1>b, <1>c DEF LiveClean, Clean
<1>11. TodoClean'
  BY <1>s, <1>r, <1>b DEF TodoClean, Clean, Behind
<1>12. OrderClean'
  BY <1>s, <1>r, <1>b DEF OrderClean, Clean, Behind, Sending
<1>13. PostClean'
  <2> SUFFICES ASSUME Clean', p_pc' \in Posting
               PROVE  /\ Behind'
                      /\ \A i \in DOMAIN todo' : todo'[i].kind = "data"
                      /\ Origin' = sent'
    BY DEF PostClean
  <2>0. Clean /\ Outcome \in Posting
    BY <1>b DEF Clean
  <2>1. PICK k \in DOMAIN line : /\ Final(line[k], Sending) /\ Live(line[k])
                                 /\ Outcome = "prompt" => line[k] = Last(line)
                                 /\ Outcome = "ok" => line[k] = Head(line)
                                 /\ Outcome = "error" => line[k].txt = "error"
    BY <1>i, <2>0
  <2>2. Behind /\ Behind'
    BY <1>s, <1>r, <1>b, <2>0, <2>1 DEF OrderClean, Behind
  <2>3. \A i \in DOMAIN todo' : todo'[i].kind = "data"
    BY <1>s, <1>b, <2>0, <2>1 DEF TodoClean, NoneIn
  <2>4. Decisive' \in {line[i] : i \in DOMAIN line} /\ Live(Decisive')
    <3>1. CASE Outcome = "prompt"
      BY <1>b, <1>e, <2>1, <3>1 DEF Decisive, Last
    <3>2. CASE Outcome = "ok"
      BY <1>b, <1>e, <2>1, <3>2 DEF Decisive
    <3>3. CASE Outcome = "error"
      <4>1. Decisive' = CHOOSE tok \in {line[i] : i \in DOMAIN line} : tok.txt = "error"
        BY <1>b, <3>3 DEF Decisive
      <4>2. \E tok \in {line[i] : i \in DOMAIN line} : tok.txt = "error"
        BY <2>1, <3>3
      <4> QED
        BY <4>1, <4>2 DEF Live, Posting
    <3> QED
      BY <2>0, <3>1, <3>2, <3>3 DEF Posting
  <2>5. Origin' = sent'
    <3>1. Decisive'.cmd = sent
      BY <1>s, <2>0, <2>4 DEF LiveClean, OwnIn
    <3> QED
      BY <1>b, <2>4, <3>1 DEF Origin, Live, Posting
  <2> QED
    BY <2>2, <2>3, <2>5
<1>14. AnswersMatch'
  BY <1>s, <1>b DEF AnswersMatch
<1> QED
  BY <1>1, <1>2, <1>3, <1>4, <1>5, <1>6, <1>8, <1>9, <1>10, <1>11, <1>12, <1>13, <1>14
    DEF IInv

(* The post is made for the command that waits, and the rest of the stream   *)
(* is not of it.                                                             *)
LEMMA CompleteStep ==
  ASSUME IInv, Complete
  PROVE  IInv'
<1>s. /\ TypeOK /\ LockInv /\ AgeInv /\ HistInv /\ ReadInv /\ RespInv
      /\ SemClean /\ SignClean /\ LiveClean /\ TodoClean /\ OrderClean /\ PostClean
      /\ AnswersMatch
  BY DEF IInv
<1>n. /\ MaxCommands \in Nat /\ None = 0 /\ Nobody = -1 /\ Commands = 1..MaxCommands
      /\ NoThread \notin Threads /\ MaxCommands > 0
  BY Numbers
<1>r. RingInv' /\ Content' = Content /\ Taken' = Taken /\ buffer' = buffer /\ r_pc' = r_pc
  BY <1>s, RingSame DEF TypeOK, Complete
<1>b. /\ p_pc \in Posting /\ resp' = None
      /\ sem' = Append(sem, Origin)
      /\ line' = <<>> /\ p_pc' = "readline" /\ line_counts' = 0
      /\ UNCHANGED <<lock, end_sign, pc, cmd, kind, sent, todo, uart, noise,
                      got, timedOut, unsigned>>
  BY DEF Complete, callers, modem, Posting
<1>c. /\ line # <<>> /\ line \in Seq(Values) /\ Len(line) \in DOMAIN line
      /\ Last(line) = line[Len(line)] /\ 1 \in DOMAIN line /\ Head(line) = line[1]
  BY <1>s, <1>b DEF TypeOK, Last, ReadInv
<1>e. Decisive \in {line[i] : i \in DOMAIN line}
  <2>1. CASE p_pc = "prompt"
    BY <1>c, <2>1 DEF Decisive
  <2>2. CASE p_pc = "ok"
    BY <1>c, <2>2 DEF Decisive
  <2>3. CASE p_pc = "error"
    <3>1. \E tok \in {line[i] : i \in DOMAIN line} : tok.txt = "error"
      BY <1>s, <2>3 DEF ReadInv
    <3>2. Decisive = CHOOSE tok \in {line[i] : i \in DOMAIN line} : tok.txt = "error"
      BY <2>3 DEF Decisive
    <3> QED
      BY <3>1, <3>2
  <2> QED
    BY <1>b, <2>1, <2>2, <2>3 DEF Posting
<1>f. Origin \in Commands \cup {Nobody} /\ Origin <= sent
  <2>1. Decisive \in Values /\ Decisive.cmd <= sent
    BY <1>s, <1>c, <1>e DEF AgeInv
  <2>2. Live(Decisive) => Decisive.cmd \in Commands
    BY <2>1, ValueFields
  <2>3. Nobody <= sent
    BY <1>s, <1>n DEF TypeOK
  <2> QED
    BY <2>1, <2>2, <2>3 DEF Origin, Live, Posting
<1>g. /\ sem' \in Seq(Commands \cup {Nobody}) /\ Len(sem') = Len(sem) + 1
      /\ sem'[Len(sem) + 1] = Origin
      /\ DOMAIN sem = 1..Len(sem) /\ DOMAIN sem' = 1..(Len(sem) + 1)
      /\ \A i \in DOMAIN sem : sem'[i] = sem[i]
  BY <1>s, <1>b, <1>f DEF TypeOK
<1>h. timedOut = {} => resp # None /\ sem = <<>> /\ Len(sem) = 0 /\ lock # NoThread
  BY <1>s, <1>b DEF RespInv, LockInv
<1>i. Clean => Origin = sent /\ Behind /\ \A i \in DOMAIN todo : todo[i].kind = "data"
  BY <1>s, <1>b DEF PostClean
<1>1. TypeOK'
  BY <1>s, <1>n, <1>r, <1>b, <1>f DEF TypeOK
<1>2. LockInv'
  BY <1>s, <1>b DEF LockInv
<1>3. AgeInv'
  BY <1>s, <1>r, <1>b DEF AgeInv
<1>4. HistInv'
  BY <1>s, <1>b, <1>f DEF HistInv
<1>5. ReadInv'
  BY <1>s, <1>r, <1>b DEF ReadInv, Posting
<1>6. RespInv'
  BY <1>b, <1>h DEF RespInv, Posting
<1>8. SemClean'
  BY <1>s, <1>b, <1>i DEF SemClean, Clean
<1>9. SignClean'
  BY <1>s, <1>b DEF SignClean, Clean, Sending
<1>10. LiveClean'
  BY <1>r, <1>b, <1>i DEF LiveClean, Clean, NoneIn, Behind, OwnIn
<1>11. TodoClean'
  BY <1>b, <1>i DEF TodoClean, Clean
<1>12. OrderClean'
  BY <1>r, <1>b, <1>i DEF OrderClean, Clean, NoneIn, Behind
<1>13. PostClean'
  BY <1>b DEF PostClean, Posting
<1>14. AnswersMatch'
  BY <1>s, <1>b DEF AnswersMatch
<1> QED
  BY <1>1, <1>2, <1>3, <1>4, <1>5, <1>6, <1>8, <1>9, <1>10, <1>11, <1>12, <1>13, <1>14
    DEF IInv

(* The head of the queue is the next token.                                  *)
LEMMA ReadAdvanceStep ==
  ASSUME IInv, ReadAdvance
  PROVE  IInv'
<1>s. /\ TypeOK /\ LockInv /\ AgeInv /\ HistInv /\ ReadInv /\ RespInv
      /\ SemClean /\ SignClean /\ LiveClean /\ TodoClean /\ OrderClean /\ PostClean
      /\ AnswersMatch
  BY DEF IInv
<1>n. /\ MaxCommands \in Nat /\ None = 0 /\ Nobody = -1 /\ Commands = 1..MaxCommands
      /\ NoThread \notin Threads /\ MaxCommands > 0
  BY Numbers
<1>b. /\ p_pc = "readline" /\ PopAdvance
      /\ UNCHANGED <<lock, resp, resp_status, end_sign, sem, pc, cmd, kind, sent,
                      line, p_pc, line_counts, todo, uart, noise, got, timedOut, unsigned>>
  BY DEF ReadAdvance, client, callers, parser, modem, history
<1>c. r_pc = "idle" /\ r_pc' = "load" /\ buffer' = buffer /\ RingInv
  BY <1>s, <1>b DEF PopAdvance, TypeOK
<1>r. RingInv'
  BY <1>s, <1>b, RingInvStep DEF RingNext, TypeOK
<1>e. /\ Content # <<>> /\ Taken' = Head(Content) /\ Content' = Tail(Content)
      /\ Content \in Seq(Values) /\ Content' \in Seq(Values)
  <2>1. Content # <<>> /\ Taken' = Head(Content) /\ Content' = Tail(Content)
    BY <1>b, <1>c, <1>r, PopRefines
  <2> QED
    BY <1>c, <2>1, ContentValues
<1>f. /\ 1 \in DOMAIN Content /\ Taken' = Content[1]
      /\ \A i \in DOMAIN Content' :
           i \in Int /\ i >= 1 /\ i + 1 \in DOMAIN Content /\ Content'[i] = Content[i + 1]
  BY <1>e
<1>1. TypeOK'
  BY <1>s, <1>b, <1>r DEF TypeOK
<1>2. LockInv'
  BY <1>s, <1>b DEF LockInv
<1>3. AgeInv'
  BY <1>s, <1>b, <1>c DEF AgeInv
<1>4. HistInv'
  BY <1>s, <1>b DEF HistInv
<1>5. ReadInv'
  BY <1>s, <1>b, <1>c DEF ReadInv
<1>6. RespInv'
  BY <1>s, <1>b DEF RespInv
<1>8. SemClean'
  BY <1>s, <1>b DEF SemClean, Clean
<1>9. SignClean'
  BY <1>s, <1>b DEF SignClean, Clean, Sending
<1>10. LiveClean'
  BY <1>s, <1>b, <1>f DEF LiveClean, Clean, NoneIn, Behind, OwnIn
<1>11. TodoClean'
  BY <1>s, <1>b, <1>f DEF TodoClean, Clean, NoneIn, Behind
<1>12. OrderClean'
  <2> SUFFICES ASSUME Clean' PROVE OrderClean'
    BY DEF OrderClean
  <2>0. Clean /\ Sending' = Sending
    BY <1>b DEF Clean, Sending
  <2>1. \A i, j \in DOMAIN uart' : i < j /\ Final(uart'[i], Sending') => ~Live(uart'[j])
    BY <1>s, <1>b, <2>0 DEF OrderClean
  <2>2. \A i, j \in DOMAIN Content' : i < j /\ Final(Content'[i], Sending') => ~Live(Content'[j])
    BY <1>s, <1>f, <2>0 DEF OrderClean
  <2>3. \A i \in DOMAIN Content' : Final(Content'[i], Sending') => NoneIn(uart')
    BY <1>s, <1>b, <1>f, <2>0 DEF OrderClean
  <2>4. Final(Taken', Sending') => NoneIn(Content') /\ NoneIn(uart')
    <3>1. ASSUME Final(Content[1], Sending) PROVE NoneIn(Content')
      BY <1>s, <1>f, <2>0, <3>1 DEF OrderClean, NoneIn
    <3> QED
      BY <1>s, <1>b, <1>f, <2>0, <3>1 DEF OrderClean
  <2>5. \A i \in DOMAIN line' : Final(line'[i], Sending') => Behind'
    BY <1>s, <1>b, <1>f, <2>0 DEF OrderClean, Behind, NoneIn
  <2> QED
    BY <2>1, <2>2, <2>3, <2>4, <2>5 DEF OrderClean
<1>13. PostClean'
  BY <1>b DEF PostClean, Posting
<1>14. AnswersMatch'
  BY <1>s, <1>b DEF AnswersMatch
<1> QED
  BY <1>1, <1>2, <1>3, <1>4, <1>5, <1>6, <1>8, <1>9, <1>10, <1>11, <1>12, <1>13, <1>14
    DEF IInv

(* The next token of the modem enters the queue, or is lost.                 *)
LEMMA InterruptStep ==
  ASSUME IInv, Interrupt
  PROVE  IInv'
<1>s. /\ TypeOK /\ LockInv /\ AgeInv /\ HistInv /\ ReadInv /\ RespInv
      /\ SemClean /\ SignClean /\ LiveClean /\ TodoClean /\ OrderClean /\ PostClean
      /\ AnswersMatch
  BY DEF IInv
<1>n. /\ MaxCommands \in Nat /\ None = 0 /\ Nobody = -1 /\ Commands = 1..MaxCommands
      /\ NoThread \notin Threads /\ MaxCommands > 0
  BY Numbers
<1>b. /\ uart # <<>> /\ Push(Head(uart)) /\ uart' = Tail(uart)
      /\ UNCHANGED <<lock, resp, resp_status, end_sign, sem, pc, cmd, kind, sent,
                      line, p_pc, line_counts, todo, noise, got, timedOut, unsigned>>
  BY DEF Interrupt, client, callers, parser, history
<1>c. /\ uart' \in Seq(Tokens) /\ Head(uart) \in Tokens /\ Head(uart) = uart[1]
      /\ 1 \in DOMAIN uart
      /\ \A i \in DOMAIN uart' :
           i \in Int /\ i >= 1 /\ i + 1 \in DOMAIN uart /\ uart'[i] = uart[i + 1]
  BY <1>s, <1>b DEF TypeOK
<1>d. /\ r_pc' = r_pc /\ readpoint' = readpoint
      /\ (buffer' = buffer \/ \E k \in Slots : buffer' = [buffer EXCEPT ![k] = uart[1]])
  <2>1. Succ(writepoint) \in Slots
    BY <1>s, SuccValue DEF TypeOK, RingInv, RingTypeOK
  <2> QED
    BY <1>b, <1>c, <2>1 DEF Push
<1>r. RingInv /\ RingInv'
  BY <1>s, <1>b, <1>c, RingInvStep, DeadTokens DEF RingNext, TypeOK
<1>e. Taken' = Taken /\ (Content' = Append(Content, Head(uart)) \/ Content' = Content)
  BY <1>b, <1>c, <1>r, PushRefines, DeadTokens
<1>f. /\ Content \in Seq(Values) /\ Head(uart) \in Values
  BY <1>c, <1>r, ContentValues, DeadTokens
<1>g. /\ DOMAIN Content = 1..Len(Content) /\ Len(Content) \in Nat
      /\ \A i \in DOMAIN Content' : \/ i \in DOMAIN Content /\ Content'[i] = Content[i]
                                    \/ i = Len(Content) + 1 /\ Content'[i] = uart[1]
  BY <1>c, <1>e, <1>f
<1>h. NoneIn(uart) => NoneIn(uart') /\ ~Live(uart[1])
  BY <1>c DEF NoneIn
<1>i. Behind => Behind'
  <2>1. NoneIn(Content) /\ NoneIn(uart) => NoneIn(Content')
    BY <1>g, <1>h DEF NoneIn
  <2> QED
    BY <1>d, <1>e, <1>h, <2>1 DEF Behind
<1>j. \A c : OwnIn(uart, c) /\ OwnIn(Content, c) => OwnIn(uart', c) /\ OwnIn(Content', c)
  BY <1>c, <1>g DEF OwnIn
<1>1. TypeOK'
  BY <1>s, <1>b, <1>r DEF TypeOK
<1>2. LockInv'
  BY <1>s, <1>b DEF LockInv
<1>3. AgeInv'
  <2>1. uart[1].cmd <= sent /\ buffer \in [Slots -> Values]
    BY <1>s, <1>c, <1>r, ContentValues DEF AgeInv
  <2>2. \A i \in Slots : buffer'[i].cmd <= sent
    BY <1>s, <1>d, <2>1 DEF AgeInv
  <2> QED
    BY <1>s, <1>b, <1>c, <2>2 DEF AgeInv
<1>4. HistInv'
  BY <1>s, <1>b DEF HistInv
<1>5. ReadInv'
  BY <1>s, <1>b, <1>d DEF ReadInv
<1>6. RespInv'
  BY <1>s, <1>b DEF RespInv
<1>8. SemClean'
  BY <1>s, <1>b DEF SemClean, Clean
<1>9. SignClean'
  BY <1>s, <1>b DEF SignClean, Clean, Sending
<1>10. LiveClean'
  <2>1. Clean' => Clean
    BY <1>b DEF Clean
  <2> QED
    BY <1>s, <1>b, <1>d, <1>e, <1>i, <1>j, <2>1 DEF LiveClean
<1>11. TodoClean'
  <2>1. Clean' => Clean
    BY <1>b DEF Clean
  <2> QED
    BY <1>s, <1>b, <1>i, <2>1 DEF TodoClean
<1>12. OrderClean'
  <2> SUFFICES ASSUME Clean' PROVE OrderClean'
    BY DEF OrderClean
  <2>0. Clean /\ Sending' = Sending
    BY <1>b DEF Clean, Sending
  <2>1. \A i, j \in DOMAIN uart' : i < j /\ Final(uart'[i], Sending') => ~Live(uart'[j])
    BY <1>s, <1>c, <2>0 DEF OrderClean
  <2>a. NoneIn(uart) => NoneIn(uart') /\ ~Live(uart[1])
    BY <1>c DEF NoneIn
  <2>b. ASSUME Final(uart[1], Sending) PROVE NoneIn(uart')
    BY <1>s, <1>c, <2>0, <2>b DEF OrderClean, NoneIn
  <2>2. \A i, j \in DOMAIN Content' : i < j /\ Final(Content'[i], Sending') => ~Live(Content'[j])
    BY <1>s, <1>g, <2>0, <2>a DEF OrderClean
  <2>3. \A i \in DOMAIN Content' : Final(Content'[i], Sending') => NoneIn(uart')
    BY <1>s, <1>g, <2>0, <2>a, <2>b DEF OrderClean
  <2>c. NoneIn(Content) /\ NoneIn(uart) => NoneIn(Content')
    BY <1>g, <2>a DEF NoneIn
  <2>4. r_pc' = "load" /\ Final(Taken', Sending') => NoneIn(Content') /\ NoneIn(uart')
    BY <1>s, <1>d, <1>e, <2>0, <2>a, <2>c DEF OrderClean
  <2>5. \A i \in DOMAIN line' : Final(line'[i], Sending') => Behind'
    BY <1>s, <1>b, <1>d, <1>e, <2>0, <2>a, <2>c DEF OrderClean, Behind
  <2> QED
    BY <2>1, <2>2, <2>3, <2>4, <2>5 DEF OrderClean
<1>13. PostClean'
  <2>1. Clean' => Clean
    BY <1>b DEF Clean
  <2>2. Origin' = Origin
    BY <1>b DEF Origin, Decisive
  <2> QED
    BY <1>s, <1>b, <1>i, <2>1, <2>2 DEF PostClean
<1>14. AnswersMatch'
  BY <1>s, <1>b DEF AnswersMatch
<1> QED
  BY <1>1, <1>2, <1>3, <1>4, <1>5, <1>6, <1>8, <1>9, <1>10, <1>11, <1>12, <1>13, <1>14
    DEF IInv

(* The token joins the line.                                                 *)
LEMMA ReadLoadStep ==
  ASSUME IInv, ReadLoad
  PROVE  IInv'
<1>s. /\ TypeOK /\ LockInv /\ AgeInv /\ HistInv /\ ReadInv /\ RespInv
      /\ SemClean /\ SignClean /\ LiveClean /\ TodoClean /\ OrderClean /\ PostClean
      /\ AnswersMatch
  BY DEF IInv
<1>n. /\ MaxCommands \in Nat /\ None = 0 /\ Nobody = -1 /\ Commands = 1..MaxCommands
      /\ NoThread \notin Threads /\ MaxCommands > 0
  BY Numbers
<1>a. r_pc = "load" /\ r_pc' = "idle" /\ buffer' = buffer /\ popped' = Taken /\ PopLoad
  BY DEF ReadLoad, PopLoad, Taken
<1>b. /\ line' \in {Append(line, Taken), <<>>, line}
      /\ p_pc' \in {"readline", "dispatch", "flush"}
      /\ p_pc' = "dispatch" => line' = Append(line, Taken)
      /\ UNCHANGED <<lock, resp, resp_status, end_sign, sem, pc, cmd, kind, sent,
                      line_counts, todo, uart, noise, got, timedOut, unsigned>>
  BY <1>a DEF ReadLoad, client, callers, modem, history
<1>r. RingInv' /\ Content' = Content
  BY <1>s, <1>a, RingInvStep, LoadRefines DEF RingNext, TypeOK
<1>c. Taken \in Values /\ line \in Seq(Values) /\ Taken.cmd <= sent
  BY <1>s, <1>a, ContentValues DEF TypeOK, AgeInv, Taken, RingInv, RingTypeOK
<1>e. /\ line' \in Seq(Values) /\ (p_pc' = "dispatch" => line' # <<>>)
      /\ \A i \in DOMAIN line' : (i \in DOMAIN line /\ line'[i] = line[i]) \/ line'[i] = Taken
  <2>1. CASE line' = Append(line, Taken)
    BY <1>c, <2>1
  <2>2. CASE line' = <<>>
    BY <1>c, <1>b, <2>2
  <2>3. CASE line' = line
    BY <1>c, <1>b, <2>3
  <2> QED
    BY <1>b, <2>1, <2>2, <2>3
<1>f. p_pc = "readline" /\ (Behind => Behind') /\ (NoneIn(line) /\ Behind => NoneIn(line'))
  BY <1>s, <1>a, <1>b, <1>r, <1>e DEF ReadInv, Behind, NoneIn
<1>1. TypeOK'
  BY <1>s, <1>b, <1>r, <1>e DEF TypeOK
<1>2. LockInv'
  BY <1>s, <1>b DEF LockInv
<1>3. AgeInv'
  BY <1>s, <1>a, <1>b, <1>c DEF AgeInv
<1>4. HistInv'
  BY <1>s, <1>b DEF HistInv
<1>5. ReadInv'
  BY <1>a, <1>b DEF ReadInv, Posting
<1>6. RespInv'
  BY <1>s, <1>b DEF RespInv, Posting
<1>8. SemClean'
  BY <1>s, <1>b DEF SemClean, Clean
<1>9. SignClean'
  BY <1>s, <1>b DEF SignClean, Clean, Sending
<1>10. LiveClean'
  BY <1>s, <1>a, <1>b, <1>r, <1>f DEF LiveClean, Clean, OwnIn
<1>11. TodoClean'
  BY <1>s, <1>b, <1>f DEF TodoClean, Clean
<1>12. OrderClean'
  <2> SUFFICES ASSUME Clean' PROVE OrderClean'
    BY DEF OrderClean
  <2>0. Clean /\ Sending' = Sending
    BY <1>b DEF Clean, Sending
  <2>1. \A i \in DOMAIN line' : Final(line'[i], Sending') => Behind'
    <3>1. Final(Taken, Sending) => Behind'
      BY <1>s, <1>a, <1>b, <1>r, <2>0 DEF OrderClean, Behind
    <3> QED
      BY <1>s, <1>e, <1>f, <2>0, <3>1 DEF OrderClean
  <2> QED
    BY <1>s, <1>a, <1>b, <1>r, <2>0, <2>1 DEF OrderClean
<1>13. PostClean'
  BY <1>b DEF PostClean, Posting
<1>14. AnswersMatch'
  BY <1>s, <1>b DEF AnswersMatch
<1> QED
  BY <1>1, <1>2, <1>3, <1>4, <1>5, <1>6, <1>8, <1>9, <1>10, <1>11, <1>12, <1>13, <1>14
    DEF IInv

(* A partial line, or the token in flight, is forgotten.                     *)
LEMMA ReadTimeoutStep ==
  ASSUME IInv, ReadTimeout
  PROVE  IInv'
<1>s. /\ TypeOK /\ LockInv /\ AgeInv /\ HistInv /\ ReadInv /\ RespInv
      /\ SemClean /\ SignClean /\ LiveClean /\ TodoClean /\ OrderClean /\ PostClean
      /\ AnswersMatch
  BY DEF IInv
<1>n. /\ MaxCommands \in Nat /\ None = 0 /\ Nobody = -1 /\ Commands = 1..MaxCommands
      /\ NoThread \notin Threads /\ MaxCommands > 0
  BY Numbers
<1>b. /\ p_pc = "readline" /\ line' = <<>> /\ (UNCHANGED ringVars \/ PopLoad)
      /\ UNCHANGED <<lock, resp, resp_status, end_sign, sem, pc, cmd, kind, sent,
                      p_pc, line_counts, todo, uart, noise, got, timedOut, unsigned>>
  BY DEF ReadTimeout, client, callers, modem, history
<1>r. /\ RingInv' /\ Content' = Content /\ buffer' = buffer
      /\ (r_pc' = "load" => r_pc = "load" /\ Taken' = Taken)
      /\ (r_pc' \in {"flush_w", "flush_m"} => r_pc' = r_pc)
  <2>0. RingInv
    BY <1>s DEF TypeOK
  <2>1. CASE UNCHANGED ringVars
    BY <2>0, <2>1, RingSame
  <2>2. CASE PopLoad
    <3>1. r_pc' = "idle" /\ buffer' = buffer
      BY <2>2 DEF PopLoad
    <3> QED
      BY <2>0, <2>2, <3>1, RingInvStep, LoadRefines DEF RingNext
  <2> QED
    BY <1>b, <2>1, <2>2
<1>f. Behind => Behind'
  BY <1>b, <1>r DEF Behind
<1>1. TypeOK'
  BY <1>s, <1>b, <1>r DEF TypeOK
<1>2. LockInv'
  BY <1>s, <1>b DEF LockInv
<1>3. AgeInv'
  BY <1>s, <1>b, <1>r DEF AgeInv
<1>4. HistInv'
  BY <1>s, <1>b DEF HistInv
<1>5. ReadInv'
  BY <1>s, <1>b, <1>r DEF ReadInv, Posting
<1>6. RespInv'
  BY <1>s, <1>b DEF RespInv
<1>8. SemClean'
  BY <1>s, <1>b DEF SemClean, Clean
<1>9. SignClean'
  BY <1>s, <1>b DEF SignClean, Clean, Sending
<1>10. LiveClean'
  BY <1>s, <1>b, <1>r, <1>f DEF LiveClean, Clean, NoneIn, OwnIn
<1>11. TodoClean'
  BY <1>s, <1>b, <1>f DEF TodoClean, Clean, NoneIn
<1>12. OrderClean'
  BY <1>s, <1>b, <1>r DEF OrderClean, Clean, Sending
<1>13. PostClean'
  BY <1>b DEF PostClean, Posting
<1>14. AnswersMatch'
  BY <1>s, <1>b DEF AnswersMatch
<1> QED
  BY <1>1, <1>2, <1>3, <1>4, <1>5, <1>6, <1>8, <1>9, <1>10, <1>11, <1>12, <1>13, <1>14
    DEF IInv

(* A flush empties the queue; what arrives meanwhile is lost or cleared.     *)
LEMMA FlushStep ==
  ASSUME IInv, Flush
  PROVE  IInv'
<1>s. /\ TypeOK /\ LockInv /\ AgeInv /\ HistInv /\ ReadInv /\ RespInv
      /\ SemClean /\ SignClean /\ LiveClean /\ TodoClean /\ OrderClean /\ PostClean
      /\ AnswersMatch
  BY DEF IInv
<1>n. /\ MaxCommands \in Nat /\ None = 0 /\ Nobody = -1 /\ Commands = 1..MaxCommands
      /\ NoThread \notin Threads /\ MaxCommands > 0
  BY Numbers
<1>b. /\ p_pc = "flush"
      /\ \/ FlushRead /\ p_pc' = p_pc
         \/ FlushWrite /\ p_pc' = p_pc
         \/ FlushClear /\ p_pc' = "readline"
  BY DEF Flush
<1>b2. UNCHANGED <<lock, resp, resp_status, end_sign, sem, pc, cmd, kind, sent,
                      line, line_counts, todo, uart, noise, got, timedOut, unsigned>>
  BY DEF Flush, client, callers, modem, history
<1>r. RingInv /\ RingInv'
  BY <1>s, <1>b, RingInvStep DEF RingNext, TypeOK
<1>c. /\ r_pc' # "load" /\ (r_pc' \in {"flush_w", "flush_m"} => p_pc' = "flush")
      /\ p_pc' \in {"flush", "readline"}
  BY <1>b DEF FlushRead, FlushWrite, FlushClear
<1>d. \A i \in Slots : buffer'[i] = buffer[i] \/ buffer'[i] = Zero
  BY <1>b DEF FlushRead, FlushWrite, FlushClear
<1>e. Content' = Content \/ \A i \in DOMAIN Content' : Content'[i] = Zero
  <2>1. CASE FlushRead
    BY <2>1, FlushReadRefines
  <2>2. CASE FlushWrite
    BY <1>r, <2>2, FlushWriteRefines
  <2>3. CASE FlushClear
    <3>1. Content' = [i \in 1..Len(Content) |-> Zero]
      BY <1>r, <2>3, FlushClearRefines
    <3> QED
      BY <3>1
  <2> QED
    BY <1>b, <2>1, <2>2, <2>3
<1>f. Content' = Content \/ NoneIn(Content')
  BY <1>e, DeadTokens DEF NoneIn
<1>g. Behind => Behind'
  BY <1>b2, <1>c, <1>f DEF Behind
<1>1. TypeOK'
  BY <1>s, <1>b, <1>b2, <1>r DEF TypeOK
<1>2. LockInv'
  BY <1>s, <1>b2 DEF LockInv
<1>3. AgeInv'
  <2>1. Zero.cmd <= sent
    BY <1>s, <1>n, DeadTokens DEF TypeOK
  <2>2. \A i \in Slots : buffer'[i].cmd <= sent
    BY <1>s, <1>d, <2>1 DEF AgeInv
  <2> QED
    BY <1>s, <1>b, <1>b2, <2>2 DEF AgeInv
<1>4. HistInv'
  BY <1>s, <1>b2 DEF HistInv
<1>5. ReadInv'
  BY <1>c DEF ReadInv, Posting
<1>6. RespInv'
  BY <1>s, <1>b, <1>b2 DEF RespInv, Posting
<1>8. SemClean'
  BY <1>s, <1>b2 DEF SemClean, Clean
<1>9. SignClean'
  BY <1>s, <1>b2 DEF SignClean, Clean, Sending
<1>10. LiveClean'
  BY <1>s, <1>b2, <1>c, <1>f, <1>g DEF LiveClean, Clean, NoneIn, OwnIn
<1>11. TodoClean'
  BY <1>s, <1>b2, <1>g DEF TodoClean, Clean
<1>12. OrderClean'
  <2> SUFFICES ASSUME Clean' PROVE OrderClean'
    BY DEF OrderClean
  <2>0. Clean /\ Sending' = Sending
    BY <1>b2 DEF Clean, Sending
  <2>1. CASE Content' = Content
    BY <1>s, <1>b2, <1>c, <1>g, <2>0, <2>1 DEF OrderClean
  <2>2. CASE NoneIn(Content')
    <3>1. \A i \in DOMAIN Content' : ~Final(Content'[i], Sending') /\ ~Live(Content'[i])
      BY <2>2, FinalIsLive DEF NoneIn
    <3> QED
      BY <1>s, <1>b2, <1>c, <1>g, <2>0, <3>1 DEF OrderClean
  <2> QED
    BY <1>f, <2>1, <2>2
<1>13. PostClean'
  BY <1>b DEF PostClean, Posting
<1>14. AnswersMatch'
  BY <1>s, <1>b2 DEF AnswersMatch
<1> QED
  BY <1>1, <1>2, <1>3, <1>4, <1>5, <1>6, <1>8, <1>9, <1>10, <1>11, <1>12, <1>13, <1>14
    DEF IInv

(* The modem answers a command once, and the last token that can complete it *)
(* ends the answer.                                                          *)
LEMMA ModemAnswersStep ==
  ASSUME IInv, ModemAnswers
  PROVE  IInv'
<1>s. /\ TypeOK /\ LockInv /\ AgeInv /\ HistInv /\ ReadInv /\ RespInv
      /\ SemClean /\ SignClean /\ LiveClean /\ TodoClean /\ OrderClean /\ PostClean
      /\ AnswersMatch
  BY DEF IInv
<1>n. /\ MaxCommands \in Nat /\ None = 0 /\ Nobody = -1 /\ Commands = 1..MaxCommands
      /\ NoThread \notin Threads /\ MaxCommands > 0
  BY Numbers
<1>r. RingInv' /\ Content' = Content /\ Taken' = Taken /\ buffer' = buffer /\ r_pc' = r_pc
  BY <1>s, RingSame DEF TypeOK, ModemAnswers
<1>b. /\ uart = <<>> /\ todo # <<>> /\ uart' \in AnswersTo(Head(todo)) /\ todo' = Tail(todo)
      /\ UNCHANGED <<lock, resp, resp_status, end_sign, sem, pc, cmd, kind, sent,
                      line, p_pc, line_counts, noise, got, timedOut, unsigned>>
  BY DEF ModemAnswers, client, callers, parser, history
<1>k. PICK a \in Jobs : a = todo[1] /\ a = Head(todo)
  BY <1>s, <1>b DEF TypeOK
<1>c. /\ todo' \in Seq(Jobs) /\ 1 \in DOMAIN todo
      /\ \A i \in DOMAIN todo' :
           i \in Int /\ i >= 1 /\ i + 1 \in DOMAIN todo /\ todo'[i] = todo[i + 1]
  BY <1>s, <1>b DEF TypeOK
<1>m. PICK u : u = uart'
  OBVIOUS
<1>e. /\ u \in Seq(Tokens) /\ \A i \in DOMAIN u : u[i].cmd \in {a.cmd, None}
      /\ OwnIn(u, a.cmd) /\ (a.kind = "data" => NoneIn(u))
      /\ \A i, j \in DOMAIN u : i < j /\ Final(u[i], a.kind = "send") => ~Live(u[j])
  <2> DEFINE tok(x) == [cmd |-> a.cmd, txt |-> x]
  <2>1. u \in AnswersTo(a)
    BY <1>b, <1>k, <1>m
  <2>2. /\ a.kind = "plain" => u \in {<<>>, <<tok("error"), EOL>>, <<tok("ok"), EOL>>}
        /\ a.kind = "send" => u \in {<<>>, <<tok("error"), EOL>>, <<tok("ok"), EOL, tok("prompt")>>}
        /\ a.kind = "data" => u \in {<<>>, <<tok("urc"), EOL>>}
    BY <2>1 DEF AnswersTo
  <2>3. /\ {tok("error"), tok("ok"), tok("prompt"), tok("urc"), EOL} \subseteq Tokens
        /\ \A x : tok(x).cmd = a.cmd /\ tok(x).txt = x
        /\ EOL.cmd = None /\ EOL.txt = "eol"
    BY <1>k DEF Tokens, EOL, Jobs
  <2> HIDE DEF tok
  <2>4. CASE u = <<>>
    BY <2>4 DEF OwnIn, NoneIn
  <2>5. CASE u = <<tok("error"), EOL>>
    <3>1. a.kind # "data"
      BY <2>2, <2>3, <2>5
    <3> QED
      BY <2>3, <2>5, <3>1 DEF OwnIn, Live, Final, Posting
  <2>6. CASE u = <<tok("ok"), EOL>>
    <3>1. a.kind # "data"
      BY <2>2, <2>3, <2>6
    <3> QED
      BY <2>3, <2>6, <3>1 DEF OwnIn, Live, Final, Posting
  <2>7. CASE u = <<tok("urc"), EOL>>
    BY <2>3, <2>7 DEF OwnIn, NoneIn, Live, Final, Posting
  <2>8. CASE u = <<tok("ok"), EOL, tok("prompt")>> /\ a.kind = "send"
    BY <2>3, <2>8 DEF OwnIn, NoneIn, Live, Final, Posting
  <2> QED
    BY <1>k, <2>2, <2>4, <2>5, <2>6, <2>7, <2>8 DEF Jobs
<1>f. a.cmd <= sent /\ a.cmd \in Commands /\ a.kind \in {"plain", "send", "data"}
  BY <1>s, <1>k, <1>c DEF AgeInv, Jobs
<1>g. Clean /\ a.kind # "data" =>
        a.cmd = sent /\ resp # None /\ NoneIn(line) /\ Behind /\ a.kind = kind[lock]
                               /\ \A i \in DOMAIN todo' : todo'[i].kind = "data"
  <2>1. 1 \in DOMAIN todo
    BY <1>c
  <2>2. \A i \in DOMAIN todo' : i + 1 # 1
    BY <1>c
  <2> QED
    BY <1>s, <1>k, <1>c, <2>1, <2>2 DEF TodoClean
<1>h. /\ Clean' = Clean /\ Sending' = Sending
      /\ (a.kind = "data" /\ Behind => Behind')
      /\ Clean /\ a.kind # "data" => ((a.kind = "send") <=> Sending)
  <2>1. Clean' = Clean /\ Sending' = Sending
    BY <1>b DEF Clean, Sending
  <2>2. a.kind = "data" /\ Behind => Behind'
    BY <1>r, <1>b, <1>m, <1>e DEF Behind
  <2>3. Clean /\ a.kind # "data" => ((a.kind = "send") <=> Sending)
    BY <1>s, <1>g DEF Sending, LockInv
  <2> QED
    BY <2>1, <2>2, <2>3
<1>1. TypeOK'
  BY <1>s, <1>r, <1>b, <1>m, <1>e DEF TypeOK
<1>2. LockInv'
  BY <1>s, <1>b DEF LockInv
<1>3. AgeInv'
  <2>1. \A i \in DOMAIN u : u[i].cmd <= sent
    <3>1. None <= sent
      BY <1>s, <1>n DEF TypeOK
    <3> QED
      BY <1>e, <1>f, <3>1
  <2>2. \A i \in DOMAIN todo' : todo'[i].cmd <= sent
    BY <1>s, <1>c DEF AgeInv
  <2> QED
    BY <1>s, <1>r, <1>b, <1>m, <2>1, <2>2 DEF AgeInv
<1>4. HistInv'
  BY <1>s, <1>b DEF HistInv
<1>5. ReadInv'
  BY <1>s, <1>r, <1>b DEF ReadInv
<1>6. RespInv'
  BY <1>s, <1>b DEF RespInv
<1>8. SemClean'
  BY <1>s, <1>b, <1>h DEF SemClean
<1>9. SignClean'
  BY <1>s, <1>b, <1>h DEF SignClean
<1>10. LiveClean'
  <2>1. CASE Clean /\ a.kind = "data"
    BY <1>s, <1>r, <1>b, <1>m, <1>e, <1>h, <2>1 DEF LiveClean, OwnIn, NoneIn
  <2>2. CASE Clean /\ a.kind # "data"
    BY <1>s, <1>r, <1>b, <1>m, <1>e, <1>g, <2>2 DEF LiveClean
  <2> QED
    BY <1>h, <2>1, <2>2 DEF LiveClean
<1>11. TodoClean'
  <2>1. CASE Clean /\ a.kind = "data"
    <3>1. ASSUME NEW i \in DOMAIN todo', todo'[i].kind # "data"
          PROVE  /\ resp' # None /\ NoneIn(line') /\ Behind' /\ todo'[i].kind = kind'[lock']
                 /\ \A j \in DOMAIN todo' : todo'[j].kind # "data" => j = i
                 /\ todo'[i].cmd = sent'
      <4>1. /\ i + 1 \in DOMAIN todo /\ todo'[i] = todo[i + 1] /\ i \in Int
            /\ \A j \in DOMAIN todo' : j + 1 \in DOMAIN todo /\ todo'[j] = todo[j + 1] /\ j \in Int
        BY <1>c
      <4>2. /\ resp # None /\ NoneIn(line) /\ Behind /\ todo[i + 1].kind = kind[lock]
            /\ \A j \in DOMAIN todo : todo[j].kind # "data" => j = i + 1
            /\ todo[i + 1].cmd = sent
        BY <1>s, <2>1, <3>1, <4>1 DEF TodoClean
      <4>3. Behind'
        BY <1>h, <2>1, <4>2
      <4>4. ASSUME NEW j \in DOMAIN todo', todo'[j].kind # "data" PROVE j = i
        <5>1. j + 1 = i + 1
          BY <4>1, <4>2, <4>4
        <5> QED
          BY <4>1, <5>1
      <4> QED
        BY <1>b, <4>1, <4>2, <4>3, <4>4
    <3> QED
      BY <3>1 DEF TodoClean
  <2>2. CASE Clean /\ a.kind # "data"
    BY <1>g, <2>2 DEF TodoClean
  <2> QED
    BY <1>h, <2>1, <2>2 DEF TodoClean
<1>12. OrderClean'
  <2> SUFFICES ASSUME Clean' PROVE OrderClean'
    BY DEF OrderClean
  <2>0. Clean /\ Sending' = Sending
    BY <1>h
  <2>1. CASE a.kind = "data"
    <3>1. NoneIn(u) /\ \A i \in DOMAIN u : ~Live(u[i]) /\ ~Final(u[i], Sending)
      BY <1>e, <2>1, FinalIsLive DEF NoneIn
    <3> QED
      BY <1>s, <1>r, <1>b, <1>m, <1>h, <2>0, <2>1, <3>1 DEF OrderClean
  <2>2. CASE a.kind # "data"
    <3>1. NoneIn(line) /\ NoneIn(Content) /\ (r_pc = "load" => ~Live(Taken))
      BY <1>g, <2>0, <2>2 DEF Behind
    <3>2. /\ \A i \in DOMAIN line : ~Final(line[i], Sending)
          /\ \A i \in DOMAIN Content : ~Final(Content[i], Sending)
          /\ r_pc = "load" => ~Final(Taken, Sending)
      BY <3>1, FinalIsLive DEF NoneIn
    <3>3. \A i, j \in DOMAIN u : i < j /\ Final(u[i], Sending) => ~Live(u[j])
      BY <1>e, <1>h, <2>0, <2>2 DEF Final
    <3> QED
      BY <1>r, <1>b, <1>m, <2>0, <3>2, <3>3 DEF OrderClean
  <2> QED
    BY <2>1, <2>2
<1>13. PostClean'
  <2> SUFFICES ASSUME Clean', p_pc' \in Posting
               PROVE  /\ Behind' /\ \A i \in DOMAIN todo' : todo'[i].kind = "data"
                      /\ Origin' = sent'
    BY DEF PostClean
  <2>1. Origin' = Origin
    BY <1>b DEF Origin, Decisive
  <2>2. Behind /\ (\A i \in DOMAIN todo : todo[i].kind = "data") /\ Origin = sent
    BY <1>s, <1>b, <1>h DEF PostClean
  <2>3. a.kind = "data"
    BY <1>k, <1>c, <2>2
  <2> QED
    BY <1>b, <1>c, <1>h, <2>1, <2>2, <2>3
<1>14. AnswersMatch'
  BY <1>s, <1>b DEF AnswersMatch
<1> QED
  BY <1>1, <1>2, <1>3, <1>4, <1>5, <1>6, <1>8, <1>9, <1>10, <1>11, <1>12, <1>13, <1>14
    DEF IInv

-----------------------------------------------------------------------------
(* The invariant holds at the start.                                         *)
LEMMA InitInv == Init => IInv
<1> SUFFICES ASSUME Init PROVE IInv
  OBVIOUS
<1>n. /\ MaxCommands \in Nat /\ None = 0 /\ Nobody = -1 /\ Commands = 1..MaxCommands
      /\ NoThread \notin Threads /\ MaxCommands > 0
  BY Numbers
<1>r. RingInv
  BY RingInvInit DEF Init
<1>a. /\ r_pc = "idle" /\ buffer = [i \in Slots |-> Zero]
      /\ lock = NoThread /\ resp = None /\ end_sign = FALSE /\ sem = <<>>
      /\ pc = [t \in Threads |-> "idle"] /\ cmd = [t \in Threads |-> None]
      /\ kind = [t \in Threads |-> "plain"] /\ sent = 0
      /\ line = <<>> /\ p_pc = "readline" /\ line_counts = 0
      /\ todo = <<>> /\ uart = <<>>
      /\ got = [c \in Commands |-> None] /\ timedOut = {} /\ unsigned = {}
  BY DEF Init, RingInit
<1>b. Content = <<>>
  <2>1. Content \in Seq(Values) /\ Len(Content) = 0
    BY <1>r, ContentShape, FillValue DEF ContentIs, Init, RingInit
  <2> QED
    BY <2>1
<1>c. end_sign \in BOOLEAN
  BY DEF Init
<1>1. TypeOK
  BY <1>n, <1>r, <1>a, <1>c DEF TypeOK
<1>2. LockInv
  BY <1>n, <1>a DEF LockInv
<1>3. AgeInv /\ HistInv
  BY <1>n, <1>a, DeadTokens DEF AgeInv, HistInv
<1>4. ReadInv /\ RespInv
  BY <1>n, <1>a DEF ReadInv, RespInv, Posting
<1>5. SemClean /\ SignClean /\ TodoClean /\ PostClean
  BY <1>a DEF SemClean, SignClean, TodoClean, PostClean, Sending, Posting
<1>6. LiveClean /\ OrderClean
  BY <1>a, <1>b DEF LiveClean, OrderClean, OwnIn, NoneIn, Behind
<1>7. AnswersMatch
  BY <1>a DEF AnswersMatch
<1> QED
  BY <1>1, <1>2, <1>3, <1>4, <1>5, <1>6, <1>7 DEF IInv

(* A stuttering step keeps it.                                               *)
LEMMA StutterStep == IInv /\ UNCHANGED vars => IInv'
<1> SUFFICES ASSUME IInv, UNCHANGED vars PROVE IInv'
  OBVIOUS
<1>s. /\ TypeOK /\ LockInv /\ AgeInv /\ HistInv /\ ReadInv /\ RespInv
      /\ SemClean /\ SignClean /\ LiveClean /\ TodoClean /\ OrderClean /\ PostClean
      /\ AnswersMatch
  BY DEF IInv
<1>r. RingInv' /\ Content' = Content /\ Taken' = Taken /\ buffer' = buffer /\ r_pc' = r_pc
  BY <1>s, RingSame DEF TypeOK, vars
<1>b. UNCHANGED <<lock, resp, end_sign, sem, pc, cmd, kind, sent, line, p_pc, line_counts,
                  todo, uart, got, timedOut, unsigned>>
  BY DEF vars, client, callers, parser, modem, history
<1>1. /\ TypeOK' /\ LockInv' /\ AgeInv' /\ HistInv' /\ ReadInv' /\ RespInv'
      /\ AnswersMatch'
  BY <1>s, <1>r, <1>b
    DEF TypeOK, LockInv, AgeInv, HistInv, ReadInv, RespInv, AnswersMatch
<1>2. Clean' = Clean /\ Sending' = Sending /\ Behind' = Behind /\ Origin' = Origin
  BY <1>r, <1>b DEF Clean, Sending, Behind, Origin, Decisive
<1>3. SemClean' /\ SignClean' /\ LiveClean' /\ TodoClean' /\ OrderClean' /\ PostClean'
  BY <1>s, <1>r, <1>b, <1>2
    DEF SemClean, SignClean, LiveClean, TodoClean, OrderClean, PostClean
<1> QED
  BY <1>1, <1>3 DEF IInv

(* The invariant is inductive, so that it holds in every reachable state.    *)
THEOREM Invariance == Spec => []IInv
<1>1. IInv /\ [Next]_vars => IInv'
  <2> SUFFICES ASSUME IInv, [Next]_vars PROVE IInv'
    OBVIOUS
  <2>1. ASSUME NEW t \in Threads, ThreadStep(t) PROVE IInv'
    BY <2>1, BeginStep, ExecCmdStep, SemWaitDoneStep, SemWaitTimeoutStep, SendDataStep
      DEF ThreadStep
  <2>2. CASE ParserStep
    BY <2>2, ReadAdvanceStep, ReadLoadStep, ReadTimeoutStep, FlushStep, IgnoreStep,
         DispatchStep, 
       CopyLineStep, CompleteStep DEF ParserStep
  <2>3. CASE ModemAnswers \/ ModemPrints \/ Interrupt
    BY <2>3, ModemAnswersStep, ModemPrintsStep, InterruptStep
  <2>4. CASE UNCHANGED vars
    BY <2>4, StutterStep
  <2> QED
    BY <2>1, <2>2, <2>3, <2>4 DEF Next
<1> QED
  BY <1>1, InitInv, PTL DEF Spec

(* A command of at_obj_exec_cmd is completed by its own answer as long as no *)
(* earlier command timed out and no CIPSEND up to it lost its end sign, for  *)
(* any number of threads and commands, any ring buffer and any line buffer.  *)
THEOREM AnswersOwn == Spec => []AnswersMatch
<1>1. IInv => AnswersMatch
  BY DEF IInv
<1> QED
  BY <1>1, Invariance, PTL

(* The parser thread and the receive interrupt use the ring buffer as one    *)
(* consumer and one producer, so that what they share is the bounded queue.  *)
THEOREM ClientUsesRing == Spec => RingImplementsFifo
<1>1. Init => RingInit
  BY DEF Init
<1>2. IInv /\ [Next]_vars => [RingNext]_ringVars
  <2> SUFFICES ASSUME IInv, [Next]_vars PROVE [RingNext]_ringVars
    OBVIOUS
  <2>1. ASSUME NEW t \in Threads, ThreadStep(t) PROVE [RingNext]_ringVars
    BY <2>1 DEF ThreadStep, Begin, ExecCmd, SemWaitDone, SemWaitTimeout, SendData
  <2>2. CASE Ignore \/ Dispatch \/ CopyLine \/ Complete \/ ModemAnswers \/ ModemPrints
    BY <2>2 DEF Ignore, Dispatch, CopyLine, Complete, ModemAnswers, ModemPrints
  <2>3. CASE ReadAdvance
    BY <2>3 DEF ReadAdvance, RingNext
  <2>4. CASE ReadLoad
    BY <2>4 DEF ReadLoad, RingNext
  <2>5. CASE ReadTimeout
    BY <2>5 DEF ReadTimeout, RingNext
  <2>6. CASE Flush
    BY <2>6 DEF Flush, RingNext
  <2>7. CASE Interrupt
    <3>1. Head(uart) \in Data
      BY <2>7, DeadTokens DEF Interrupt, IInv, TypeOK
    <3> QED
      BY <2>7, <3>1 DEF Interrupt, RingNext
  <2>8. CASE UNCHANGED vars
    BY <2>8 DEF vars
  <2> QED
    BY <2>1, <2>2, <2>3, <2>4, <2>5, <2>6, <2>7, <2>8 DEF Next, ParserStep
<1>3. Spec => RingSpec
  BY <1>1, <1>2, Invariance, PTL DEF Spec, RingSpec
<1> QED
  BY <1>3, RingRefinesFifo
=============================================================================
