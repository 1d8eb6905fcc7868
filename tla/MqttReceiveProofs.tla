------------------------- MODULE MqttReceiveProofs --------------------------
(* Proofs about MqttReceive: at least once (AckedIsDelivered) and at most    *)
(* once (DeliveredOnce).                                                     *)
(*                                                                           *)
(* At least once needs only where things come from (SafeInv): a packet on    *)
(* its way is one the server took, an id in the ring is that of a delivered  *)
(* message or a foreign one, a PUBACK on its way is for a message that was   *)
(* delivered or is excused.                                                  *)
(*                                                                           *)
(* At most once is about order (OnceInv). The stream keeps order and a kept  *)
(* session sends again in order, so messages reach the application for the   *)
(* first time in the order they were taken, and the ring holds the latest of *)
(* them with the oldest next to be overwritten. A packet that is read again  *)
(* was kept by the server when it was sent, and so were all that were        *)
(* delivered after it: the server's window bounds their number, and a ring   *)
(* as long as the window cannot have overwritten the packet's id.            *)
EXTENDS MqttReceive, FiniteSetTheorems, TLAPS

-----------------------------------------------------------------------------
(* The inductive invariant.                                                  *)

(* A session's messages have the ids 1, 2, ... in the order they are taken:  *)
(* message m of the session in progress has the id m - Base.                 *)
Base == (taken + 1) - next_id

(* What entitles a message to its PUBACK.                                    *)
Got(m) == delivered[m] > 0 \/ m \in excused

(* The packets the server keeps.                                             *)
Sent == {inflight[i] : i \in DOMAIN inflight}

NumInv ==
  /\ next_id <= taken + 1
  /\ Len(inflight) <= MaxInflight
  /\ \A m \in Messages : delivered[m] > 0 => m <= taken

LinkInv == ~is_connected => down = <<>> /\ up = <<>> /\ ~partial

(* Packets are of the session in progress; the server keeps them in order.   *)
Current(p) == p.msg = p.id + Base /\ p.id < next_id
PacketInv ==
  /\ \A i \in DOMAIN down : Current(down[i])
  /\ \A i \in DOMAIN inflight : Current(inflight[i])
  /\ \A i, j \in DOMAIN inflight : i < j => inflight[i].id < inflight[j].id

(* A cell written in this session by a packet that was read as it was sent.  *)
Fresh(c) == repeat_packet_id_buf[c] # 0 /\ repeat_packet_id_buf[c] \notin foreign
RingInv ==
  /\ \A c \in Cells : Fresh(c) => /\ repeat_packet_id_buf[c] < next_id
                                  /\ delivered[repeat_packet_id_buf[c] + Base] > 0
  /\ \A c, d \in Cells : c # d /\ repeat_packet_id_buf[c] = repeat_packet_id_buf[d]
                         => repeat_packet_id_buf[c] = 0

(* A PUBACK on its way is for a message that is entitled to it.              *)
UpInv == \A i \in DOMAIN up :
           up[i].misread \/ (up[i].id < next_id /\ Got(up[i].id + Base))

SafeInv == NumInv /\ LinkInv /\ PacketInv /\ RingInv /\ UpInv /\ AckedIsDelivered

(* The rest of the invariant holds while nothing is displaced and the ring   *)
(* is at least as long as the server's window.                               *)

(* A packet that HandlePublish is to deliver once.                           *)
Expected(p) == p.msg \notin excused /\ p.msg \notin Oversized
Acked(p)    == \E i \in DOMAIN up : up[i].id = p.id
Queued(p)   == \E i \in DOMAIN down : down[i] = p

(* A packet that is waited for is on its way, or its PUBACK is.              *)
CoverInv == is_connected => \A p \in Sent : Expected(p) => Acked(p) \/ Queued(p)

(* PUBACKs, and the packets they will be for, come in the order of the ids,  *)
(* but for repeated ones.                                                    *)
AckOrder == \A p \in Sent : Expected(p) =>
              \A j \in DOMAIN up : p.id < up[j].id =>
                 \E i \in DOMAIN up : i < j /\ up[i].id = p.id
DownOrder == \A p \in Sent : Expected(p) =>
               \A j \in DOMAIN down : p.id < down[j].id =>
                  Acked(p) \/ \E i \in DOMAIN down : i < j /\ down[i] = p

(* What is on its way for the first time is still kept by the server.        *)
NewInv == \A i \in DOMAIN down :
            Expected(down[i]) /\ delivered[down[i].msg] = 0 => down[i] \in Sent

(* Messages are delivered in the order they were taken.                      *)
InOrder == \A p \in Sent : Expected(p) /\ delivered[p.msg] = 0 =>
             \A m \in Messages : delivered[m] > 0 => m < p.msg

(* What was delivered after a packet that the server keeps is also kept.     *)
KeptInv == \A p \in Sent : Expected(p) =>
             \A m \in Messages : p.msg < m /\ delivered[m] > 0 => \E q \in Sent : q.msg = m

(* The ring: cell c was written before cell d. The cells of this session are *)
(* the youngest and in the order of the ids.                                 *)
Older(c, d) == IF (c < current_packet_id_cnt) <=> (d < current_packet_id_cnt)
               THEN c < d ELSE d < current_packet_id_cnt
AgeInv == \A c, d \in Cells : Older(c, d) /\ Fresh(c) =>
            Fresh(d) /\ repeat_packet_id_buf[c] < repeat_packet_id_buf[d]

(* A delivered message is in the ring, or the ring is full of later ones.    *)
HeldInv == \A m \in Messages : Base < m /\ delivered[m] > 0 =>
             /\ m - Base \notin foreign
             /\ \/ _get_packet_id_in_repeat_buf(m - Base)
                \/ \A c \in Cells : Fresh(c) /\ m - Base < repeat_packet_id_buf[c]

(* The later messages that can be in the ring when down[k] is read: they are *)
(* fewer than the server's window.                                           *)
Ahead(k) == {m \in Messages : /\ down[k].msg < m
                              /\ \/ delivered[m] > 0
                                 \/ \E i \in DOMAIN down : i < k /\ down[i].msg = m /\ Expected(down[i])}
WindowInv == \A k \in DOMAIN down : Expected(down[k]) => Cardinality(Ahead(k)) < MaxInflight

Genuine == \A i \in DOMAIN up : ~up[i].misread
Once    == \A m \in Messages : delivered[m] <= 1

OrderInv == CoverInv /\ AckOrder /\ DownOrder /\ NewInv /\ InOrder /\ KeptInv
CellInv  == AgeInv /\ HeldInv
OnceInv  == OrderInv /\ CellInv /\ WindowInv /\ Genuine /\ Once
Window   == MaxInflight <= MQTT_MAX_REPEAT_BUF_LEN
IInv     == TypeOK /\ SafeInv /\ (Window /\ ~displaced => OnceInv)

-----------------------------------------------------------------------------
(* Constants, sequences and the ring.                                        *)

Acks == [id : Ids, misread : BOOLEAN]

(* The constants are numbers in their ranges.                                *)
LEMMA Numbers ==
  /\ MQTT_MAX_REPEAT_BUF_LEN \in Nat /\ MQTT_MAX_REPEAT_BUF_LEN >= 1
  /\ MaxInflight \in Nat /\ MaxInflight >= 1
  /\ MaxId \in Nat /\ MaxId >= 1
  /\ MaxMessages \in Nat /\ MaxMessages >= 1
  /\ MaxDrops \in Nat /\ MaxFaults \in Nat
  /\ Oversized \subseteq Messages
  BY ReceiveAssumption DEF Messages

(* A sequence without its head.                                              *)
LEMMA TailIs ==
  ASSUME NEW S, NEW s \in Seq(S), s # <<>>
  PROVE  /\ Tail(s) \in Seq(S) /\ Head(s) \in S /\ 1 \in DOMAIN s /\ Head(s) = s[1]
         /\ \A i \in DOMAIN Tail(s) :
              i \in Int /\ i >= 1 /\ i + 1 \in DOMAIN s /\ Tail(s)[i] = s[i + 1]
         /\ \A i \in DOMAIN s :
              i \in Int /\ i >= 1 /\ (i # 1 => i - 1 \in DOMAIN Tail(s) /\ Tail(s)[i - 1] = s[i])
<1>1. Len(s) \in Nat /\ Len(s) >= 1 /\ DOMAIN s = 1..Len(s)
  OBVIOUS
<1>2. /\ Tail(s) \in Seq(S) /\ Head(s) \in S /\ Head(s) = s[1]
      /\ DOMAIN Tail(s) = 1..(Len(s) - 1)
  BY <1>1
<1>3. \A i \in 1..(Len(s) - 1) : Tail(s)[i] = s[i + 1]
  BY <1>1
<1> QED
  BY <1>1, <1>2, <1>3

(* A sequence with one element more.                                         *)
LEMMA AppendIs ==
  ASSUME NEW S, NEW s \in Seq(S), NEW e \in S
  PROVE  /\ Append(s, e) \in Seq(S) /\ Len(s) \in Nat /\ Len(Append(s, e)) = Len(s) + 1
         /\ DOMAIN s = 1..Len(s) /\ DOMAIN Append(s, e) = 1..(Len(s) + 1)
         /\ Append(s, e)[Len(s) + 1] = e
         /\ \A i \in DOMAIN s :
              i \in Int /\ i < Len(s) + 1 /\ i \in DOMAIN Append(s, e) /\ Append(s, e)[i] = s[i]
         /\ \A i \in DOMAIN Append(s, e) : i # Len(s) + 1 => i \in DOMAIN s
<1>1. Len(s) \in Nat /\ DOMAIN s = 1..Len(s)
  OBVIOUS
<1>2. Append(s, e) \in Seq(S) /\ Len(Append(s, e)) = Len(s) + 1 /\ DOMAIN Append(s, e) = 1..(Len(s) + 1)
  BY <1>1
<1>3. Append(s, e)[Len(s) + 1] = e /\ \A i \in 1..Len(s) : Append(s, e)[i] = s[i]
  BY <1>1
<1> QED
  BY <1>1, <1>2, <1>3

(* A sequence without its element i.                                         *)
LEMMA RemoveAtIs ==
  ASSUME NEW S, NEW s \in Seq(S), NEW i \in DOMAIN s
  PROVE  /\ RemoveAt(s, i) \in Seq(S) /\ Len(RemoveAt(s, i)) = Len(s) - 1 /\ Len(s) \in Nat
         /\ DOMAIN s = 1..Len(s) /\ DOMAIN RemoveAt(s, i) = 1..(Len(s) - 1)
         /\ \A k \in DOMAIN RemoveAt(s, i) :
              /\ k \in Int /\ k \in DOMAIN s /\ k + 1 \in DOMAIN s
              /\ k < i => RemoveAt(s, i)[k] = s[k]
              /\ k >= i => RemoveAt(s, i)[k] = s[k + 1]
<1>0. i \in Int /\ i >= 1 /\ i <= Len(s) /\ Len(s) \in Nat /\ DOMAIN s = 1..Len(s)
  OBVIOUS
<1>1. PICK a : a = SubSeq(s, 1, i - 1)
  OBVIOUS
<1>2. PICK b : b = SubSeq(s, i + 1, Len(s))
  OBVIOUS
<1>3. a \in Seq(S) /\ Len(a) = i - 1 /\ \A k \in 1..(i - 1) : a[k] = s[k]
  BY <1>0, <1>1
<1>4. b \in Seq(S) /\ Len(b) = Len(s) - i /\ \A k \in 1..(Len(s) - i) : b[k] = s[k + i]
  BY <1>0, <1>2
<1>5. RemoveAt(s, i) = a \o b
  BY <1>1, <1>2 DEF RemoveAt
<1>6. a \o b \in Seq(S) /\ Len(a \o b) = Len(s) - 1 /\ DOMAIN (a \o b) = 1..(Len(s) - 1)
  <2>1. a \in Seq(S) /\ b \in Seq(S)
    BY <1>3, <1>4
  <2>2. a \o b \in Seq(S) /\ Len(a \o b) = Len(a) + Len(b)
    BY <2>1
  <2>3. Len(a) + Len(b) = Len(s) - 1
    BY <1>0, <1>3, <1>4
  <2> QED
    BY <2>2, <2>3
<1>7. ASSUME NEW k \in 1..(Len(s) - 1), k < i PROVE (a \o b)[k] = s[k]
  BY <1>0, <1>3, <1>4, <1>7
<1>8. ASSUME NEW k \in 1..(Len(s) - 1), k >= i PROVE (a \o b)[k] = s[k + 1]
  <2>1. (a \o b)[k] = b[k - (i - 1)]
    <3>1. a \in Seq(S) /\ b \in Seq(S) /\ Len(a) = i - 1 /\ Len(b) = Len(s) - i
      BY <1>3, <1>4
    <3>2. k \in Int /\ k > Len(a) /\ k <= Len(a) + Len(b)
      BY <1>0, <1>8, <3>1
    <3>3. (a \o b)[k] = b[k - Len(a)]
      BY SMTT(30), <3>1, <3>2
    <3> QED
      BY <3>1, <3>3
  <2>2. k - (i - 1) \in 1..(Len(s) - i) /\ k - (i - 1) + i = k + 1
    BY <1>0, <1>8
  <2>3. b[k - (i - 1)] = s[k - (i - 1) + i]
    BY <1>4, <2>2
  <2> QED
    BY <2>1, <2>2, <2>3
<1>9. \A k \in 1..(Len(s) - 1) : k \in Int /\ k \in 1..Len(s) /\ k + 1 \in 1..Len(s)
  BY <1>0
<1> QED
  BY <1>0, <1>5, <1>6, <1>7, <1>8, <1>9

(* What _add_packet_id_to_repeat_buf does, without the remainder.            *)
LEMMA AddIs ==
  ASSUME TypeOK, NEW id \in Ids, _add_packet_id_to_repeat_buf(id)
  PROVE  /\ current_packet_id_cnt \in Cells
         /\ \/ /\ _get_packet_id_in_repeat_buf(id)
               /\ repeat_packet_id_buf' = repeat_packet_id_buf
               /\ current_packet_id_cnt' = current_packet_id_cnt
            \/ /\ ~_get_packet_id_in_repeat_buf(id)
               /\ repeat_packet_id_buf' = [repeat_packet_id_buf EXCEPT ![current_packet_id_cnt] = id]
               /\ current_packet_id_cnt' = IF current_packet_id_cnt = MQTT_MAX_REPEAT_BUF_LEN - 1
                                           THEN 0 ELSE current_packet_id_cnt + 1
<1>1. current_packet_id_cnt \in Cells
  BY DEF TypeOK
<1>2. CASE _get_packet_id_in_repeat_buf(id)
  BY <1>1, <1>2 DEF _add_packet_id_to_repeat_buf, ring
<1>3. CASE ~_get_packet_id_in_repeat_buf(id)
  <2>1. /\ repeat_packet_id_buf' = [repeat_packet_id_buf EXCEPT ![current_packet_id_cnt] = id]
        /\ current_packet_id_cnt' = (current_packet_id_cnt + 1) % MQTT_MAX_REPEAT_BUF_LEN
    BY <1>3 DEF _add_packet_id_to_repeat_buf
  <2>2. (current_packet_id_cnt + 1) % MQTT_MAX_REPEAT_BUF_LEN
          = IF current_packet_id_cnt = MQTT_MAX_REPEAT_BUF_LEN - 1 THEN 0 ELSE current_packet_id_cnt + 1
    BY <1>1, Numbers DEF Cells
  <2> QED
    BY <1>1, <1>3, <2>1, <2>2
<1> QED
  BY <1>2, <1>3

(* The ring keeps its types.                                                 *)
LEMMA AddTypes ==
  ASSUME TypeOK, NEW id \in Ids, _add_packet_id_to_repeat_buf(id)
  PROVE  /\ repeat_packet_id_buf' \in [Cells -> 0..MaxId]
         /\ current_packet_id_cnt' \in Cells
<1>1. repeat_packet_id_buf \in [Cells -> 0..MaxId] /\ current_packet_id_cnt \in Cells
  BY DEF TypeOK
<1>2. CASE repeat_packet_id_buf' = repeat_packet_id_buf /\ current_packet_id_cnt' = current_packet_id_cnt
  BY <1>1, <1>2
<1>3. CASE /\ repeat_packet_id_buf' = [repeat_packet_id_buf EXCEPT ![current_packet_id_cnt] = id]
           /\ current_packet_id_cnt' = IF current_packet_id_cnt = MQTT_MAX_REPEAT_BUF_LEN - 1
                                       THEN 0 ELSE current_packet_id_cnt + 1
  <2>1. id \in 0..MaxId
    BY Numbers DEF Ids
  <2>2. repeat_packet_id_buf' \in [Cells -> 0..MaxId]
    BY <1>1, <1>3, <2>1
  <2>3. current_packet_id_cnt' \in Cells
    BY <1>1, <1>3, Numbers DEF Cells
  <2> QED
    BY <2>2, <2>3
<1> QED
  BY AddIs, <1>2, <1>3

(* The types of what the proofs use.                                         *)
LEMMA Types ==
  ASSUME TypeOK
  PROVE  /\ next_id \in Int /\ next_id >= 1 /\ next_id <= MaxId
         /\ taken \in Int /\ taken >= 0 /\ taken <= MaxMessages
         /\ Base \in Int /\ Base = taken + 1 - next_id
         /\ down \in Seq(Packets) /\ inflight \in Seq(Packets) /\ up \in Seq(Acks)
         /\ repeat_packet_id_buf \in [Cells -> 0..MaxId] /\ current_packet_id_cnt \in Cells
         /\ delivered \in [Messages -> 0..2]
         /\ settled \subseteq Messages /\ excused \subseteq Messages
         /\ foreign \subseteq InRing(repeat_packet_id_buf)
         /\ clean_session \in BOOLEAN /\ is_connected \in BOOLEAN
         /\ partial \in BOOLEAN /\ displaced \in BOOLEAN
         /\ drops \in 0..MaxDrops /\ faults \in 0..MaxFaults
  BY Numbers DEF TypeOK, Ids, Base, Acks

(* The fields of a packet and of a PUBACK.                                   *)
LEMMA PacketFields ==
  ASSUME NEW p \in Packets
  PROVE  /\ p.id \in Ids /\ p.id \in Int /\ p.id >= 1 /\ p.id <= MaxId
         /\ p.msg \in Messages /\ p.msg \in Int /\ p.msg >= 1 /\ p.msg <= MaxMessages
  BY Numbers DEF Packets, Ids, Messages

LEMMA AckFields ==
  ASSUME NEW a \in Acks
  PROVE  a.id \in Ids /\ a.id \in Int /\ a.id >= 1 /\ a.id <= MaxId /\ a.misread \in BOOLEAN
  BY Numbers DEF Acks, Ids

(* The faults injected stay within their bound.                              *)
LEMMA InjectIs ==
  ASSUME TypeOK, NEW f, Inject(f)
  PROVE  faults' \in 0..MaxFaults
  BY Numbers DEF TypeOK, Inject

(* What a cell holds is 0 or in the ring.                                    *)
LEMMA RingCells ==
  ASSUME NEW b, NEW c \in Cells
  PROVE  b[c] = 0 \/ b[c] \in InRing(b)
  BY DEF InRing

(* The message of an id of the session.                                      *)
LEMMA IdMessage ==
  ASSUME TypeOK, NumInv, NEW id \in Int, id >= 1, id < next_id
  PROVE  id + Base \in Messages /\ id + Base <= taken
<1>1. next_id <= taken + 1
  BY DEF NumInv
<1>2. /\ next_id \in Int /\ taken \in Int /\ taken <= MaxMessages
      /\ Base = taken + 1 - next_id
  BY Types
<1>3. MaxMessages \in Nat
  BY Numbers
<1> QED
  BY <1>1, <1>2, <1>3 DEF Messages

(* A fresh cell holds the id of a delivered message of the session.          *)
LEMMA FreshMessage ==
  ASSUME TypeOK, NumInv, RingInv
  PROVE  \A c \in Cells : Fresh(c) =>
           /\ repeat_packet_id_buf[c] \in Int /\ repeat_packet_id_buf[c] >= 1
           /\ repeat_packet_id_buf[c] < next_id
           /\ repeat_packet_id_buf[c] + Base \in Messages
           /\ delivered[repeat_packet_id_buf[c] + Base] > 0
<1> SUFFICES ASSUME NEW c \in Cells, Fresh(c)
             PROVE  /\ repeat_packet_id_buf[c] \in Int /\ repeat_packet_id_buf[c] >= 1
                    /\ repeat_packet_id_buf[c] < next_id
                    /\ repeat_packet_id_buf[c] + Base \in Messages
                    /\ delivered[repeat_packet_id_buf[c] + Base] > 0
  OBVIOUS
<1>1. repeat_packet_id_buf[c] \in 0..MaxId /\ repeat_packet_id_buf[c] # 0
  BY Types DEF Fresh
<1>2. /\ repeat_packet_id_buf[c] < next_id
      /\ delivered[repeat_packet_id_buf[c] + Base] > 0
  BY DEF RingInv
<1>3. repeat_packet_id_buf[c] \in Int /\ repeat_packet_id_buf[c] >= 1
  BY <1>1, Numbers
<1> QED
  BY <1>2, <1>3, IdMessage

(* A step that leaves the ring, the session and what was delivered alone.    *)
LEMMA SameRing ==
  ASSUME TypeOK, RingInv,
         repeat_packet_id_buf' = repeat_packet_id_buf, foreign' = foreign,
         next_id' = next_id, taken' = taken, delivered' = delivered
  PROVE  RingInv'
  BY DEF RingInv, Fresh, Base

(* _handle_publish_packet: who has been delivered and excused afterwards.    *)
LEMMA DeliverIs ==
  ASSUME TypeOK, NEW p \in Packets, Deliver(p)
  PROVE  /\ delivered' \in [Messages -> 0..2] /\ excused' \subseteq Messages
         /\ \A m \in Messages : delivered[m] > 0 => delivered'[m] > 0
         /\ \A m \in Messages : m # p.msg => delivered'[m] = delivered[m]
         /\ excused \subseteq excused'
         /\ \A m \in excused' : m # p.msg => m \in excused
         /\ _get_packet_id_in_repeat_buf(p.id) =>
              /\ delivered' = delivered
              /\ p.id \in foreign => p.msg \in excused'
              /\ p.id \notin foreign => excused' = excused
         /\ ~_get_packet_id_in_repeat_buf(p.id) =>
              /\ delivered'[p.msg] > 0
              /\ delivered[p.msg] = 0 => delivered'[p.msg] = 1
              /\ excused' = excused
<1>1. /\ delivered \in [Messages -> 0..2] /\ excused \subseteq Messages
      /\ p.msg \in Messages
  BY Types, PacketFields
<1>2. CASE _get_packet_id_in_repeat_buf(p.id)
  <2>1. delivered' = [delivered EXCEPT ![p.msg] = @]
    BY <1>1, <1>2 DEF Deliver
  <2>2. delivered' = delivered
    BY <1>1, <2>1
  <2>3. excused' = IF p.id \in foreign THEN excused \cup {p.msg} ELSE excused
    BY <1>2 DEF Deliver
  <2> QED
    BY <1>1, <1>2, <2>2, <2>3
<1>3. CASE ~_get_packet_id_in_repeat_buf(p.id)
  <2>1. delivered' = [delivered EXCEPT ![p.msg] = IF @ = 2 THEN @ ELSE @ + 1]
    BY <1>1, <1>3 DEF Deliver
  <2>2. excused' = excused
    BY <1>3 DEF Deliver
  <2>3. delivered[p.msg] \in 0..2
    BY <1>1
  <2> QED
    BY <1>1, <1>3, <2>1, <2>2, <2>3
<1> QED
  BY <1>2, <1>3

(* The ring after the id of a packet that was just delivered entered it.     *)
LEMMA AddFresh ==
  ASSUME TypeOK, RingInv, NEW id \in Ids, _add_packet_id_to_repeat_buf(id),
         foreign' = foreign \cap InRing(repeat_packet_id_buf'),
         next_id' = next_id, taken' = taken,
         id < next_id,
         \A m \in Messages : delivered[m] > 0 => delivered'[m] > 0,
         id + Base \in Messages,
         ~_get_packet_id_in_repeat_buf(id) => delivered'[id + Base] > 0,
         \A c \in Cells : Fresh(c) => repeat_packet_id_buf[c] + Base \in Messages
  PROVE  RingInv' /\ foreign' \subseteq InRing(repeat_packet_id_buf')
<1>0. Base' = Base
  BY DEF Base
<1>1. CASE repeat_packet_id_buf' = repeat_packet_id_buf
  <2>1. foreign' = foreign
    BY <1>1, Types
  <2> QED
    BY <1>0, <1>1, <2>1, Types DEF RingInv, Fresh
<1>2. CASE /\ ~_get_packet_id_in_repeat_buf(id)
           /\ repeat_packet_id_buf' = [repeat_packet_id_buf EXCEPT ![current_packet_id_cnt] = id]
  <2>1. current_packet_id_cnt \in Cells /\ repeat_packet_id_buf \in [Cells -> 0..MaxId]
    BY Types
  <2>2. /\ repeat_packet_id_buf'[current_packet_id_cnt] = id
        /\ \A c \in Cells : c # current_packet_id_cnt => repeat_packet_id_buf'[c] = repeat_packet_id_buf[c]
    BY <1>2, <2>1
  <2>3. \A c \in Cells : repeat_packet_id_buf[c] # id
    BY <1>2 DEF _get_packet_id_in_repeat_buf
  <2>4. ASSUME NEW c \in Cells, Fresh(c)'
        PROVE  repeat_packet_id_buf'[c] < next_id' /\ delivered'[repeat_packet_id_buf'[c] + Base'] > 0
    <3>1. CASE c = current_packet_id_cnt
      BY <1>0, <1>2, <2>2, <3>1
    <3>2. CASE c # current_packet_id_cnt
      <4>1. repeat_packet_id_buf'[c] = repeat_packet_id_buf[c]
        BY <2>2, <3>2
      <4>2. repeat_packet_id_buf'[c] \in InRing(repeat_packet_id_buf')
        BY <2>4 DEF InRing, Fresh
      <4>3. Fresh(c)
        BY <2>4, <4>1, <4>2 DEF Fresh
      <4> QED
        BY <1>0, <4>1, <4>3 DEF RingInv
    <3> QED
      BY <3>1, <3>2
  <2>5. \A c, d \in Cells : c # d /\ repeat_packet_id_buf'[c] = repeat_packet_id_buf'[d]
                            => repeat_packet_id_buf'[c] = 0
    BY <2>2, <2>3 DEF RingInv
  <2> QED
    BY <2>4, <2>5 DEF RingInv
<1> QED
  BY AddIs, <1>1, <1>2

(* _handle_publish_packet acknowledges what it delivers, now or before, or   *)
(* what it excuses.                                                          *)
LEMMA HandlePublishSafe ==
  ASSUME TypeOK, SafeInv, HandlePublish
  PROVE  TypeOK' /\ SafeInv'
<1>0. PICK p : p = Head(down)
  OBVIOUS
<1>1. down \in Seq(Packets) /\ down # <<>> /\ up \in Seq(Acks)
  BY Types DEF HandlePublish, Aligned
<1>2. p \in Packets /\ p = down[1] /\ 1 \in DOMAIN down
  BY <1>0, <1>1, TailIs
<1>3. Current(p)
  BY <1>2 DEF SafeInv, PacketInv
<1>4. /\ Deliver(p) /\ _add_packet_id_to_repeat_buf(p.id)
      /\ foreign' = foreign \cap InRing(repeat_packet_id_buf')
      /\ down' = Tail(down)
      /\ clean_session' = clean_session /\ is_connected' = is_connected /\ partial' = partial
      /\ inflight' = inflight /\ next_id' = next_id /\ taken' = taken
      /\ drops' = drops /\ settled' = settled
      /\ is_connected
  BY <1>0 DEF HandlePublish, server, Aligned
<1>5. \/ Puback(p.id, FALSE) /\ displaced' = (displaced \/ OutOfTurn(p)) /\ faults' = faults
      \/ Inject("puback_failure") /\ displaced' = TRUE /\ up' = up
  BY <1>0 DEF HandlePublish
<1>6. Base' = Base /\ Base \in Int
  BY <1>4, Types DEF Base
<1>7. p.id \in Ids /\ p.id < next_id /\ p.id \in Int /\ p.msg \in Messages /\ p.msg = p.id + Base
  BY <1>2, <1>3, PacketFields DEF Current
<1>8. \A c \in Cells : Fresh(c) => repeat_packet_id_buf[c] + Base \in Messages
  BY FreshMessage DEF SafeInv
<1>9. RingInv' /\ foreign' \subseteq InRing(repeat_packet_id_buf')
  <2>1. ~_get_packet_id_in_repeat_buf(p.id) => delivered'[p.id + Base] > 0
    BY <1>2, <1>4, <1>7, DeliverIs
  <2>2. \A m \in Messages : delivered[m] > 0 => delivered'[m] > 0
    BY <1>2, <1>4, DeliverIs
  <2>3. RingInv
    BY DEF SafeInv
  <2> QED
    BY <1>4, <1>7, <1>8, <2>1, <2>2, <2>3, AddFresh
<1>10. \A m \in Messages : Got(m) => Got(m)'
  BY <1>2, <1>4, DeliverIs DEF Got
<1>11. Got(p.msg)'
  <2>1. CASE ~_get_packet_id_in_repeat_buf(p.id)
    BY <1>2, <1>4, <2>1, DeliverIs DEF Got
  <2>2. CASE _get_packet_id_in_repeat_buf(p.id) /\ p.id \in foreign
    BY <1>2, <1>4, <2>2, DeliverIs DEF Got
  <2>3. CASE _get_packet_id_in_repeat_buf(p.id) /\ p.id \notin foreign
    <3>1. PICK c \in Cells : repeat_packet_id_buf[c] = p.id
      BY <2>3 DEF _get_packet_id_in_repeat_buf
    <3>2. p.id # 0
      BY <1>2, PacketFields
    <3>3. Fresh(c)
      BY <2>3, <3>1, <3>2 DEF Fresh
    <3>4. delivered[p.msg] > 0
      BY <1>7, <3>1, <3>3 DEF SafeInv, RingInv
    <3> QED
      BY <1>7, <1>10, <3>4 DEF Got
  <2> QED
    BY <2>1, <2>2, <2>3
<1>12. [id |-> p.id, misread |-> FALSE] \in Acks
  BY <1>7 DEF Acks
<1>13. up' \in Seq(Acks) /\ UpInv'
  <2>1. CASE up' = up
    <3>1. \A i \in DOMAIN up : up[i].misread \/ (up[i].id < next_id /\ Got(up[i].id + Base))
      BY DEF SafeInv, UpInv
    <3>2. \A i \in DOMAIN up : up[i].id < next_id => up[i].id + Base \in Messages
      BY <1>1, AckFields, IdMessage DEF SafeInv
    <3> QED
      BY <1>1, <1>4, <1>6, <1>10, <2>1, <3>1, <3>2 DEF UpInv
  <2>2. CASE up' = Append(up, [id |-> p.id, misread |-> FALSE])
    <3>1. \A i \in DOMAIN up : up[i].misread \/ (up[i].id < next_id /\ Got(up[i].id + Base))
      BY DEF SafeInv, UpInv
    <3>2. \A i \in DOMAIN up : up[i].id < next_id => up[i].id + Base \in Messages
      BY <1>1, AckFields, IdMessage DEF SafeInv
    <3>3. up' \in Seq(Acks)
      BY <1>1, <1>12, <2>2, AppendIs
    <3>4. ASSUME NEW i \in DOMAIN up'
          PROVE  (up[i].misread \/ (up[i].id < next_id /\ Got(up[i].id + Base)))'
      <4>1. CASE i = Len(up) + 1
        <5>1. up'[i] = [id |-> p.id, misread |-> FALSE]
          BY <1>1, <1>12, <2>2, <4>1, AppendIs
        <5> QED
          BY <1>4, <1>6, <1>7, <1>11, <5>1
      <4>2. CASE i # Len(up) + 1
        <5>1. i \in DOMAIN up /\ up'[i] = up[i]
          BY <1>1, <1>12, <2>2, <3>4, <4>2, AppendIs
        <5> QED
          BY <1>4, <1>6, <1>10, <3>1, <3>2, <5>1
      <4> QED
        BY <4>1, <4>2
    <3> QED
      BY <3>3, <3>4 DEF UpInv
  <2> QED
    BY <1>5, <2>1, <2>2 DEF Puback
<1>14. PacketInv' /\ down' \in Seq(Packets)
  <2>1. \A i \in DOMAIN down' : Current(down'[i])
    BY <1>1, <1>4, TailIs DEF SafeInv, PacketInv
  <2> QED
    BY <1>1, <1>4, <1>6, <2>1, TailIs DEF SafeInv, PacketInv, Current
<1>15. NumInv'
  <2>1. p.msg <= taken
    BY <1>7, Types DEF Base
  <2>2. \A m \in Messages : delivered'[m] > 0 => m <= taken
    BY <1>2, <1>4, <2>1, DeliverIs DEF SafeInv, NumInv
  <2> QED
    BY <1>4, <2>2 DEF SafeInv, NumInv
<1>16. LinkInv'
  BY <1>4 DEF LinkInv
<1>17. AckedIsDelivered'
  BY <1>4, <1>10, Types DEF SafeInv, AckedIsDelivered, Got
<1>18. TypeOK'
  <2>1. faults' \in 0..MaxFaults /\ displaced' \in BOOLEAN
    BY <1>5, Types, InjectIs
  <2>2. repeat_packet_id_buf' \in [Cells -> 0..MaxId] /\ current_packet_id_cnt' \in Cells
    BY <1>4, <1>7, AddTypes
  <2>3. delivered' \in [Messages -> 0..2] /\ excused' \subseteq Messages
    BY <1>2, <1>4, DeliverIs
  <2> QED
    BY <1>4, <1>9, <1>13, <1>14, <2>1, <2>2, <2>3 DEF TypeOK, Acks
<1> QED
  BY <1>9, <1>13, <1>14, <1>15, <1>16, <1>17, <1>18 DEF SafeInv

(* A packet that is dropped is one packet less on its way.                   *)
LEMMA DiscardOversizedSafe ==
  ASSUME TypeOK, SafeInv, DiscardOversized
  PROVE  TypeOK' /\ SafeInv'
<1>1. down \in Seq(Packets) /\ down # <<>> /\ down' = Tail(down) /\ is_connected
  BY Types DEF DiscardOversized, Aligned
<1>2. UNCHANGED <<ring, clean_session, is_connected, partial, up, server, drops, faults, history>>
  BY DEF DiscardOversized
<1>3. RingInv'
  BY <1>2, SameRing DEF SafeInv, ring, server, history
<1>4. down' \in Seq(Packets) /\ \A i \in DOMAIN down' : Current(down'[i])
  BY <1>1, TailIs DEF SafeInv, PacketInv
<1>5. PacketInv'
  BY <1>2, <1>4 DEF SafeInv, PacketInv, Current, Base, server
<1>6. NumInv' /\ LinkInv' /\ UpInv' /\ AckedIsDelivered'
  BY <1>1, <1>2 DEF SafeInv, NumInv, LinkInv, UpInv, AckedIsDelivered, Got, Base, server, history
<1>7. TypeOK'
  BY <1>2, <1>4 DEF TypeOK, ring, server, history
<1> QED
  BY <1>3, <1>5, <1>6, <1>7 DEF SafeInv

(* A read that stops inside a packet changes nothing but where the reader    *)
(* is.                                                                       *)
LEMMA ReadTimeoutSafe ==
  ASSUME TypeOK, SafeInv, ReadTimeout
  PROVE  TypeOK' /\ SafeInv'
<1>1. partial' = TRUE /\ is_connected /\ faults' \in 0..MaxFaults
  BY InjectIs DEF ReadTimeout, Aligned
<1>2. UNCHANGED <<ring, clean_session, is_connected, down, up, server, drops, history>>
  BY DEF ReadTimeout
<1>3. RingInv'
  BY <1>2, SameRing DEF SafeInv, ring, server, history
<1>4. NumInv' /\ LinkInv' /\ PacketInv' /\ UpInv' /\ AckedIsDelivered'
  BY <1>1, <1>2 DEF SafeInv, NumInv, LinkInv, PacketInv, Current, UpInv, AckedIsDelivered,
                    Got, Base, server, history
<1>5. TypeOK'
  BY <1>1, <1>2 DEF TypeOK, ring, server, history
<1> QED
  BY <1>3, <1>4, <1>5 DEF SafeInv

(* A loss of the connection empties both directions.                         *)
LEMMA DropSafe ==
  ASSUME TypeOK, SafeInv, Drop
  PROVE  TypeOK' /\ SafeInv'
<1>0. drops' \in 0..MaxDrops
  BY Numbers DEF Drop, TypeOK
<1>1. /\ drops' \in 0..MaxDrops
      /\ is_connected' = FALSE /\ down' = <<>> /\ partial' = FALSE /\ up' = <<>>
      /\ UNCHANGED <<ring, clean_session, server, faults, history>>
  BY <1>0 DEF Drop
<1>2. RingInv'
  BY <1>1, SameRing DEF SafeInv, ring, server, history
<1>3. NumInv' /\ LinkInv' /\ PacketInv' /\ UpInv' /\ AckedIsDelivered'
  BY <1>1 DEF SafeInv, NumInv, LinkInv, PacketInv, Current, UpInv, AckedIsDelivered,
              Base, server, history
<1>4. TypeOK'
  <2>1. down' \in Seq(Packets) /\ up' \in Seq(Acks)
    BY <1>1
  <2> QED
    BY <1>1, <2>1 DEF TypeOK, ring, server, history, Acks
<1> QED
  BY <1>2, <1>3, <1>4 DEF SafeInv

(* A kept session sends again what the server keeps.                         *)
LEMMA ReconnectKeptSafe ==
  ASSUME TypeOK, SafeInv, ReconnectKept
  PROVE  TypeOK' /\ SafeInv'
<1>1. /\ ~is_connected /\ is_connected' = TRUE /\ down' = inflight
      /\ UNCHANGED <<ring, clean_session, partial, up, server, drops, faults, history>>
  BY DEF ReconnectKept
<1>2. RingInv'
  BY <1>1, SameRing DEF SafeInv, ring, server, history
<1>3. NumInv' /\ LinkInv' /\ PacketInv' /\ UpInv' /\ AckedIsDelivered'
  BY <1>1 DEF SafeInv, NumInv, LinkInv, PacketInv, Current, UpInv, AckedIsDelivered,
              Got, Base, server, history
<1>4. TypeOK'
  BY <1>1 DEF TypeOK, ring, server, history
<1> QED
  BY <1>2, <1>3, <1>4 DEF SafeInv

(* A clean session starts anew: every id of the ring becomes foreign.        *)
LEMMA ReconnectCleanSafe ==
  ASSUME TypeOK, SafeInv, ReconnectClean
  PROVE  TypeOK' /\ SafeInv'
<1>1. /\ ~is_connected /\ is_connected' = TRUE /\ inflight' = <<>> /\ next_id' = 1
      /\ foreign' = InRing(repeat_packet_id_buf)
      /\ UNCHANGED <<ring, clean_session, down, partial, up, taken, drops, faults,
                     delivered, settled, excused, displaced>>
  BY DEF ReconnectClean
<1>2. down = <<>> /\ up = <<>>
  BY <1>1 DEF SafeInv, LinkInv
<1>3. RingInv'
  <2>1. \A c \in Cells : ~Fresh(c)'
    BY <1>1, RingCells DEF Fresh, ring
  <2> QED
    BY <1>1, <2>1 DEF SafeInv, RingInv, ring
<1>4. NumInv'
  <2>1. Len(<<>>) <= MaxInflight /\ 1 <= taken + 1
    BY Types, Numbers
  <2> QED
    BY <1>1, <2>1 DEF SafeInv, NumInv
<1>5. LinkInv' /\ PacketInv' /\ UpInv' /\ AckedIsDelivered'
  BY <1>1, <1>2 DEF SafeInv, LinkInv, PacketInv, UpInv, AckedIsDelivered
<1>6. TypeOK'
  <2>1. 1 \in Ids /\ inflight' \in Seq(Packets)
    BY <1>1, Numbers DEF Ids
  <2> QED
    BY <1>1, <2>1 DEF TypeOK, ring
<1> QED
  BY <1>3, <1>4, <1>5, <1>6 DEF SafeInv

(* A repeated packet is one the server keeps.                                *)
LEMMA ServerRetrySafe ==
  ASSUME TypeOK, SafeInv, ServerRetry
  PROVE  TypeOK' /\ SafeInv'
<1>1. PICK i \in DOMAIN inflight : down' = Append(down, inflight[i])
  BY DEF ServerRetry
<1>2. /\ is_connected /\ faults' \in 0..MaxFaults
      /\ UNCHANGED <<ring, clean_session, is_connected, partial, up, server, drops, history>>
  BY InjectIs DEF ServerRetry
<1>3. down \in Seq(Packets) /\ inflight[i] \in Packets
  BY Types
<1>4. down' \in Seq(Packets) /\ \A k \in DOMAIN down' : Current(down'[k])
  <2>1. Current(inflight[i]) /\ \A k \in DOMAIN down : Current(down[k])
    BY DEF SafeInv, PacketInv
  <2> QED
    BY <1>1, <1>3, <2>1, AppendIs
<1>5. RingInv'
  BY <1>2, SameRing DEF SafeInv, ring, server, history
<1>6. PacketInv'
  BY <1>2, <1>4 DEF SafeInv, PacketInv, Current, Base, server
<1>7. NumInv' /\ LinkInv' /\ UpInv' /\ AckedIsDelivered'
  BY <1>2 DEF SafeInv, NumInv, LinkInv, UpInv, AckedIsDelivered, Got, Base, server, history
<1>8. TypeOK'
  BY <1>2, <1>4 DEF TypeOK, ring, server, history
<1> QED
  BY <1>5, <1>6, <1>7, <1>8 DEF SafeInv

(* A step that takes a message: MaxMessages < MaxId keeps next_id from       *)
(* starting again at 1.                                                      *)
LEMMA ServerPublishIs ==
  ASSUME MaxMessages < MaxId, TypeOK, SafeInv, ServerPublish
  PROVE  /\ next_id' = next_id + 1 /\ taken' = taken + 1 /\ taken < MaxMessages
         /\ [id |-> next_id, msg |-> taken + 1] \in Packets
         /\ inflight' = Append(inflight, [id |-> next_id, msg |-> taken + 1])
         /\ down' = Append(down, [id |-> next_id, msg |-> taken + 1])
         /\ is_connected /\ Len(inflight) < MaxInflight
         /\ UNCHANGED <<ring, clean_session, is_connected, partial, up, drops, faults, history>>
<1>1. /\ is_connected /\ taken < MaxMessages /\ Len(inflight) < MaxInflight
      /\ inflight' = Append(inflight, [id |-> next_id, msg |-> taken + 1])
      /\ down' = Append(down, [id |-> next_id, msg |-> taken + 1])
      /\ next_id' = (next_id % MaxId) + 1 /\ taken' = taken + 1
      /\ UNCHANGED <<ring, clean_session, is_connected, partial, up, drops, faults, history>>
  BY DEF ServerPublish
<1>2. next_id <= taken + 1
  BY DEF SafeInv, NumInv
<1>3. next_id \in Int /\ next_id >= 1 /\ next_id < MaxId /\ taken \in Int /\ taken >= 0
  <2>1. next_id \in Int /\ next_id >= 1 /\ taken \in Int /\ taken >= 0
    BY Types
  <2>2. MaxMessages \in Int /\ MaxId \in Int
    BY Numbers
  <2> QED
    BY <1>1, <1>2, <2>1, <2>2
<1>4. next_id % MaxId = next_id
  BY <1>3, Numbers
<1>5. next_id \in Ids /\ taken + 1 \in Messages
  BY <1>1, <1>3, Numbers DEF Ids, Messages
<1> QED
  BY <1>1, <1>4, <1>5 DEF Packets

(* A new message has an id that no earlier message of the session has.       *)
LEMMA ServerPublishSafe ==
  ASSUME MaxMessages < MaxId, TypeOK, SafeInv, ServerPublish
  PROVE  TypeOK' /\ SafeInv'
<1>1. PICK p : p = [id |-> next_id, msg |-> taken + 1]
  OBVIOUS
<1>2. /\ next_id' = next_id + 1 /\ taken' = taken + 1 /\ taken < MaxMessages
      /\ p \in Packets /\ p.id = next_id /\ p.msg = taken + 1
      /\ inflight' = Append(inflight, p) /\ down' = Append(down, p)
      /\ is_connected /\ Len(inflight) < MaxInflight
      /\ UNCHANGED <<ring, clean_session, is_connected, partial, up, drops, faults, history>>
  BY <1>1, ServerPublishIs
<1>3. /\ next_id \in Int /\ taken \in Int /\ Base \in Int /\ Base = taken + 1 - next_id
      /\ down \in Seq(Packets) /\ inflight \in Seq(Packets) /\ up \in Seq(Acks)
  BY Types
<1>4. Base' = Base
  BY <1>2, <1>3 DEF Base
<1>5. Current(p)'
  BY <1>2, <1>3, <1>4 DEF Current
<1>6. ASSUME NEW q \in Packets, Current(q) PROVE Current(q)' /\ q.id < p.id
  BY <1>2, <1>3, <1>4, <1>6, PacketFields DEF Current
<1>7. /\ down' \in Seq(Packets) /\ \A i \in DOMAIN down' : Current(down[i])'
  <2>1. \A i \in DOMAIN down : Current(down[i]) /\ down[i] \in Packets
    BY <1>3 DEF SafeInv, PacketInv
  <2>2. ASSUME NEW i \in DOMAIN down' PROVE Current(down[i])'
    <3>1. CASE i = Len(down) + 1
      <4>1. down'[i] = p
        BY <1>2, <1>3, <3>1, AppendIs
      <4> QED
        BY <1>5, <4>1 DEF Current
    <3>2. CASE i # Len(down) + 1
      <4>1. i \in DOMAIN down /\ down'[i] = down[i]
        BY <1>2, <1>3, <2>2, <3>2, AppendIs
      <4>2. PICK q \in Packets : q = down[i]
        BY <2>1, <4>1
      <4>3. Current(q)'
        BY <1>6, <2>1, <4>1, <4>2
      <4> QED
        BY <4>1, <4>2, <4>3 DEF Current
    <3> QED
      BY <3>1, <3>2
  <2> QED
    BY <1>2, <1>3, <2>2, AppendIs
<1>8. /\ inflight' \in Seq(Packets) /\ Len(inflight') = Len(inflight) + 1 /\ Len(inflight) \in Nat
  BY <1>2, <1>3, AppendIs
<1>9. \A i \in DOMAIN inflight : Current(inflight[i]) /\ inflight[i] \in Packets
  BY <1>3 DEF SafeInv, PacketInv
<1>10. \A i \in DOMAIN inflight' : Current(inflight[i])'
  <2> SUFFICES ASSUME NEW i \in DOMAIN inflight' PROVE Current(inflight[i])'
    OBVIOUS
  <2>1. CASE i = Len(inflight) + 1
    <3>1. inflight'[i] = p
      BY <1>2, <1>3, <2>1, AppendIs
    <3> QED
      BY <1>5, <3>1 DEF Current
  <2>2. CASE i # Len(inflight) + 1
    <3>1. i \in DOMAIN inflight /\ inflight'[i] = inflight[i]
      BY <1>2, <1>3, <2>2, AppendIs
    <3>2. PICK q \in Packets : q = inflight[i]
      BY <1>9, <3>1
    <3>3. Current(q)'
      BY <1>6, <1>9, <3>1, <3>2
    <3> QED
      BY <3>1, <3>2, <3>3 DEF Current
  <2> QED
    BY <2>1, <2>2
<1>11. \A i, j \in DOMAIN inflight' : i < j => inflight'[i].id < inflight'[j].id
  <2> SUFFICES ASSUME NEW i \in DOMAIN inflight', NEW j \in DOMAIN inflight', i < j
               PROVE  inflight'[i].id < inflight'[j].id
    OBVIOUS
  <2>0. i \in Int /\ j \in Int /\ j <= Len(inflight) + 1
    BY <1>2, <1>3, AppendIs
  <2>1. i # Len(inflight) + 1
    BY <1>8, <2>0
  <2>2. i \in DOMAIN inflight /\ inflight'[i] = inflight[i]
    BY <1>2, <1>3, <2>1, AppendIs
  <2>3. CASE j = Len(inflight) + 1
    <3>1. inflight'[j] = p
      BY <1>2, <1>3, <2>3, AppendIs
    <3> QED
      BY <1>6, <1>9, <2>2, <3>1
  <2>4. CASE j # Len(inflight) + 1
    <3>1. j \in DOMAIN inflight /\ inflight'[j] = inflight[j]
      BY <1>2, <1>3, <2>4, AppendIs
    <3> QED
      BY <2>2, <3>1 DEF SafeInv, PacketInv
  <2> QED
    BY <2>3, <2>4
<1>12. PacketInv'
  BY <1>7, <1>10, <1>11 DEF PacketInv
<1>13. RingInv'
  <2>1. RingInv /\ NumInv
    BY DEF SafeInv
  <2>2. \A c \in Cells : Fresh(c)' => Fresh(c)
    BY <1>2 DEF Fresh, ring, history
  <2>3. ASSUME NEW c \in Cells, Fresh(c)
        PROVE  repeat_packet_id_buf[c] < next_id + 1 /\ delivered[repeat_packet_id_buf[c] + Base] > 0
    BY <1>3, <2>1, <2>3, FreshMessage
  <2> QED
    BY <1>2, <1>4, <2>1, <2>2, <2>3 DEF RingInv, ring, history
<1>14. UpInv'
  <2>1. \A i \in DOMAIN up : up[i].id \in Int
    BY <1>3, AckFields
  <2> QED
    BY <1>2, <1>3, <1>4, <2>1 DEF SafeInv, UpInv, Got, history
<1>15. NumInv'
  <2>1. \A m \in Messages : m \in Int
    BY Numbers DEF Messages
  <2>2. Len(inflight') <= MaxInflight
    BY <1>2, <1>8, Numbers
  <2> QED
    BY <1>2, <1>3, <2>1, <2>2 DEF SafeInv, NumInv, history
<1>16. LinkInv' /\ AckedIsDelivered'
  BY <1>2 DEF SafeInv, LinkInv, AckedIsDelivered, history
<1>17. TypeOK'
  <2>1. next_id + 1 \in Ids
    <3>1. next_id <= taken + 1
      BY DEF SafeInv, NumInv
    <3> QED
      BY <1>2, <1>3, <3>1, Types, Numbers DEF Ids
  <2>2. taken + 1 \in 0..MaxMessages
    <3>1. taken \in Int /\ taken >= 0 /\ MaxMessages \in Int
      BY Types, Numbers
    <3> QED
      BY <1>2, <3>1
  <2> QED
    BY <1>2, <1>7, <1>8, <2>1, <2>2 DEF TypeOK, ring, history
<1> QED
  BY <1>12, <1>13, <1>14, <1>15, <1>16, <1>17 DEF SafeInv

(* The server takes the acknowledged packet, if it still has it, from what   *)
(* it keeps.                                                                 *)
LEMMA ServerPubackIs ==
  ASSUME TypeOK, SafeInv, ServerPuback, NEW a, a = Head(up)
  PROVE  /\ inflight' \in Seq(Packets) /\ Len(inflight') <= Len(inflight)
         /\ Sent' = {p \in Sent : p.id # a.id}
         /\ \A i, j \in DOMAIN inflight' : i < j => inflight'[i].id < inflight'[j].id
         /\ settled' = settled \cup {p.msg : p \in {q \in Sent : q.id = a.id}}
         /\ excused' = IF a.misread THEN excused \cup {p.msg : p \in {q \in Sent : q.id = a.id}}
                       ELSE excused
         /\ up # <<>> /\ up' = Tail(up)
         /\ UNCHANGED <<ring, clean_session, is_connected, down, partial, next_id, taken,
                        drops, faults, delivered, foreign, displaced>>
<1>1. PICK of : of = {i \in DOMAIN inflight : inflight[i].id = a.id}
  OBVIOUS
<1>2. PICK msgs : msgs = {inflight[i].msg : i \in of}
  OBVIOUS
<1>3. /\ \/ of = {} /\ inflight' = inflight
         \/ \E i \in of : inflight' = RemoveAt(inflight, i)
      /\ settled' = settled \cup msgs
      /\ excused' = IF a.misread THEN excused \cup msgs ELSE excused
      /\ up # <<>> /\ up' = Tail(up)
      /\ UNCHANGED <<ring, clean_session, is_connected, down, partial, next_id, taken,
                     drops, faults, delivered, foreign, displaced>>
  BY <1>1, <1>2 DEF ServerPuback
<1>4. msgs = {p.msg : p \in {q \in Sent : q.id = a.id}}
  BY <1>1, <1>2 DEF Sent
<1>5. inflight \in Seq(Packets) /\ \A i, j \in DOMAIN inflight : i < j => inflight[i].id < inflight[j].id
  BY Types DEF SafeInv, PacketInv
<1>6. CASE of = {} /\ inflight' = inflight
  <2>1. Sent' = {p \in Sent : p.id # a.id}
    BY <1>1, <1>6 DEF Sent
  <2>2. Len(inflight) <= Len(inflight)
    BY <1>5
  <2> QED
    BY <1>3, <1>4, <1>5, <1>6, <2>1, <2>2
<1>7. CASE \E i \in of : inflight' = RemoveAt(inflight, i)
  <2>1. PICK i \in of : inflight' = RemoveAt(inflight, i)
    BY <1>7
  <2>2. i \in DOMAIN inflight /\ inflight[i].id = a.id
    BY <1>1
  <2>3. PICK n \in Nat : n = Len(inflight) /\ DOMAIN inflight = 1..n
    BY <1>5
  <2>4. /\ inflight' \in Seq(Packets) /\ Len(inflight') = n - 1 /\ DOMAIN inflight' = 1..(n - 1)
        /\ \A k \in 1..(n - 1) : /\ k < i => inflight'[k] = inflight[k]
                                 /\ k >= i => inflight'[k] = inflight[k + 1]
    <3>1. PICK s : s = RemoveAt(inflight, i)
      OBVIOUS
    <3>2. /\ s \in Seq(Packets) /\ Len(s) = Len(inflight) - 1 /\ DOMAIN s = 1..(Len(inflight) - 1)
          /\ \A k \in DOMAIN s : /\ k < i => s[k] = inflight[k]
                                 /\ k >= i => s[k] = inflight[k + 1]
      BY <1>5, <2>2, <3>1, RemoveAtIs
    <3> QED
      BY <2>1, <2>3, <3>1, <3>2
  <2>5. i \in 1..n
    BY <2>2, <2>3
  <2>6. \A k \in DOMAIN inflight : k # i => inflight[k].id # a.id
    <3> SUFFICES ASSUME NEW k \in DOMAIN inflight, k # i PROVE inflight[k].id # a.id
      OBVIOUS
    <3>1. k < i \/ i < k
      BY <2>3, <2>5
    <3>2. inflight[k].id \in Int /\ inflight[i].id \in Int
      BY <1>5, <2>2, PacketFields
    <3> QED
      BY <1>5, <2>2, <3>1, <3>2
  <2>7. ASSUME NEW p \in Sent' PROVE p \in Sent /\ p.id # a.id
    <3>1. PICK k \in DOMAIN inflight' : p = inflight'[k]
      BY <2>7 DEF Sent
    <3>2. PICK j \in 1..n : j # i /\ p = inflight[j]
      <4>1. k \in 1..(n - 1)
        BY <2>4, <3>1
      <4>2. CASE k < i
        BY <2>4, <2>5, <3>1, <4>1, <4>2
      <4>3. CASE k >= i
        <5>1. k + 1 \in 1..n /\ k + 1 # i
          BY <2>5, <4>1, <4>3
        <5> QED
          BY <2>4, <3>1, <4>1, <4>3, <5>1
      <4> QED
        BY <2>5, <4>1, <4>2, <4>3
    <3> QED
      BY <2>3, <2>6, <3>2 DEF Sent
  <2>8. ASSUME NEW p \in Sent, p.id # a.id PROVE p \in Sent'
    <3>1. PICK j \in 1..n : p = inflight[j]
      BY <2>3 DEF Sent
    <3>2. j # i
      BY <2>2, <2>8, <3>1
    <3>3. CASE j < i
      <4>1. j \in 1..(n - 1)
        BY <2>5, <3>3
      <4> QED
        BY <2>4, <3>1, <3>3, <4>1 DEF Sent
    <3>4. CASE j > i
      <4>1. j - 1 \in 1..(n - 1) /\ j - 1 >= i /\ (j - 1) + 1 = j
        BY <2>5, <3>4
      <4>2. inflight'[j - 1] = inflight[j]
        BY <2>4, <4>1
      <4> QED
        BY <2>4, <3>1, <4>1, <4>2 DEF Sent
    <3> QED
      BY <2>5, <3>2, <3>3, <3>4
  <2>9. Sent' = {p \in Sent : p.id # a.id}
    BY <2>7, <2>8
  <2>10. ASSUME NEW k \in DOMAIN inflight', NEW j \in DOMAIN inflight', k < j
         PROVE  inflight'[k].id < inflight'[j].id
    <3>1. k \in 1..(n - 1) /\ j \in 1..(n - 1)
      BY <2>4
    <3>2. PICK x \in 1..n : inflight'[k] = inflight[x] /\ x = IF k < i THEN k ELSE k + 1
      BY <2>4, <2>5, <3>1
    <3>3. PICK y \in 1..n : inflight'[j] = inflight[y] /\ y = IF j < i THEN j ELSE j + 1
      BY <2>4, <2>5, <3>1
    <3>4. x < y
      BY <2>5, <2>10, <3>1, <3>2, <3>3
    <3> QED
      BY <1>5, <2>3, <3>2, <3>3, <3>4
  <2>11. Len(inflight') <= Len(inflight)
    BY <2>3, <2>4
  <2> QED
    BY <1>3, <1>4, <2>4, <2>9, <2>10, <2>11
<1> QED
  BY <1>3, <1>6, <1>7

(* The server settles a message that is entitled to its PUBACK.              *)
LEMMA ServerPubackSafe ==
  ASSUME TypeOK, SafeInv, ServerPuback
  PROVE  TypeOK' /\ SafeInv'
<1>1. PICK a : a = Head(up)
  OBVIOUS
<1>2. PICK msgs : msgs = {p.msg : p \in {q \in Sent : q.id = a.id}}
  OBVIOUS
<1>3. /\ inflight' \in Seq(Packets) /\ Len(inflight') <= Len(inflight)
      /\ Sent' = {p \in Sent : p.id # a.id}
      /\ \A i, j \in DOMAIN inflight' : i < j => inflight'[i].id < inflight'[j].id
      /\ settled' = settled \cup msgs
      /\ excused' = IF a.misread THEN excused \cup msgs ELSE excused
      /\ up # <<>> /\ up' = Tail(up)
      /\ UNCHANGED <<ring, clean_session, is_connected, down, partial, next_id, taken,
                     drops, faults, delivered, foreign, displaced>>
  BY <1>1, <1>2, ServerPubackIs
<1>4. up \in Seq(Acks) /\ inflight \in Seq(Packets)
  BY Types
<1>5. up' \in Seq(Acks) /\ a \in Acks /\ a = up[1] /\ 1 \in DOMAIN up
  BY <1>1, <1>3, <1>4, TailIs
<1>6. \A p \in Sent : p \in Packets /\ Current(p)
  BY <1>4 DEF Sent, SafeInv, PacketInv
<1>7. msgs \subseteq Messages
  BY <1>2, <1>6, PacketFields
<1>8. Base' = Base
  BY <1>3 DEF Base
<1>9. \A m \in Messages : Got(m) => Got(m)'
  BY <1>3 DEF Got
<1>10. \A m \in msgs : Got(m)'
  <2>1. CASE a.misread
    BY <1>3, <2>1 DEF Got
  <2>2. CASE ~a.misread
    <3>1. Got(a.id + Base)
      BY <1>5, <2>2 DEF SafeInv, UpInv
    <3>2. \A m \in msgs : m = a.id + Base
      BY <1>2, <1>6 DEF Current
    <3> QED
      BY <1>7, <1>9, <3>1, <3>2
  <2> QED
    BY <2>1, <2>2
<1>11. AckedIsDelivered'
  <2>1. \A m \in settled : Got(m) /\ m \in Messages
    BY Types DEF SafeInv, AckedIsDelivered, Got
  <2>2. \A m \in settled' : Got(m)'
    BY <1>3, <1>9, <1>10, <2>1
  <2> QED
    BY <2>2 DEF AckedIsDelivered, Got
<1>12. PacketInv'
  <2>1. \A i \in DOMAIN inflight' : inflight'[i] \in Sent'
    BY DEF Sent
  <2>2. \A i \in DOMAIN inflight' : Current(inflight'[i])
    BY <1>3, <1>6, <2>1
  <2> QED
    BY <1>3, <1>8, <2>2 DEF SafeInv, PacketInv, Current
<1>13. UpInv'
  <2> SUFFICES ASSUME NEW i \in DOMAIN up'
               PROVE  (up[i].misread \/ (up[i].id < next_id /\ Got(up[i].id + Base)))'
    BY DEF UpInv
  <2>1. i + 1 \in DOMAIN up /\ up'[i] = up[i + 1]
    BY <1>3, <1>4, TailIs
  <2>2. PICK b \in Acks : b = up[i + 1]
    BY <1>4, <2>1
  <2>3. CASE b.misread
    BY <2>1, <2>2, <2>3
  <2>4. CASE ~b.misread
    <3>1. b.id < next_id /\ Got(b.id + Base)
      BY <2>1, <2>2, <2>4 DEF SafeInv, UpInv
    <3>2. b.id + Base \in Messages
      BY <3>1, AckFields, IdMessage DEF SafeInv
    <3>3. PICK m \in Messages : m = b.id + Base
      BY <3>2
    <3>4. Got(m)'
      BY <1>9, <3>1, <3>3
    <3>5. (up[i].id + Base)' = m
      BY <1>8, <2>1, <2>2, <3>3
    <3> QED
      BY <1>3, <2>1, <2>2, <3>1, <3>4, <3>5 DEF Got
  <2> QED
    BY <2>3, <2>4
<1>14. RingInv'
  BY <1>3, SameRing DEF SafeInv, ring
<1>15. NumInv'
  <2>1. Len(inflight') \in Int /\ Len(inflight) \in Int
    BY <1>3, <1>4
  <2> QED
    BY <1>3, <2>1, Numbers DEF SafeInv, NumInv
<1>16. LinkInv'
  BY <1>3 DEF SafeInv, LinkInv
<1>17. TypeOK'
  <2>1. settled' \subseteq Messages /\ excused' \subseteq Messages
    BY <1>3, <1>7, Types
  <2> QED
    BY <1>3, <1>5, <2>1 DEF TypeOK, ring, Acks
<1> QED
  BY <1>11, <1>12, <1>13, <1>14, <1>15, <1>16, <1>17 DEF SafeInv

(* A sequence without its first n elements.                                  *)
LEMMA SubSeqIs ==
  ASSUME NEW S, NEW s \in Seq(S), NEW n \in 0..Len(s)
  PROVE  /\ SubSeq(s, n + 1, Len(s)) \in Seq(S)
         /\ \A i \in DOMAIN SubSeq(s, n + 1, Len(s)) :
              i + n \in DOMAIN s /\ SubSeq(s, n + 1, Len(s))[i] = s[i + n]
<1>1. Len(s) \in Nat /\ n \in Int /\ n >= 0 /\ n <= Len(s) /\ DOMAIN s = 1..Len(s)
  OBVIOUS
<1>2. /\ SubSeq(s, n + 1, Len(s)) \in Seq(S)
      /\ DOMAIN SubSeq(s, n + 1, Len(s)) = 1..(Len(s) - n)
  BY <1>1
<1>3. \A i \in 1..(Len(s) - n) : SubSeq(s, n + 1, Len(s))[i] = s[i + n]
  BY <1>1
<1>4. \A i \in 1..(Len(s) - n) : i + n \in 1..Len(s)
  BY <1>1
<1> QED
  BY <1>1, <1>2, <1>3, <1>4

(* The ring after the id of a misread packet entered it.                     *)
LEMMA AddForeign ==
  ASSUME TypeOK, RingInv, NEW id \in Ids, _add_packet_id_to_repeat_buf(id),
         foreign' = (foreign \cap InRing(repeat_packet_id_buf'))
                       \cup (IF _get_packet_id_in_repeat_buf(id) THEN {} ELSE {id}),
         next_id' = next_id, taken' = taken, delivered' = delivered
  PROVE  RingInv' /\ foreign' \subseteq InRing(repeat_packet_id_buf')
<1>0. Base' = Base
  BY DEF Base
<1>1. CASE _get_packet_id_in_repeat_buf(id) /\ repeat_packet_id_buf' = repeat_packet_id_buf
  <2>1. foreign' = foreign
    BY <1>1, Types
  <2> QED
    BY <1>0, <1>1, <2>1, Types, SameRing
<1>2. CASE /\ ~_get_packet_id_in_repeat_buf(id)
           /\ repeat_packet_id_buf' = [repeat_packet_id_buf EXCEPT ![current_packet_id_cnt] = id]
  <2>1. current_packet_id_cnt \in Cells /\ repeat_packet_id_buf \in [Cells -> 0..MaxId]
    BY Types
  <2>2. /\ repeat_packet_id_buf'[current_packet_id_cnt] = id
        /\ \A c \in Cells : c # current_packet_id_cnt => repeat_packet_id_buf'[c] = repeat_packet_id_buf[c]
    BY <1>2, <2>1
  <2>3. \A c \in Cells : repeat_packet_id_buf[c] # id
    BY <1>2 DEF _get_packet_id_in_repeat_buf
  <2>4. foreign' = (foreign \cap InRing(repeat_packet_id_buf')) \cup {id}
    BY <1>2
  <2>5. ASSUME NEW c \in Cells, Fresh(c)'
        PROVE  repeat_packet_id_buf'[c] < next_id' /\ delivered'[repeat_packet_id_buf'[c] + Base'] > 0
    <3>1. c # current_packet_id_cnt
      BY <2>2, <2>4, <2>5 DEF Fresh
    <3>2. repeat_packet_id_buf'[c] = repeat_packet_id_buf[c]
      BY <2>2, <3>1
    <3>3. repeat_packet_id_buf'[c] \in InRing(repeat_packet_id_buf')
      BY <2>5 DEF InRing, Fresh
    <3>4. Fresh(c)
      BY <2>4, <2>5, <3>2, <3>3 DEF Fresh
    <3> QED
      BY <1>0, <3>2, <3>4 DEF RingInv
  <2>6. \A c, d \in Cells : c # d /\ repeat_packet_id_buf'[c] = repeat_packet_id_buf'[d]
                            => repeat_packet_id_buf'[c] = 0
    BY <2>2, <2>3 DEF RingInv
  <2>7. id \in InRing(repeat_packet_id_buf')
    <3>1. id # 0
      BY Numbers DEF Ids
    <3> QED
      BY <2>1, <2>2, <3>1 DEF InRing
  <2> QED
    BY <2>4, <2>5, <2>6, <2>7 DEF RingInv
<1> QED
  BY AddIs, <1>1, <1>2

(* A misread packet puts a foreign id into the ring; what its PUBACK settles *)
(* is excused.                                                               *)
LEMMA MisreadSafe ==
  ASSUME TypeOK, SafeInv, Misread
  PROVE  TypeOK' /\ SafeInv'
<1>1. PICK n \in 0..Len(down) :
        /\ down' = SubSeq(down, n + 1, Len(down))
        /\ \/ n > 0 /\ partial' = FALSE
           \/ n < Len(down) /\ partial' = TRUE
        /\ \/ displaced' = (displaced \/ n > 0) /\ UNCHANGED <<ring, up, foreign>>
           \/ \E id \in Ids :
                 /\ Len(up) <= MaxInflight
                 /\ _add_packet_id_to_repeat_buf(id)
                 /\ foreign' = (foreign \cap InRing(repeat_packet_id_buf'))
                                  \cup (IF _get_packet_id_in_repeat_buf(id) THEN {} ELSE {id})
                 /\ displaced' = TRUE
                 /\ Puback(id, TRUE)
  BY DEF Misread
<1>2. /\ is_connected
      /\ UNCHANGED <<clean_session, is_connected, server, drops, faults, delivered, settled, excused>>
  BY DEF Misread
<1>3. down \in Seq(Packets) /\ up \in Seq(Acks)
  BY Types
<1>4. Base' = Base
  BY <1>2 DEF Base, server
<1>5. down' \in Seq(Packets) /\ PacketInv'
  <2>1. down' \in Seq(Packets) /\ \A i \in DOMAIN down' : Current(down'[i])
    BY <1>1, <1>3, SubSeqIs DEF SafeInv, PacketInv
  <2> QED
    BY <1>2, <1>4, <2>1 DEF SafeInv, PacketInv, Current, server
<1>6. /\ RingInv' /\ foreign' \subseteq InRing(repeat_packet_id_buf')
      /\ repeat_packet_id_buf' \in [Cells -> 0..MaxId] /\ current_packet_id_cnt' \in Cells
  <2>1. CASE UNCHANGED <<ring, up, foreign>>
    BY <1>2, <2>1, SameRing, Types DEF SafeInv, ring, server
  <2>2. CASE \E id \in Ids :
               /\ _add_packet_id_to_repeat_buf(id)
               /\ foreign' = (foreign \cap InRing(repeat_packet_id_buf'))
                                \cup (IF _get_packet_id_in_repeat_buf(id) THEN {} ELSE {id})
    <3>1. RingInv /\ next_id' = next_id /\ taken' = taken /\ delivered' = delivered
      BY <1>2 DEF SafeInv, server
    <3> QED
      BY <2>2, <3>1, AddForeign, AddTypes
  <2> QED
    BY <1>1, <2>1, <2>2
<1>7. up' \in Seq(Acks) /\ UpInv'
  <2>1. CASE up' = up
    BY <1>2, <1>3, <1>4, <2>1 DEF SafeInv, UpInv, Got, server
  <2>2. CASE \E id \in Ids : up' = Append(up, [id |-> id, misread |-> TRUE])
    <3>0. PICK id \in Ids : up' = Append(up, [id |-> id, misread |-> TRUE])
      BY <2>2
    <3>1. PICK b \in Acks : up' = Append(up, b) /\ b.misread
      <4>1. [id |-> id, misread |-> TRUE] \in Acks
        BY DEF Acks
      <4> QED
        BY <3>0, <4>1
    <3>2. \A i \in DOMAIN up' : up'[i].misread \/ (i \in DOMAIN up /\ up'[i] = up[i])
      BY <1>3, <3>1, AppendIs
    <3>3. up' \in Seq(Acks)
      BY <1>3, <3>1, AppendIs
    <3> QED
      BY <1>2, <1>4, <3>2, <3>3 DEF SafeInv, UpInv, Got, server
  <2> QED
    BY <1>1, <2>1, <2>2 DEF Puback
<1>8. NumInv' /\ LinkInv' /\ AckedIsDelivered'
  BY <1>2 DEF SafeInv, NumInv, LinkInv, AckedIsDelivered, server
<1>9. TypeOK'
  <2>1. partial' \in BOOLEAN /\ displaced' \in BOOLEAN
    BY <1>1, Types
  <2> QED
    BY <1>2, <1>5, <1>6, <1>7, <2>1 DEF TypeOK, server, Acks
<1> QED
  BY <1>5, <1>6, <1>7, <1>8, <1>9 DEF SafeInv

(* Nothing has been sent.                                                    *)
LEMMA InitSafe == Init => TypeOK /\ SafeInv
<1> SUFFICES ASSUME Init PROVE TypeOK /\ SafeInv
  OBVIOUS
<1>1. TypeOK
  <2>1. /\ down \in Seq(Packets) /\ inflight \in Seq(Packets) /\ up \in Seq([id : Ids, misread : BOOLEAN])
        /\ next_id \in Ids /\ taken \in 0..MaxMessages
        /\ drops \in 0..MaxDrops /\ faults \in 0..MaxFaults
        /\ current_packet_id_cnt \in Cells
    BY Numbers DEF Init, Ids, Cells
  <2>2. repeat_packet_id_buf \in [Cells -> 0..MaxId] /\ delivered \in [Messages -> 0..2]
    BY Numbers DEF Init
  <2> QED
    BY <2>1, <2>2 DEF Init, TypeOK
<1>2. NumInv
  <2>1. Len(<<>>) <= MaxInflight
    BY Numbers
  <2> QED
    BY <2>1 DEF Init, NumInv
<1>3. \A c \in Cells : repeat_packet_id_buf[c] = 0
  BY DEF Init
<1>4. RingInv
  BY <1>3 DEF RingInv, Fresh
<1> QED
  BY <1>1, <1>2, <1>4 DEF Init, SafeInv, LinkInv, PacketInv, UpInv, AckedIsDelivered

(* A stuttering step.                                                        *)
LEMMA StutterSafe ==
  ASSUME TypeOK, SafeInv, UNCHANGED vars
  PROVE  TypeOK' /\ SafeInv'
<1>1. UNCHANGED <<ring, clean_session, link, server, drops, faults, history>>
  BY DEF vars
<1>2. TypeOK'
  BY <1>1 DEF TypeOK, ring, link, server, history
<1>3. RingInv'
  BY <1>1, SameRing DEF SafeInv, ring, server, history
<1>4. NumInv' /\ LinkInv' /\ PacketInv' /\ UpInv' /\ AckedIsDelivered'
  BY <1>1 DEF SafeInv, NumInv, LinkInv, PacketInv, Current, UpInv, AckedIsDelivered,
              Got, Base, link, server, history
<1> QED
  BY <1>2, <1>3, <1>4 DEF SafeInv

-----------------------------------------------------------------------------
(* Steps that keep OnceInv.                                                  *)

(* What the server keeps, and what is on its way, are packets of the         *)
(* session.                                                                  *)
LEMMA SentFacts ==
  ASSUME TypeOK, SafeInv
  PROVE  \A p \in Sent : p \in Packets /\ Current(p)
<1>1. inflight \in Seq(Packets)
  BY Types
<1> QED
  BY <1>1 DEF Sent, SafeInv, PacketInv

LEMMA DownFacts ==
  ASSUME TypeOK, SafeInv
  PROVE  \A i \in DOMAIN down : i \in Int /\ i >= 1 /\ down[i] \in Packets /\ Current(down[i])
<1>1. down \in Seq(Packets)
  BY Types
<1> QED
  BY <1>1 DEF SafeInv, PacketInv

(* A packet of the session is known by its id and by its message.            *)
LEMMA CurrentFacts ==
  ASSUME TypeOK, NEW p \in Packets, NEW q \in Packets, Current(p), Current(q)
  PROVE  /\ p.id < q.id <=> p.msg < q.msg
         /\ p.id = q.id => p = q
         /\ p.msg = q.msg => p = q
         /\ Base < p.msg /\ p.msg - Base = p.id /\ p.msg <= taken
<1>1. /\ p.msg = p.id + Base /\ q.msg = q.id + Base /\ Base \in Int
      /\ p.id \in Int /\ q.id \in Int /\ p.id >= 1 /\ p.id < next_id
      /\ next_id \in Int /\ taken \in Int /\ Base = taken + 1 - next_id
  BY Types, PacketFields DEF Current
<1>2. p.id = q.id /\ p.msg = q.msg => p = q
  BY DEF Packets
<1> QED
  BY <1>1, <1>2

(* The messages ahead of a packet are finitely many.                         *)
LEMMA AheadFinite ==
  ASSUME NEW S \in SUBSET Messages
  PROVE  IsFiniteSet(S) /\ Cardinality(S) \in Nat
<1>1. IsFiniteSet(Messages)
  BY Numbers, FS_Interval DEF Messages
<1>2. IsFiniteSet(S)
  BY <1>1, FS_Subset
<1> QED
  BY <1>2, FS_CardinalityType

(* A smaller set of later messages.                                          *)
LEMMA AheadSmaller ==
  ASSUME NEW T \in SUBSET Messages, NEW S \in SUBSET T, Cardinality(T) < MaxInflight
  PROVE  Cardinality(S) < MaxInflight
<1>1. IsFiniteSet(T) /\ Cardinality(T) \in Nat /\ Cardinality(S) \in Nat
  BY AheadFinite
<1>2. Cardinality(S) <= Cardinality(T)
  BY <1>1, FS_Subset
<1> QED
  BY <1>1, <1>2, Numbers

(* A set of fewer messages than the ring has cells cannot fill the ring.     *)
LEMMA RingOverflow ==
  ASSUME TypeOK, SafeInv, Window, NEW T \in SUBSET Messages,
         \A c \in Cells : Fresh(c) /\ repeat_packet_id_buf[c] + Base \in T
  PROVE  ~(Cardinality(T) < MaxInflight)
<1>1. PICK f : f = [c \in Cells |-> repeat_packet_id_buf[c] + Base]
  OBVIOUS
<1>2. \A c, d \in Cells : f[c] = f[d] => c = d
  <2> SUFFICES ASSUME NEW c \in Cells, NEW d \in Cells, f[c] = f[d] PROVE c = d
    OBVIOUS
  <2>1. repeat_packet_id_buf[c] \in Int /\ repeat_packet_id_buf[d] \in Int /\ Base \in Int
    BY FreshMessage, Types DEF SafeInv
  <2>2. repeat_packet_id_buf[c] = repeat_packet_id_buf[d]
    BY <1>1, <2>1
  <2>3. repeat_packet_id_buf[c] # 0
    BY DEF Fresh
  <2> QED
    BY <2>2, <2>3 DEF SafeInv, RingInv
<1>3. f \in [Cells -> T]
  BY <1>1
<1>4. f \in Injection(Cells, T)
  BY <1>2, <1>3 DEF Injection, IsInjective
<1>5. IsFiniteSet(T) /\ Cardinality(T) \in Nat
  BY AheadFinite
<1>6. Cardinality(Cells) <= Cardinality(T)
  BY <1>4, <1>5, FS_Injection
<1>7. Cardinality(Cells) = MQTT_MAX_REPEAT_BUF_LEN
  <2>1. Cardinality(0..(MQTT_MAX_REPEAT_BUF_LEN - 1)) = (MQTT_MAX_REPEAT_BUF_LEN - 1) - 0 + 1
    BY Numbers, FS_Interval
  <2> QED
    BY <2>1, Numbers DEF Cells
<1> QED
  BY <1>5, <1>6, <1>7, Numbers DEF Window

(* A message that was delivered and is read again is found in the ring.      *)
LEMMA ReadAgain ==
  ASSUME TypeOK, SafeInv, OnceInv, Window, down # <<>>,
         Expected(down[1]), delivered[down[1].msg] > 0
  PROVE  _get_packet_id_in_repeat_buf(down[1].id)
<1>1. 1 \in DOMAIN down
  BY Types, TailIs
<1>2. PICK p \in Packets : p = down[1] /\ Current(p)
  BY <1>1, DownFacts
<1>3. p.msg \in Messages /\ Base < p.msg /\ p.msg - Base = p.id /\ p.id \in Int /\ p.msg \in Int
  BY <1>2, CurrentFacts, PacketFields
<1>4. Cardinality(Ahead(1)) < MaxInflight
  BY <1>1 DEF OnceInv, WindowInv
<1> SUFFICES ASSUME \A c \in Cells : Fresh(c) /\ p.id < repeat_packet_id_buf[c]
             PROVE  FALSE
  BY <1>2, <1>3 DEF OnceInv, CellInv, HeldInv
<1>5. ASSUME NEW c \in Cells PROVE Fresh(c) /\ repeat_packet_id_buf[c] + Base \in Ahead(1)
  <2>1. Fresh(c) /\ p.id < repeat_packet_id_buf[c]
    OBVIOUS
  <2>2. /\ repeat_packet_id_buf[c] \in Int /\ repeat_packet_id_buf[c] + Base \in Messages
        /\ delivered[repeat_packet_id_buf[c] + Base] > 0
    BY <2>1, FreshMessage DEF SafeInv
  <2>3. p.msg < repeat_packet_id_buf[c] + Base
    <3>1. p.msg = p.id + Base /\ Base \in Int
      BY <1>2, Types DEF Current
    <3> QED
      BY <1>3, <2>1, <2>2, <3>1
  <2> QED
    BY <1>2, <2>1, <2>2, <2>3 DEF Ahead
<1>6. Ahead(1) \in SUBSET Messages
  BY DEF Ahead
<1> QED
  BY <1>4, <1>5, <1>6, RingOverflow

(* The two ways a packet is handled while nothing is displaced: as one seen  *)
(* before, or as the first copy of its message.                              *)
LEMMA HandlePublishIs ==
  ASSUME TypeOK, SafeInv, OnceInv, Window, HandlePublish, ~displaced', NEW p, p = Head(down)
  PROVE  /\ down # <<>> /\ p = down[1] /\ 1 \in DOMAIN down /\ down' = Tail(down)
         /\ p \in Packets /\ Current(p) /\ p.msg \notin Oversized /\ is_connected
         /\ up' = Append(up, [id |-> p.id, misread |-> FALSE])
         /\ [id |-> p.id, misread |-> FALSE] \in Acks
         /\ inflight' = inflight /\ next_id' = next_id /\ taken' = taken
         /\ is_connected' = is_connected
         /\ excused \subseteq excused'
         /\ \/ /\ delivered' = delivered /\ foreign' = foreign
               /\ repeat_packet_id_buf' = repeat_packet_id_buf
               /\ current_packet_id_cnt' = current_packet_id_cnt
            \/ /\ Expected(p) /\ delivered[p.msg] = 0 /\ excused' = excused
               /\ delivered'[p.msg] = 1
               /\ \A m \in Messages : m # p.msg => delivered'[m] = delivered[m]
               /\ ~_get_packet_id_in_repeat_buf(p.id)
               /\ foreign' = foreign \cap InRing(repeat_packet_id_buf')
               /\ repeat_packet_id_buf' = [repeat_packet_id_buf EXCEPT ![current_packet_id_cnt] = p.id]
               /\ current_packet_id_cnt' = IF current_packet_id_cnt = MQTT_MAX_REPEAT_BUF_LEN - 1
                                           THEN 0 ELSE current_packet_id_cnt + 1
<1>1. down \in Seq(Packets) /\ down # <<>>
  BY Types DEF HandlePublish, Aligned
<1>2. p \in Packets /\ p = down[1] /\ 1 \in DOMAIN down
  BY <1>1, TailIs
<1>3. /\ p.msg \notin Oversized /\ Deliver(p) /\ _add_packet_id_to_repeat_buf(p.id)
      /\ foreign' = foreign \cap InRing(repeat_packet_id_buf')
      /\ down' = Tail(down) /\ is_connected' = is_connected
      /\ inflight' = inflight /\ next_id' = next_id /\ taken' = taken
      /\ is_connected
  BY DEF HandlePublish, server, Aligned
<1>4. Puback(p.id, FALSE) /\ ~OutOfTurn(p)
  BY DEF HandlePublish
<1>5. p.id \in Ids
  BY <1>2, PacketFields
<1>6. [id |-> p.id, misread |-> FALSE] \in Acks
  BY <1>5 DEF Acks
<1>7. Current(p)
  BY <1>2, DownFacts
<1>8. CASE _get_packet_id_in_repeat_buf(p.id)
  <2>1. /\ repeat_packet_id_buf' = repeat_packet_id_buf
        /\ current_packet_id_cnt' = current_packet_id_cnt
    BY <1>3, <1>5, <1>8, AddIs
  <2>2. foreign' = foreign
    BY <1>3, <2>1, Types
  <2>3. delivered' = delivered /\ excused \subseteq excused'
    BY <1>2, <1>3, <1>8, DeliverIs
  <2> QED
    BY <1>1, <1>2, <1>3, <1>4, <1>6, <1>7, <2>1, <2>2, <2>3 DEF Puback
<1>9. CASE ~_get_packet_id_in_repeat_buf(p.id)
  <2>1. p.msg \notin excused
    BY <1>4, <1>9 DEF OutOfTurn
  <2>2. Expected(p)
    BY <1>3, <2>1 DEF Expected
  <2>3. ~(delivered[p.msg] > 0)
    BY <1>1, <1>2, <1>9, <2>2, ReadAgain
  <2>4. delivered[p.msg] = 0
    <3>1. delivered[p.msg] \in 0..2
      BY <1>2, PacketFields, Types
    <3> QED
      BY <2>3, <3>1
  <2>5. /\ repeat_packet_id_buf' = [repeat_packet_id_buf EXCEPT ![current_packet_id_cnt] = p.id]
        /\ current_packet_id_cnt' = IF current_packet_id_cnt = MQTT_MAX_REPEAT_BUF_LEN - 1
                                    THEN 0 ELSE current_packet_id_cnt + 1
    BY <1>3, <1>5, <1>9, AddIs
  <2>6. /\ delivered'[p.msg] = 1 /\ excused' = excused
        /\ \A m \in Messages : m # p.msg => delivered'[m] = delivered[m]
    BY <1>2, <1>3, <1>9, <2>4, DeliverIs
  <2> QED
    BY <1>1, <1>2, <1>3, <1>4, <1>6, <1>7, <1>9, <2>2, <2>4, <2>5, <2>6 DEF Puback
<1> QED
  BY <1>8, <1>9

(* What the server keeps and what has its PUBACK, after one PUBACK more.     *)
LEMMA HandlePublishOrder ==
  ASSUME TypeOK, SafeInv, OnceInv, Window, HandlePublish, ~displaced'
  PROVE  OrderInv'
<1>0. PICK p : p = Head(down)
  OBVIOUS
<1>1. PICK a : a = [id |-> p.id, misread |-> FALSE]
  OBVIOUS
<1>2. /\ down # <<>> /\ p = down[1] /\ 1 \in DOMAIN down /\ down' = Tail(down)
      /\ p \in Packets /\ Current(p) /\ p.msg \notin Oversized /\ is_connected
      /\ up' = Append(up, a) /\ a \in Acks /\ a.id = p.id
      /\ inflight' = inflight /\ is_connected' = is_connected
      /\ excused \subseteq excused'
  BY <1>0, <1>1, HandlePublishIs
<1>3. \/ delivered' = delivered
      \/ /\ Expected(p) /\ delivered[p.msg] = 0 /\ delivered'[p.msg] = 1
         /\ \A m \in Messages : m # p.msg => delivered'[m] = delivered[m]
  BY <1>0, HandlePublishIs
<1>4. Sent' = Sent /\ \A q \in Packets : Expected(q)' => Expected(q)
  BY <1>2 DEF Sent, Expected
<1>5. \A q \in Sent : q \in Packets /\ Current(q)
  BY SentFacts
<1>6. down \in Seq(Packets) /\ up \in Seq(Acks)
  BY Types
<1>7. \A i \in DOMAIN up : i \in DOMAIN up' /\ up'[i] = up[i] /\ i \in Int /\ i < Len(up) + 1
  BY <1>2, <1>6, AppendIs
<1>8. Len(up) + 1 \in DOMAIN up' /\ up'[Len(up) + 1] = a
  BY <1>2, <1>6, AppendIs
<1>9. \A i \in DOMAIN up' : i # Len(up) + 1 => i \in DOMAIN up
  BY <1>2, <1>6, AppendIs
<1>10. Acked(p)' /\ \A q \in Packets : Acked(q) => Acked(q)'
  BY <1>2, <1>7, <1>8 DEF Acked
<1>11. \A i \in DOMAIN down' : i \in Int /\ i >= 1 /\ i + 1 \in DOMAIN down /\ down'[i] = down[i + 1]
  BY <1>2, <1>6, TailIs
<1>12. \A i \in DOMAIN down : i \in Int /\ i >= 1 /\ (i # 1 => i - 1 \in DOMAIN down' /\ down'[i - 1] = down[i])
  BY <1>2, <1>6, TailIs
<1>13. ASSUME NEW q \in Sent, Expected(q), q.id < p.id PROVE Acked(q)
  <2>1. Acked(q) \/ \E i \in DOMAIN down : i < 1 /\ down[i] = q
    BY <1>2, <1>13 DEF OnceInv, OrderInv, DownOrder
  <2> QED
    BY <1>12, <2>1
<1>14. CoverInv'
  <2> SUFFICES ASSUME NEW q \in Sent, Expected(q)' PROVE Acked(q)' \/ Queued(q)'
    BY <1>4 DEF CoverInv
  <2>1. Acked(q) \/ Queued(q)
    BY <1>2, <1>4, <1>5 DEF OnceInv, OrderInv, CoverInv
  <2>2. CASE Acked(q)
    BY <1>5, <1>10, <2>2
  <2>3. CASE Queued(q)
    <3>1. PICK i \in DOMAIN down : down[i] = q
      BY <2>3 DEF Queued
    <3>2. CASE i = 1
      BY <1>2, <1>10, <3>1, <3>2
    <3>3. CASE i # 1
      BY <1>12, <3>1, <3>3 DEF Queued
    <3> QED
      BY <3>2, <3>3
  <2> QED
    BY <2>1, <2>2, <2>3
<1>15. AckOrder'
  <2> SUFFICES ASSUME NEW q \in Sent, Expected(q)', NEW j \in DOMAIN up', q.id < up'[j].id
               PROVE  \E i \in DOMAIN up' : i < j /\ up'[i].id = q.id
    BY <1>4 DEF AckOrder
  <2>1. Expected(q)
    BY <1>4, <1>5
  <2>2. CASE j = Len(up) + 1
    <3>1. Acked(q)
      BY <1>2, <1>8, <1>13, <2>1, <2>2
    <3> QED
      BY <1>7, <2>2, <3>1 DEF Acked
  <2>3. CASE j # Len(up) + 1
    <3>1. j \in DOMAIN up /\ up'[j] = up[j]
      BY <1>7, <1>9, <2>3
    <3>2. PICK i \in DOMAIN up : i < j /\ up[i].id = q.id
      BY <2>1, <3>1 DEF OnceInv, OrderInv, AckOrder
    <3> QED
      BY <1>7, <3>2
  <2> QED
    BY <2>2, <2>3
<1>16. DownOrder'
  <2> SUFFICES ASSUME NEW q \in Sent, Expected(q)', NEW j \in DOMAIN down', q.id < down'[j].id
               PROVE  Acked(q)' \/ \E i \in DOMAIN down' : i < j /\ down'[i] = q
    BY <1>4 DEF DownOrder
  <2>1. Expected(q) /\ q \in Packets
    BY <1>4, <1>5
  <2>2. Acked(q) \/ \E i \in DOMAIN down : i < j + 1 /\ down[i] = q
    BY <1>11, <2>1 DEF OnceInv, OrderInv, DownOrder
  <2>3. CASE Acked(q)
    BY <1>10, <2>1, <2>3
  <2>4. CASE \E i \in DOMAIN down : i < j + 1 /\ down[i] = q
    <3>1. PICK i \in DOMAIN down : i < j + 1 /\ down[i] = q
      BY <2>4
    <3>2. CASE i = 1
      BY <1>2, <1>10, <3>1, <3>2
    <3>3. CASE i # 1
      <4>1. i - 1 \in DOMAIN down' /\ down'[i - 1] = q /\ i - 1 < j
        BY <1>11, <1>12, <3>1, <3>3
      <4> QED
        BY <4>1
    <3> QED
      BY <3>2, <3>3
  <2> QED
    BY <2>2, <2>3, <2>4
<1>17. \A m \in Messages : delivered'[m] = 0 => delivered[m] = 0
  BY <1>3
<1>18. NewInv'
  <2> SUFFICES ASSUME NEW i \in DOMAIN down', Expected(down[i])', delivered'[down'[i].msg] = 0
               PROVE  down'[i] \in Sent
    BY <1>4 DEF NewInv
  <2>1. PICK q \in Packets : q = down[i + 1] /\ q = down'[i] /\ i + 1 \in DOMAIN down
    BY <1>11, DownFacts
  <2>2. Expected(q)'
    BY <2>1 DEF Expected
  <2>3. Expected(q) /\ delivered[q.msg] = 0
    BY <1>4, <1>17, <2>1, <2>2, PacketFields
  <2> QED
    BY <2>1, <2>3 DEF OnceInv, OrderInv, NewInv
<1>19. InOrder'
  <2> SUFFICES ASSUME NEW q \in Sent, Expected(q)', delivered'[q.msg] = 0,
                      NEW m \in Messages, delivered'[m] > 0
               PROVE  m < q.msg
    BY <1>4 DEF InOrder
  <2>1. q \in Packets /\ Current(q) /\ Expected(q) /\ delivered[q.msg] = 0
    BY <1>4, <1>5, <1>17, PacketFields
  <2>2. CASE delivered[m] > 0
    BY <2>1, <2>2 DEF OnceInv, OrderInv, InOrder
  <2>3. CASE ~(delivered[m] > 0)
    <3>1. m = p.msg /\ delivered'[p.msg] = 1
      BY <1>3, <2>3
    <3>2. q.msg # p.msg
      BY <3>1
    <3>3. ~(q.msg < p.msg)
      <4> SUFFICES ASSUME q.msg < p.msg PROVE FALSE
        OBVIOUS
      <4>1. q.id < p.id
        BY <1>2, <2>1, CurrentFacts
      <4>2. PICK i \in DOMAIN up : up[i].id = q.id
        BY <1>13, <2>1, <4>1 DEF Acked
      <4>3. Got(q.id + Base)
        BY <4>2 DEF OnceInv, Genuine, SafeInv, UpInv
      <4>4. q.id + Base = q.msg
        BY <2>1 DEF Current
      <4> QED
        BY <2>1, <4>3, <4>4 DEF Got, Expected
    <3> QED
      BY <1>2, <2>1, <3>1, <3>2, <3>3, PacketFields
  <2> QED
    BY <2>2, <2>3
<1>20. KeptInv'
  <2> SUFFICES ASSUME NEW q \in Sent, Expected(q)', NEW m \in Messages, q.msg < m, delivered'[m] > 0
               PROVE  \E r \in Sent : r.msg = m
    BY <1>4 DEF KeptInv
  <2>1. Expected(q)
    BY <1>4, <1>5
  <2>2. CASE delivered[m] > 0
    BY <2>1, <2>2 DEF OnceInv, OrderInv, KeptInv
  <2>3. CASE ~(delivered[m] > 0)
    <3>1. m = p.msg /\ Expected(p) /\ delivered[p.msg] = 0
      BY <1>3, <2>3
    <3>2. p \in Sent
      BY <1>2, <3>1 DEF OnceInv, OrderInv, NewInv
    <3> QED
      BY <3>1, <3>2
  <2> QED
    BY <2>2, <2>3
<1> QED
  BY <1>14, <1>15, <1>16, <1>18, <1>19, <1>20 DEF OrderInv

(* The ring after the first copy of a message.                               *)
LEMMA HandlePublishCells ==
  ASSUME TypeOK, SafeInv, OnceInv, Window, HandlePublish, ~displaced'
  PROVE  CellInv'
<1>0. PICK p : p = Head(down)
  OBVIOUS
<1>1. /\ p = down[1] /\ 1 \in DOMAIN down /\ p \in Packets /\ Current(p)
      /\ next_id' = next_id /\ taken' = taken
  BY <1>0, HandlePublishIs
<1>2. Base' = Base /\ Base \in Int
  BY <1>1, Types DEF Base
<1>3. AgeInv /\ HeldInv
  BY DEF OnceInv, CellInv
<1>4. CASE /\ delivered' = delivered /\ foreign' = foreign
           /\ repeat_packet_id_buf' = repeat_packet_id_buf
           /\ current_packet_id_cnt' = current_packet_id_cnt
  <2>1. AgeInv'
    BY <1>3, <1>4 DEF AgeInv, Older, Fresh
  <2>2. HeldInv'
    BY <1>2, <1>3, <1>4 DEF HeldInv, Fresh, _get_packet_id_in_repeat_buf
  <2> QED
    BY <2>1, <2>2 DEF CellInv
<1>5. CASE /\ Expected(p) /\ delivered[p.msg] = 0
           /\ delivered'[p.msg] = 1
           /\ \A m \in Messages : m # p.msg => delivered'[m] = delivered[m]
           /\ ~_get_packet_id_in_repeat_buf(p.id)
           /\ foreign' = foreign \cap InRing(repeat_packet_id_buf')
           /\ repeat_packet_id_buf' = [repeat_packet_id_buf EXCEPT ![current_packet_id_cnt] = p.id]
           /\ current_packet_id_cnt' = IF current_packet_id_cnt = MQTT_MAX_REPEAT_BUF_LEN - 1
                                       THEN 0 ELSE current_packet_id_cnt + 1
  <2>1. PICK w \in Cells : w = current_packet_id_cnt
    BY Types
  <2>2. /\ repeat_packet_id_buf'[w] = p.id
        /\ \A c \in Cells : c # w => repeat_packet_id_buf'[c] = repeat_packet_id_buf[c]
    <3>1. repeat_packet_id_buf \in [Cells -> 0..MaxId]
      BY Types
    <3> QED
      BY <1>5, <2>1, <3>1
  <2>3. p.id \in Int /\ p.id >= 1 /\ p.msg \in Messages /\ p.msg = p.id + Base
    BY <1>1, PacketFields DEF Current
  <2>4. \A c \in Cells : repeat_packet_id_buf[c] # p.id
    BY <1>5 DEF _get_packet_id_in_repeat_buf
  <2>5. p.id \notin foreign
    <3>1. p.id \notin InRing(repeat_packet_id_buf)
      BY <2>4 DEF InRing
    <3> QED
      BY <3>1, Types
  <2>6. Fresh(w)'
    BY <1>5, <2>2, <2>3, <2>5 DEF Fresh
  <2>7. ASSUME NEW c \in Cells, c # w PROVE Fresh(c)' <=> Fresh(c)
    <3>1. repeat_packet_id_buf'[c] = repeat_packet_id_buf[c]
      BY <2>2, <2>7
    <3>2. repeat_packet_id_buf'[c] # 0 => repeat_packet_id_buf'[c] \in InRing(repeat_packet_id_buf')
      BY DEF InRing
    <3>3. foreign' = foreign \cap InRing(repeat_packet_id_buf')
      BY <1>5
    <3>4. CASE repeat_packet_id_buf[c] = 0
      BY <3>1, <3>4 DEF Fresh
    <3>5. CASE repeat_packet_id_buf[c] # 0
      BY <3>1, <3>2, <3>3, <3>5 DEF Fresh
    <3> QED
      BY <3>4, <3>5
  <2>8. p \in Sent
    BY <1>1, <1>5 DEF OnceInv, OrderInv, NewInv
  <2>9. \A m \in Messages : delivered[m] > 0 => m < p.msg
    BY <1>5, <2>8 DEF OnceInv, OrderInv, InOrder
  <2>10. ASSUME NEW c \in Cells, Fresh(c) PROVE repeat_packet_id_buf[c] < p.id
    <3>1. /\ repeat_packet_id_buf[c] \in Int /\ repeat_packet_id_buf[c] + Base \in Messages
          /\ delivered[repeat_packet_id_buf[c] + Base] > 0
      BY <2>10, FreshMessage DEF SafeInv
    <3>2. repeat_packet_id_buf[c] + Base < p.msg
      BY <2>9, <3>1
    <3> QED
      BY <1>2, <2>3, <3>1, <3>2
  <2>11. \A c \in Cells : c # w => Older(w, c)
    BY <2>1, Numbers DEF Older, Cells
  <2>12. \A c, d \in Cells : Older(c, d)' => c # w /\ (d # w => Older(c, d))
    BY <1>5, <2>1, Numbers DEF Older, Cells
  <2>13. AgeInv'
    <3> SUFFICES ASSUME NEW c \in Cells, NEW d \in Cells, Older(c, d)', Fresh(c)'
                 PROVE  Fresh(d)' /\ repeat_packet_id_buf'[c] < repeat_packet_id_buf'[d]
      BY DEF AgeInv
    <3>1. c # w /\ (d # w => Older(c, d))
      BY <2>12
    <3>2. Fresh(c) /\ repeat_packet_id_buf'[c] = repeat_packet_id_buf[c]
      BY <2>2, <2>7, <3>1
    <3>3. CASE d = w
      BY <2>2, <2>6, <2>10, <3>2, <3>3
    <3>4. CASE d # w
      <4>1. Fresh(d) /\ repeat_packet_id_buf[c] < repeat_packet_id_buf[d]
        BY <1>3, <3>1, <3>2, <3>4 DEF AgeInv
      <4> QED
        BY <2>2, <2>7, <3>2, <3>4, <4>1
    <3> QED
      BY <3>3, <3>4
  <2>14. HeldInv'
    <3> SUFFICES ASSUME NEW m \in Messages, Base < m, delivered'[m] > 0
                 PROVE  /\ m - Base \notin foreign'
                        /\ \/ \E c \in Cells : repeat_packet_id_buf'[c] = m - Base
                           \/ \A c \in Cells : Fresh(c)' /\ m - Base < repeat_packet_id_buf'[c]
      BY <1>2 DEF HeldInv, _get_packet_id_in_repeat_buf
    <3>0. m \in Int
      BY Numbers DEF Messages
    <3>1. CASE m = p.msg
      <4>1. m - Base = p.id
        BY <1>2, <2>3, <3>1
      <4> QED
        BY <1>5, <2>2, <2>5, <4>1
    <3>2. CASE m # p.msg
      <4>1. delivered[m] > 0 /\ m < p.msg
        BY <1>5, <2>9, <3>2
      <4>2. m - Base \in Int /\ m - Base < p.id /\ m - Base # 0
        BY <1>2, <2>3, <3>0, <4>1
      <4>3. /\ m - Base \notin foreign
            /\ \/ \E c \in Cells : repeat_packet_id_buf[c] = m - Base
               \/ \A c \in Cells : Fresh(c) /\ m - Base < repeat_packet_id_buf[c]
        BY <1>3, <4>1 DEF HeldInv, _get_packet_id_in_repeat_buf
      <4>4. m - Base \notin foreign'
        BY <1>5, <4>3
      <4>5. ASSUME \A c \in Cells : c # w => Fresh(c) /\ m - Base < repeat_packet_id_buf[c]
            PROVE  \A c \in Cells : Fresh(c)' /\ m - Base < repeat_packet_id_buf'[c]
        <5> SUFFICES ASSUME NEW c \in Cells PROVE Fresh(c)' /\ m - Base < repeat_packet_id_buf'[c]
          OBVIOUS
        <5>1. CASE c = w
          BY <2>2, <2>6, <4>2, <5>1
        <5>2. CASE c # w
          BY <2>2, <2>7, <4>5, <5>2
        <5> QED
          BY <5>1, <5>2
      <4>6. CASE \A c \in Cells : Fresh(c) /\ m - Base < repeat_packet_id_buf[c]
        BY <4>4, <4>5, <4>6
      <4>7. CASE \E c \in Cells : repeat_packet_id_buf[c] = m - Base
        <5>1. PICK c \in Cells : repeat_packet_id_buf[c] = m - Base
          BY <4>7
        <5>2. CASE c # w
          BY <2>2, <4>4, <5>1, <5>2
        <5>3. CASE c = w
          <6>1. Fresh(w)
            BY <4>2, <4>3, <5>1, <5>3 DEF Fresh
          <6>2. \A d \in Cells : d # w => Fresh(d) /\ m - Base < repeat_packet_id_buf[d]
            BY <1>3, <2>11, <5>1, <5>3, <6>1 DEF AgeInv
          <6> QED
            BY <4>4, <4>5, <6>2
        <5> QED
          BY <5>2, <5>3
      <4> QED
        BY <4>3, <4>6, <4>7
    <3> QED
      BY <3>1, <3>2
  <2> QED
    BY <2>13, <2>14 DEF CellInv
<1> QED
  BY <1>0, <1>4, <1>5, HandlePublishIs

(* What can be in the ring when a packet is read does not grow while the     *)
(* packet is on its way.                                                     *)
LEMMA HandlePublishOnce ==
  ASSUME TypeOK, SafeInv, OnceInv, Window, HandlePublish, ~displaced'
  PROVE  OnceInv'
<1>0. PICK p : p = Head(down)
  OBVIOUS
<1>1. PICK a : a = [id |-> p.id, misread |-> FALSE]
  OBVIOUS
<1>2. /\ down # <<>> /\ p = down[1] /\ 1 \in DOMAIN down /\ down' = Tail(down)
      /\ p \in Packets /\ up' = Append(up, a) /\ a \in Acks /\ a.misread = FALSE
      /\ excused \subseteq excused'
  BY <1>0, <1>1, HandlePublishIs
<1>3. \/ delivered' = delivered
      \/ /\ Expected(p) /\ delivered'[p.msg] = 1
         /\ \A m \in Messages : m # p.msg => delivered'[m] = delivered[m]
  BY <1>0, HandlePublishIs
<1>4. down \in Seq(Packets) /\ up \in Seq(Acks)
  BY Types
<1>5. \A i \in DOMAIN down' : i \in Int /\ i >= 1 /\ i + 1 \in DOMAIN down /\ down'[i] = down[i + 1]
  BY <1>2, <1>4, TailIs
<1>6. \A q \in Packets : Expected(q)' => Expected(q)
  BY <1>2 DEF Expected
<1>7. Genuine'
  <2>1. \A i \in DOMAIN up' : i # Len(up) + 1 => i \in DOMAIN up /\ up'[i] = up[i]
    BY <1>2, <1>4, AppendIs
  <2>2. up'[Len(up) + 1] = a
    BY <1>2, <1>4, AppendIs
  <2> QED
    BY <1>2, <2>1, <2>2 DEF OnceInv, Genuine
<1>8. Once'
  BY <1>3 DEF OnceInv, Once
<1>9. WindowInv'
  <2> SUFFICES ASSUME NEW k \in DOMAIN down', Expected(down[k])'
               PROVE  Cardinality(Ahead(k)') < MaxInflight
    BY DEF WindowInv
  <2>1. k \in Int /\ k >= 1 /\ k + 1 \in DOMAIN down /\ down'[k] = down[k + 1] /\ down[k + 1] \in Packets
    BY <1>4, <1>5
  <2>2. Expected(down[k + 1])
    BY <1>6, <2>1 DEF Expected
  <2>3. Cardinality(Ahead(k + 1)) < MaxInflight
    BY <2>1, <2>2 DEF OnceInv, WindowInv
  <2>4. ASSUME NEW m \in Ahead(k)' PROVE m \in Ahead(k + 1)
    <3>1. /\ m \in Messages /\ down[k + 1].msg < m
          /\ \/ delivered'[m] > 0
             \/ \E i \in DOMAIN down' : i < k /\ down'[i].msg = m /\ Expected(down[i])'
      BY <2>1, <2>4 DEF Ahead
    <3>2. CASE delivered[m] > 0
      BY <3>1, <3>2 DEF Ahead
    <3>3. CASE delivered'[m] > 0 /\ ~(delivered[m] > 0)
      <4>1. m = p.msg /\ Expected(p)
        BY <1>3, <3>1, <3>3
      <4>2. 1 < k + 1 /\ down[1].msg = m /\ Expected(down[1])
        BY <1>2, <2>1, <4>1
      <4> QED
        BY <1>2, <3>1, <4>2 DEF Ahead
    <3>4. CASE \E i \in DOMAIN down' : i < k /\ down'[i].msg = m /\ Expected(down[i])'
      <4>1. PICK i \in DOMAIN down' : i < k /\ down'[i].msg = m /\ Expected(down[i])'
        BY <3>4
      <4>2. i \in Int /\ i + 1 \in DOMAIN down /\ down'[i] = down[i + 1] /\ down[i + 1] \in Packets
        BY <1>4, <1>5
      <4>3. i + 1 < k + 1
        BY <2>1, <4>1, <4>2
      <4>4. Expected(down[i + 1]) /\ down[i + 1].msg = m
        BY <1>6, <4>1, <4>2 DEF Expected
      <4> QED
        BY <3>1, <4>2, <4>3, <4>4 DEF Ahead
    <3> QED
      BY <3>1, <3>2, <3>3, <3>4
  <2>5. Ahead(k)' \in SUBSET Ahead(k + 1) /\ Ahead(k + 1) \in SUBSET Messages
    BY <2>4 DEF Ahead
  <2> QED
    BY <2>3, <2>5, AheadSmaller
<1> QED
  BY <1>7, <1>8, <1>9, HandlePublishOrder, HandlePublishCells DEF OnceInv

(* Steps that leave the ring and what was delivered alone.                   *)
LEMMA SameCells ==
  ASSUME CellInv, Base' = Base, delivered' = delivered, foreign' = foreign,
         repeat_packet_id_buf' = repeat_packet_id_buf,
         current_packet_id_cnt' = current_packet_id_cnt
  PROVE  CellInv'
<1>1. AgeInv'
  BY DEF CellInv, AgeInv, Older, Fresh
<1>2. HeldInv'
  BY DEF CellInv, HeldInv, Fresh, _get_packet_id_in_repeat_buf
<1> QED
  BY <1>1, <1>2 DEF CellInv

(* Steps that leave all of it alone.                                         *)
LEMMA SameOnce ==
  ASSUME OnceInv,
         UNCHANGED <<repeat_packet_id_buf, current_packet_id_cnt, is_connected, down, up, inflight,
                     next_id, taken, delivered, foreign, excused>>
  PROVE  OnceInv'
<1>1. CellInv'
  BY SameCells DEF OnceInv, Base
<1>2. Sent' = Sent
  BY DEF Sent
<1>3. OrderInv'
  BY <1>2 DEF OnceInv, OrderInv, CoverInv, AckOrder, DownOrder, NewInv, InOrder, KeptInv,
              Expected, Acked, Queued
<1>4. WindowInv'
  BY DEF OnceInv, WindowInv, Ahead, Expected
<1>5. Genuine' /\ Once'
  BY DEF OnceInv, Genuine, Once
<1> QED
  BY <1>1, <1>3, <1>4, <1>5 DEF OnceInv

(* Messages of other packets that the server keeps are fewer than its window.*)
LEMMA WindowBound ==
  ASSUME TypeOK, SafeInv, NEW p \in Sent, NEW S \in SUBSET Messages,
         \A m \in S : m # p.msg /\ \E q \in Sent : q.msg = m
  PROVE  Cardinality(S) < MaxInflight
<1>1. inflight \in Seq(Packets) /\ Len(inflight) \in Nat /\ DOMAIN inflight = 1..Len(inflight)
  BY Types
<1>2. PICK T : T = {q.msg : q \in Sent}
  OBVIOUS
<1>3. PICK f : f = [i \in 1..Len(inflight) |-> inflight[i].msg]
  OBVIOUS
<1>4. f \in [1..Len(inflight) -> T]
  BY <1>1, <1>2, <1>3 DEF Sent
<1>5. \A m \in T : \E i \in 1..Len(inflight) : f[i] = m
  BY <1>1, <1>2, <1>3 DEF Sent
<1>6. f \in Surjection(1..Len(inflight), T)
  BY <1>4, <1>5 DEF Surjection
<1>7. IsFiniteSet(1..Len(inflight)) /\ Cardinality(1..Len(inflight)) = Len(inflight)
  <2>1. /\ IsFiniteSet(1..Len(inflight))
        /\ Cardinality(1..Len(inflight)) = IF 1 > Len(inflight) THEN 0 ELSE Len(inflight) - 1 + 1
    BY <1>1, FS_Interval
  <2> QED
    BY <1>1, <2>1
<1>8. IsFiniteSet(T) /\ Cardinality(T) <= Len(inflight)
  BY <1>6, <1>7, FS_Surjection
<1>9. p.msg \in T
  BY <1>2
<1>10. IsFiniteSet(T \ {p.msg}) /\ Cardinality(T \ {p.msg}) = Cardinality(T) - 1
  BY <1>8, <1>9, FS_RemoveElement
<1>11. S \in SUBSET (T \ {p.msg})
  BY <1>2
<1>12. Cardinality(S) <= Cardinality(T \ {p.msg})
  BY <1>10, <1>11, FS_Subset
<1>13. Cardinality(T) \in Nat /\ Cardinality(S) \in Nat
  BY <1>8, FS_CardinalityType, AheadFinite
<1>14. Len(inflight) <= MaxInflight
  BY DEF SafeInv, NumInv
<1> QED
  BY <1>1, <1>8, <1>10, <1>12, <1>13, <1>14, Numbers

(* Oversized packets are not waited for.                                     *)
LEMMA DiscardOversizedOnce ==
  ASSUME TypeOK, SafeInv, OnceInv, DiscardOversized
  PROVE  OnceInv'
<1>1. /\ down \in Seq(Packets) /\ down # <<>> /\ down' = Tail(down)
      /\ UNCHANGED <<ring, is_connected, up, server, history>>
  BY Types DEF DiscardOversized, Aligned
<1>2. down[1].msg \in Oversized
  BY <1>1, TailIs DEF DiscardOversized
<1>3. Sent' = Sent /\ Base' = Base
  BY <1>1 DEF Sent, Base, server
<1>4. /\ up' = up /\ delivered' = delivered /\ excused' = excused /\ inflight' = inflight
      /\ is_connected' = is_connected
  BY <1>1 DEF server, history
<1>5. CellInv'
  BY <1>1, <1>3, SameCells DEF OnceInv, ring, history
<1>6. \A i \in DOMAIN down' : i \in Int /\ i >= 1 /\ i + 1 \in DOMAIN down /\ down'[i] = down[i + 1]
  BY <1>1, TailIs
<1>7. \A i \in DOMAIN down : i \in Int /\ i >= 1 /\ (i # 1 => i - 1 \in DOMAIN down' /\ down'[i - 1] = down[i])
  BY <1>1, TailIs
<1>8. CoverInv'
  <2> SUFFICES ASSUME is_connected, NEW q \in Sent, Expected(q) PROVE Acked(q) \/ Queued(q)'
    BY <1>3, <1>4 DEF CoverInv, Expected, Acked
  <2>1. Acked(q) \/ Queued(q)
    BY DEF OnceInv, OrderInv, CoverInv
  <2>2. CASE Queued(q)
    <3>1. PICK i \in DOMAIN down : down[i] = q
      BY <2>2 DEF Queued
    <3>2. i # 1
      BY <1>2, <3>1 DEF Expected
    <3> QED
      BY <1>7, <3>1, <3>2 DEF Queued
  <2> QED
    BY <2>1, <2>2
<1>9. DownOrder'
  <2> SUFFICES ASSUME NEW q \in Sent, Expected(q), NEW j \in DOMAIN down', q.id < down'[j].id
               PROVE  Acked(q) \/ \E i \in DOMAIN down' : i < j /\ down'[i] = q
    BY <1>3, <1>4 DEF DownOrder, Expected, Acked
  <2>1. Acked(q) \/ \E i \in DOMAIN down : i < j + 1 /\ down[i] = q
    BY <1>6 DEF OnceInv, OrderInv, DownOrder
  <2>2. CASE \E i \in DOMAIN down : i < j + 1 /\ down[i] = q
    <3>1. PICK i \in DOMAIN down : i < j + 1 /\ down[i] = q
      BY <2>2
    <3>2. i # 1
      BY <1>2, <3>1 DEF Expected
    <3>3. i - 1 \in DOMAIN down' /\ down'[i - 1] = q /\ i - 1 < j
      BY <1>6, <1>7, <3>1, <3>2
    <3> QED
      BY <3>3
  <2> QED
    BY <2>1, <2>2
<1>10. AckOrder' /\ InOrder' /\ KeptInv'
  BY <1>3, <1>4 DEF OnceInv, OrderInv, AckOrder, InOrder, KeptInv, Expected
<1>11. NewInv'
  BY <1>3, <1>4, <1>6 DEF OnceInv, OrderInv, NewInv, Expected
<1>12. WindowInv'
  <2> SUFFICES ASSUME NEW k \in DOMAIN down', Expected(down[k])'
               PROVE  Cardinality(Ahead(k)') < MaxInflight
    BY DEF WindowInv
  <2>1. k \in Int /\ k + 1 \in DOMAIN down /\ down'[k] = down[k + 1]
    BY <1>6
  <2>2. Cardinality(Ahead(k + 1)) < MaxInflight
    BY <1>4, <2>1 DEF OnceInv, WindowInv, Expected
  <2>3. ASSUME NEW m \in Ahead(k)' PROVE m \in Ahead(k + 1)
    <3>1. /\ m \in Messages /\ down[k + 1].msg < m
          /\ \/ delivered[m] > 0
             \/ \E i \in DOMAIN down' : i < k /\ down'[i].msg = m /\ Expected(down[i])'
      BY <1>4, <2>1, <2>3 DEF Ahead
    <3>2. CASE delivered[m] > 0
      BY <3>1, <3>2 DEF Ahead
    <3>3. CASE \E i \in DOMAIN down' : i < k /\ down'[i].msg = m /\ Expected(down[i])'
      <4>1. PICK i \in DOMAIN down' : i < k /\ down'[i].msg = m /\ Expected(down[i])'
        BY <3>3
      <4>2. i \in Int /\ i + 1 \in DOMAIN down /\ down'[i] = down[i + 1]
        BY <1>6
      <4>3. i + 1 < k + 1 /\ Expected(down[i + 1]) /\ down[i + 1].msg = m
        BY <1>4, <2>1, <4>1, <4>2 DEF Expected
      <4> QED
        BY <3>1, <4>2, <4>3 DEF Ahead
    <3> QED
      BY <3>1, <3>2, <3>3
  <2>4. Ahead(k)' \in SUBSET Ahead(k + 1) /\ Ahead(k + 1) \in SUBSET Messages
    BY <2>3 DEF Ahead
  <2> QED
    BY <2>2, <2>4, AheadSmaller
<1>13. Genuine' /\ Once'
  BY <1>4 DEF OnceInv, Genuine, Once
<1> QED
  BY <1>5, <1>8, <1>9, <1>10, <1>11, <1>12, <1>13 DEF OnceInv, OrderInv

(* The reader stops: nothing moves.                                          *)
LEMMA ReadTimeoutOnce ==
  ASSUME OnceInv, ReadTimeout
  PROVE  OnceInv'
  BY SameOnce DEF ReadTimeout, ring, server, history

(* A misread that displaces nothing has read nothing.                        *)
LEMMA MisreadOnce ==
  ASSUME TypeOK, OnceInv, Misread, ~displaced'
  PROVE  OnceInv'
<1>1. PICK n \in 0..Len(down) :
        /\ down' = SubSeq(down, n + 1, Len(down)) /\ ~(n > 0)
        /\ UNCHANGED <<ring, up, foreign>>
  BY DEF Misread
<1>2. down \in Seq(Packets) /\ Len(down) \in Nat
  BY Types
<1>3. n = 0
  BY <1>1, <1>2
<1>4. down' = down
  <2>1. SubSeq(down, 1, Len(down)) = down
    BY <1>2
  <2> QED
    BY <1>1, <1>3, <2>1
<1>5. UNCHANGED <<is_connected, server, delivered, excused>>
  BY DEF Misread
<1> QED
  BY <1>1, <1>4, <1>5, SameOnce DEF ring, server

(* With both directions empty only what the server keeps and the ring        *)
(* remain.                                                                   *)
LEMMA DropOnce ==
  ASSUME OnceInv, Drop
  PROVE  OnceInv'
<1>1. /\ is_connected' = FALSE /\ down' = <<>> /\ up' = <<>>
      /\ UNCHANGED <<ring, server, history>>
  BY DEF Drop
<1>2. CellInv'
  BY <1>1, SameCells DEF OnceInv, ring, server, history, Base
<1>3. DOMAIN down' = {} /\ DOMAIN up' = {}
  BY <1>1
<1>4. Sent' = Sent
  BY <1>1 DEF Sent, server
<1>5. InOrder' /\ KeptInv'
  BY <1>1, <1>4 DEF OnceInv, OrderInv, InOrder, KeptInv, Expected, history
<1>6. CoverInv' /\ AckOrder' /\ DownOrder' /\ NewInv' /\ WindowInv' /\ Genuine'
  BY <1>1, <1>3 DEF CoverInv, AckOrder, DownOrder, NewInv, WindowInv, Genuine
<1>7. Once'
  BY <1>1 DEF OnceInv, Once, history
<1> QED
  BY <1>2, <1>5, <1>6, <1>7 DEF OnceInv, OrderInv

(* All that the server keeps is sent again, in order, and nothing else.      *)
LEMMA ReconnectKeptOnce ==
  ASSUME TypeOK, SafeInv, OnceInv, ReconnectKept
  PROVE  OnceInv'
<1>1. /\ ~is_connected /\ down' = inflight
      /\ UNCHANGED <<ring, up, server, history>>
  BY DEF ReconnectKept
<1>2. up = <<>>
  BY <1>1 DEF SafeInv, LinkInv
<1>3. DOMAIN up' = {}
  BY <1>1, <1>2
<1>4. Sent' = Sent /\ delivered' = delivered /\ excused' = excused /\ inflight' = inflight
  BY <1>1 DEF Sent, server, history
<1>5. CellInv'
  BY <1>1, SameCells DEF OnceInv, ring, server, history, Base
<1>6. InOrder' /\ KeptInv' /\ Once'
  BY <1>4 DEF OnceInv, OrderInv, InOrder, KeptInv, Expected, Once
<1>7. AckOrder' /\ Genuine'
  BY <1>3 DEF AckOrder, Genuine
<1>8. CoverInv' /\ NewInv'
  BY <1>1, <1>4 DEF CoverInv, NewInv, Queued, Sent
<1>9. inflight \in Seq(Packets) /\ \A i, j \in DOMAIN inflight : i < j => inflight[i].id < inflight[j].id
  BY Types DEF SafeInv, PacketInv
<1>10. DownOrder'
  <2> SUFFICES ASSUME NEW q \in Sent, NEW j \in DOMAIN inflight, q.id < inflight[j].id
               PROVE  \E i \in DOMAIN inflight : i < j /\ inflight[i] = q
    BY <1>1, <1>4 DEF DownOrder
  <2>1. PICK i \in DOMAIN inflight : q = inflight[i]
    BY DEF Sent
  <2>2. i \in Int /\ j \in Int /\ inflight[i].id \in Int /\ inflight[j].id \in Int
    BY <1>9, PacketFields
  <2>3. ~(j < i) /\ j # i
    BY <1>9, <2>1, <2>2
  <2> QED
    BY <2>1, <2>2, <2>3
<1>11. WindowInv'
  <2> SUFFICES ASSUME NEW k \in DOMAIN inflight, Expected(inflight[k])
               PROVE  Cardinality(Ahead(k)') < MaxInflight
    BY <1>1, <1>4 DEF WindowInv, Expected
  <2>1. PICK p \in Sent : p = inflight[k]
    BY DEF Sent
  <2>2. ASSUME NEW m \in Ahead(k)' PROVE m \in Messages /\ m # p.msg /\ \E q \in Sent : q.msg = m
    <3>1. /\ m \in Messages /\ p.msg < m
          /\ delivered[m] > 0 \/ \E i \in DOMAIN inflight : inflight[i].msg = m
      BY <1>1, <1>4, <2>1, <2>2 DEF Ahead
    <3>2. m # p.msg
      BY <2>1, <3>1, SentFacts, PacketFields
    <3>3. CASE delivered[m] > 0
      BY <2>1, <3>1, <3>2, <3>3 DEF OnceInv, OrderInv, KeptInv
    <3>4. CASE \E i \in DOMAIN inflight : inflight[i].msg = m
      BY <3>1, <3>2, <3>4 DEF Sent
    <3> QED
      BY <3>1, <3>3, <3>4
  <2>3. Ahead(k)' \in SUBSET Messages
    BY DEF Ahead
  <2> QED
    BY <2>2, <2>3, WindowBound
<1> QED
  BY <1>5, <1>6, <1>7, <1>8, <1>10, <1>11 DEF OnceInv, OrderInv

(* A new session starts with nothing under way and nothing of its own in the *)
(* ring.                                                                     *)
LEMMA ReconnectCleanOnce ==
  ASSUME TypeOK, SafeInv, OnceInv, ReconnectClean
  PROVE  OnceInv'
<1>1. /\ ~is_connected /\ inflight' = <<>> /\ next_id' = 1
      /\ foreign' = InRing(repeat_packet_id_buf)
      /\ UNCHANGED <<ring, down, up, taken, delivered>>
  BY DEF ReconnectClean
<1>2. DOMAIN down' = {} /\ DOMAIN up' = {} /\ DOMAIN inflight' = {}
  BY <1>1 DEF SafeInv, LinkInv
<1>3. Sent' = {}
  BY <1>2 DEF Sent
<1>4. OrderInv' /\ WindowInv' /\ Genuine'
  BY <1>2, <1>3 DEF OrderInv, CoverInv, AckOrder, DownOrder, NewInv, InOrder, KeptInv,
                    WindowInv, Genuine
<1>5. AgeInv'
  <2>1. \A c \in Cells : ~Fresh(c)'
    BY <1>1, RingCells DEF Fresh, ring
  <2> QED
    BY <2>1 DEF AgeInv
<1>6. HeldInv'
  <2>1. Base' = taken
    BY <1>1, Types DEF Base
  <2>2. \A m \in Messages : delivered[m] > 0 => m <= taken /\ m \in Int
    BY Numbers DEF SafeInv, NumInv, Messages
  <2>3. \A m \in Messages : ~(Base' < m /\ delivered'[m] > 0)
    BY <1>1, <2>1, <2>2, Types
  <2> QED
    BY <2>3 DEF HeldInv
<1>7. Once'
  BY <1>1 DEF OnceInv, Once
<1> QED
  BY <1>4, <1>5, <1>6, <1>7 DEF OnceInv, CellInv

(* A packet more on its way, of a message the server keeps.                  *)
LEMMA QueuedMore ==
  ASSUME TypeOK, SafeInv, OnceInv, is_connected, NEW p \in Packets,
         down' = Append(down, p), up' = up, delivered' = delivered, excused' = excused,
         is_connected' = is_connected, Sent' = Sent \cup {p},
         \A j \in DOMAIN down' : p \in Sent \/ ~(p.id < down'[j].id),
         \A j \in DOMAIN up : p \in Sent \/ ~(p.id < up[j].id),
         Expected(p) => Cardinality({m \in Messages : /\ p.msg < m
                                       /\ \/ delivered[m] > 0
                                          \/ \E i \in DOMAIN down : down[i].msg = m /\ Expected(down[i])})
                        < MaxInflight
  PROVE  CoverInv' /\ AckOrder' /\ DownOrder' /\ NewInv' /\ WindowInv' /\ Genuine' /\ Once'
<1>1. down \in Seq(Packets)
  BY Types
<1>2. PICK n \in Nat : n = Len(down) /\ DOMAIN down = 1..n
  BY <1>1
<1>3. /\ DOMAIN down' = 1..(n + 1) /\ down'[n + 1] = p
      /\ \A i \in DOMAIN down : i \in DOMAIN down' /\ down'[i] = down[i] /\ i \in Int /\ i < n + 1
      /\ \A i \in DOMAIN down' : i # n + 1 => i \in DOMAIN down
  BY <1>1, <1>2, AppendIs
<1>4. \A q : Expected(q)' <=> Expected(q)
  BY DEF Expected
<1>5. \A q : Acked(q)' <=> Acked(q)
  BY DEF Acked
<1>6. Queued(p)' /\ \A q : Queued(q) => Queued(q)'
  BY <1>2, <1>3 DEF Queued
<1>7. CoverInv'
  BY <1>4, <1>5, <1>6 DEF OnceInv, OrderInv, CoverInv
<1>8. AckOrder'
  BY <1>4 DEF OnceInv, OrderInv, AckOrder
<1>9. DownOrder'
  <2> SUFFICES ASSUME NEW q \in Sent', Expected(q), NEW j \in DOMAIN down', q.id < down'[j].id
               PROVE  Acked(q) \/ \E i \in DOMAIN down' : i < j /\ down'[i] = q
    BY <1>4, <1>5 DEF DownOrder
  <2>1. q \in Sent
    OBVIOUS
  <2>2. CASE j = n + 1
    <3>1. Acked(q) \/ Queued(q)
      BY <2>1 DEF OnceInv, OrderInv, CoverInv
    <3> QED
      BY <1>3, <2>2, <3>1 DEF Queued
  <2>3. CASE j # n + 1
    <3>1. j \in DOMAIN down /\ down'[j] = down[j]
      BY <1>3, <2>3
    <3>2. Acked(q) \/ \E i \in DOMAIN down : i < j /\ down[i] = q
      BY <2>1, <3>1 DEF OnceInv, OrderInv, DownOrder
    <3> QED
      BY <1>3, <3>2
  <2> QED
    BY <2>2, <2>3
<1>10. NewInv'
  <2> SUFFICES ASSUME NEW i \in DOMAIN down', Expected(down[i])', delivered[down'[i].msg] = 0
               PROVE  down'[i] \in Sent'
    BY DEF NewInv
  <2>1. CASE i = n + 1
    BY <1>3, <2>1
  <2>2. CASE i # n + 1
    <3>1. i \in DOMAIN down /\ down'[i] = down[i]
      BY <1>3, <2>2
    <3>2. Expected(down[i])
      BY <3>1 DEF Expected
    <3> QED
      BY <3>1, <3>2 DEF OnceInv, OrderInv, NewInv
  <2> QED
    BY <2>1, <2>2
<1>11. WindowInv'
  <2> SUFFICES ASSUME NEW k \in DOMAIN down', Expected(down[k])'
               PROVE  Cardinality(Ahead(k)') < MaxInflight
    BY DEF WindowInv
  <2>0. k \in Int /\ k <= n + 1
    BY <1>3
  <2>1. CASE k = n + 1
    <3>1. PICK T : T = {m \in Messages : /\ p.msg < m
                                         /\ \/ delivered[m] > 0
                                            \/ \E i \in DOMAIN down : down[i].msg = m /\ Expected(down[i])}
      OBVIOUS
    <3>2. Expected(p)
      BY <1>3, <2>1 DEF Expected
    <3>3. ASSUME NEW m \in Ahead(k)' PROVE m \in T
      <4>1. /\ m \in Messages /\ p.msg < m
            /\ \/ delivered[m] > 0
               \/ \E i \in DOMAIN down' : i < n + 1 /\ down'[i].msg = m /\ Expected(down[i])'
        BY <1>3, <2>1, <3>3 DEF Ahead
      <4>2. ASSUME NEW i \in DOMAIN down', i < n + 1, down'[i].msg = m, Expected(down[i])'
            PROVE  i \in DOMAIN down /\ down[i].msg = m /\ Expected(down[i])
        <5>1. i \in DOMAIN down /\ down'[i] = down[i]
          BY <1>3, <4>2
        <5> QED
          BY <4>2, <5>1 DEF Expected
      <4> QED
        BY <3>1, <4>1, <4>2
    <3>4. Ahead(k)' \in SUBSET T /\ T \in SUBSET Messages
      BY <3>1, <3>3
    <3>5. Cardinality(T) < MaxInflight
      BY <3>1, <3>2
    <3> QED
      BY <3>4, <3>5, AheadSmaller
  <2>2. CASE k # n + 1
    <3>1. k \in DOMAIN down /\ down'[k] = down[k] /\ k < n + 1
      BY <1>3, <2>2
    <3>2. Cardinality(Ahead(k)) < MaxInflight
      BY <3>1 DEF OnceInv, WindowInv, Expected
    <3>3. ASSUME NEW m \in Ahead(k)' PROVE m \in Ahead(k)
      <4>1. /\ m \in Messages /\ down[k].msg < m
            /\ \/ delivered[m] > 0
               \/ \E i \in DOMAIN down' : i < k /\ down'[i].msg = m /\ Expected(down[i])'
        BY <3>1, <3>3 DEF Ahead
      <4>2. ASSUME NEW i \in DOMAIN down', i < k, down'[i].msg = m, Expected(down[i])'
            PROVE  i \in DOMAIN down /\ down[i].msg = m /\ Expected(down[i])
        <5>1. i # n + 1
          BY <1>3, <2>0, <3>1, <4>2
        <5>2. i \in DOMAIN down /\ down'[i] = down[i]
          BY <1>3, <5>1
        <5> QED
          BY <4>2, <5>2 DEF Expected
      <4> QED
        BY <4>1, <4>2 DEF Ahead
    <3>4. Ahead(k)' \in SUBSET Ahead(k) /\ Ahead(k) \in SUBSET Messages
      BY <3>3 DEF Ahead
    <3> QED
      BY <3>2, <3>4, AheadSmaller
  <2> QED
    BY <2>1, <2>2
<1>12. Genuine' /\ Once'
  BY DEF OnceInv, Genuine, Once
<1> QED
  BY <1>7, <1>8, <1>9, <1>10, <1>11, <1>12

(* A repeated packet has fewer than MaxInflight messages ahead of it: the    *)
(* server keeps them all.                                                    *)
LEMMA ServerRetryOnce ==
  ASSUME TypeOK, SafeInv, OnceInv, ServerRetry
  PROVE  OnceInv'
<1>1. PICK p \in Sent : down' = Append(down, p)
  BY DEF ServerRetry, Sent
<1>2. /\ is_connected
      /\ UNCHANGED <<ring, is_connected, up, server, history>>
  BY DEF ServerRetry
<1>3. Sent' = Sent \cup {p} /\ Sent' = Sent
  BY <1>2 DEF Sent, server
<1>4. p \in Packets
  BY SentFacts
<1>5. PICK T : T = {m \in Messages : /\ p.msg < m
                                     /\ \/ delivered[m] > 0
                                        \/ \E i \in DOMAIN down : down[i].msg = m /\ Expected(down[i])}
  OBVIOUS
<1>6. ASSUME Expected(p) PROVE Cardinality(T) < MaxInflight
  <2>1. ASSUME NEW m \in T PROVE m # p.msg /\ \E q \in Sent : q.msg = m
    <3>1. m # p.msg
      BY <1>4, <1>5, PacketFields
    <3>2. CASE delivered[m] > 0
      BY <1>5, <1>6, <3>1, <3>2 DEF OnceInv, OrderInv, KeptInv
    <3>3. CASE ~(delivered[m] > 0)
      <4>1. PICK i \in DOMAIN down : down[i].msg = m /\ Expected(down[i])
        BY <1>5, <3>3
      <4>2. delivered[m] = 0
        <5>1. delivered[m] \in 0..2
          BY <1>5, Types
        <5> QED
          BY <3>3, <5>1
      <4>3. down[i] \in Sent
        BY <4>1, <4>2 DEF OnceInv, OrderInv, NewInv
      <4> QED
        BY <3>1, <4>1, <4>3
    <3> QED
      BY <3>2, <3>3
  <2>2. T \in SUBSET Messages
    BY <1>5
  <2> QED
    BY <2>1, <2>2, WindowBound
<1>7. CoverInv' /\ AckOrder' /\ DownOrder' /\ NewInv' /\ WindowInv' /\ Genuine' /\ Once'
  <2>1. /\ up' = up /\ delivered' = delivered /\ excused' = excused /\ is_connected' = is_connected
    BY <1>2 DEF history
  <2>2. Expected(p) => Cardinality({m \in Messages : /\ p.msg < m
                                       /\ \/ delivered[m] > 0
                                          \/ \E i \in DOMAIN down : down[i].msg = m /\ Expected(down[i])})
                       < MaxInflight
    BY <1>5, <1>6
  <2> QED
    BY <1>1, <1>2, <1>3, <1>4, <2>1, <2>2, QueuedMore
<1>8. InOrder' /\ KeptInv'
  BY <1>2, <1>3 DEF OnceInv, OrderInv, InOrder, KeptInv, Expected, history
<1>9. CellInv'
  BY <1>2, SameCells DEF OnceInv, ring, server, history, Base
<1> QED
  BY <1>7, <1>8, <1>9 DEF OnceInv, OrderInv

(* A new message is the latest of all.                                       *)
LEMMA ServerPublishOnce ==
  ASSUME MaxMessages < MaxId, TypeOK, SafeInv, OnceInv, ServerPublish
  PROVE  OnceInv'
<1>1. PICK p : p = [id |-> next_id, msg |-> taken + 1]
  OBVIOUS
<1>2. /\ next_id' = next_id + 1 /\ taken' = taken + 1
      /\ p \in Packets /\ p.id = next_id /\ p.msg = taken + 1
      /\ inflight' = Append(inflight, p) /\ down' = Append(down, p)
      /\ is_connected /\ UNCHANGED <<ring, is_connected, up, history>>
  BY <1>1, ServerPublishIs
<1>3. /\ next_id \in Int /\ taken \in Int /\ inflight \in Seq(Packets) /\ down \in Seq(Packets)
      /\ up \in Seq(Acks)
  BY Types
<1>4. Base' = Base
  BY <1>2, <1>3 DEF Base
<1>5. Sent' = Sent \cup {p}
  <2>1. /\ \A i \in DOMAIN inflight : i \in DOMAIN inflight' /\ inflight'[i] = inflight[i]
        /\ Len(inflight) + 1 \in DOMAIN inflight' /\ inflight'[Len(inflight) + 1] = p
        /\ \A i \in DOMAIN inflight' : i # Len(inflight) + 1 => i \in DOMAIN inflight
    BY <1>2, <1>3, AppendIs
  <2>2. ASSUME NEW q \in Sent' PROVE q \in Sent \cup {p}
    <3>1. PICK i \in DOMAIN inflight' : q = inflight'[i]
      BY <2>2 DEF Sent
    <3> QED
      BY <2>1, <3>1 DEF Sent
  <2>3. ASSUME NEW q \in Sent \cup {p} PROVE q \in Sent'
    <3>1. CASE q = p
      BY <2>1, <3>1 DEF Sent
    <3>2. CASE q \in Sent
      <4>1. PICK i \in DOMAIN inflight : q = inflight[i]
        BY <3>2 DEF Sent
      <4> QED
        BY <2>1, <4>1 DEF Sent
    <3> QED
      BY <3>1, <3>2
  <2> QED
    BY <2>2, <2>3
<1>6. \A m \in Messages : m \in Int /\ (delivered[m] > 0 => m <= taken)
  BY Numbers DEF SafeInv, NumInv, Messages
<1>7. \A i \in DOMAIN down : down[i].id < next_id /\ down[i].msg <= taken /\ down[i].id \in Int
  BY DownFacts, CurrentFacts, PacketFields DEF Current
<1>8. \A j \in DOMAIN down' : ~(p.id < down'[j].id)
  <2> SUFFICES ASSUME NEW j \in DOMAIN down' PROVE ~(p.id < down'[j].id)
    OBVIOUS
  <2>1. down'[j] = p \/ (j \in DOMAIN down /\ down'[j] = down[j])
    BY <1>2, <1>3, AppendIs
  <2> QED
    BY <1>2, <1>3, <1>7, <2>1
<1>9. \A j \in DOMAIN up : ~(p.id < up[j].id)
  <2>1. \A j \in DOMAIN up : up[j].id < next_id /\ up[j].id \in Int
    BY <1>3, AckFields DEF OnceInv, Genuine, SafeInv, UpInv
  <2> QED
    BY <1>2, <1>3, <2>1
<1>10. {m \in Messages : /\ p.msg < m
                         /\ \/ delivered[m] > 0
                            \/ \E i \in DOMAIN down : down[i].msg = m /\ Expected(down[i])} = {}
  BY <1>2, <1>3, <1>6, <1>7
<1>11. Cardinality({}) < MaxInflight
  BY FS_EmptySet, Numbers
<1>12. CoverInv' /\ AckOrder' /\ DownOrder' /\ NewInv' /\ WindowInv' /\ Genuine' /\ Once'
  <2>1. up' = up /\ delivered' = delivered /\ excused' = excused /\ is_connected' = is_connected
    BY <1>2 DEF history
  <2> QED
    BY <1>2, <1>5, <1>8, <1>9, <1>10, <1>11, <2>1, QueuedMore
<1>13. InOrder'
  <2> SUFFICES ASSUME NEW q \in Sent', Expected(q), delivered[q.msg] = 0,
                      NEW m \in Messages, delivered[m] > 0
               PROVE  m < q.msg
    BY <1>2 DEF InOrder, Expected, history
  <2>1. CASE q = p
    BY <1>2, <1>3, <1>6, <2>1
  <2>2. CASE q \in Sent
    BY <2>2 DEF OnceInv, OrderInv, InOrder
  <2> QED
    BY <1>5, <2>1, <2>2
<1>14. KeptInv'
  <2> SUFFICES ASSUME NEW q \in Sent', Expected(q), NEW m \in Messages, q.msg < m, delivered[m] > 0
               PROVE  \E r \in Sent' : r.msg = m
    BY <1>2 DEF KeptInv, Expected, history
  <2>1. CASE q = p
    BY <1>2, <1>3, <1>6, <2>1
  <2>2. CASE q \in Sent
    BY <1>5, <2>2 DEF OnceInv, OrderInv, KeptInv
  <2> QED
    BY <1>5, <2>1, <2>2
<1>15. CellInv'
  BY <1>2, <1>4, SameCells DEF OnceInv, ring, history
<1> QED
  BY <1>12, <1>13, <1>14, <1>15 DEF OnceInv, OrderInv

(* PUBACKs arrive in order: a message the server forgets has no earlier one  *)
(* that is still waited for.                                                 *)
LEMMA ServerPubackOnce ==
  ASSUME TypeOK, SafeInv, OnceInv, ServerPuback
  PROVE  OnceInv'
<1>1. PICK a : a = Head(up)
  OBVIOUS
<1>2. /\ Sent' = {p \in Sent : p.id # a.id}
      /\ a.misread \/ excused' = excused
      /\ up # <<>> /\ up' = Tail(up)
      /\ UNCHANGED <<ring, is_connected, down, next_id, taken, delivered, foreign>>
  BY <1>1, ServerPubackIs
<1>3. up \in Seq(Acks)
  BY Types
<1>4. /\ a = up[1] /\ 1 \in DOMAIN up
      /\ \A i \in DOMAIN up' : i \in Int /\ i >= 1 /\ i + 1 \in DOMAIN up /\ up'[i] = up[i + 1]
      /\ \A i \in DOMAIN up : i \in Int /\ i >= 1 /\ (i # 1 => i - 1 \in DOMAIN up' /\ up'[i - 1] = up[i])
  BY <1>1, <1>2, <1>3, TailIs
<1>5. ~a.misread
  BY <1>4 DEF OnceInv, Genuine
<1>6. excused' = excused
  BY <1>2, <1>5
<1>7. a.id < next_id /\ Got(a.id + Base)
  BY <1>4, <1>5 DEF SafeInv, UpInv
<1>8. ASSUME NEW q \in Sent', Acked(q) PROVE Acked(q)'
  <2>1. PICK i \in DOMAIN up : up[i].id = q.id
    BY <1>8 DEF Acked
  <2>2. i # 1
    BY <1>2, <1>4, <2>1
  <2> QED
    BY <1>4, <2>1, <2>2 DEF Acked
<1>9. \A q : Expected(q)' <=> Expected(q)
  BY <1>6 DEF Expected
<1>10. CoverInv'
  <2> SUFFICES ASSUME is_connected, NEW q \in Sent', Expected(q) PROVE Acked(q)' \/ Queued(q)
    BY <1>2, <1>9 DEF CoverInv, Queued
  <2>1. q \in Sent
    BY <1>2
  <2>2. Acked(q) \/ Queued(q)
    BY <2>1 DEF OnceInv, OrderInv, CoverInv
  <2> QED
    BY <1>8, <2>2
<1>11. AckOrder'
  <2> SUFFICES ASSUME NEW q \in Sent', Expected(q), NEW j \in DOMAIN up', q.id < up'[j].id
               PROVE  \E i \in DOMAIN up' : i < j /\ up'[i].id = q.id
    BY <1>9 DEF AckOrder
  <2>1. q \in Sent /\ q.id # a.id
    BY <1>2
  <2>2. PICK i \in DOMAIN up : i < j + 1 /\ up[i].id = q.id
    BY <1>4, <2>1 DEF OnceInv, OrderInv, AckOrder
  <2>3. i # 1
    BY <1>4, <2>1, <2>2
  <2>4. i - 1 \in DOMAIN up' /\ up'[i - 1] = up[i] /\ i - 1 < j
    BY <1>4, <2>2, <2>3
  <2> QED
    BY <2>2, <2>4
<1>12. DownOrder'
  <2> SUFFICES ASSUME NEW q \in Sent', Expected(q), NEW j \in DOMAIN down, q.id < down[j].id
               PROVE  Acked(q)' \/ \E i \in DOMAIN down : i < j /\ down[i] = q
    BY <1>2, <1>9 DEF DownOrder
  <2>1. q \in Sent
    BY <1>2
  <2>2. Acked(q) \/ \E i \in DOMAIN down : i < j /\ down[i] = q
    BY <2>1 DEF OnceInv, OrderInv, DownOrder
  <2> QED
    BY <1>8, <2>2
<1>13. NewInv'
  <2> SUFFICES ASSUME NEW i \in DOMAIN down, Expected(down[i]), delivered[down[i].msg] = 0
               PROVE  down[i] \in Sent'
    BY <1>2, <1>6 DEF NewInv, Expected
  <2>1. down[i] \in Sent
    BY DEF OnceInv, OrderInv, NewInv
  <2>2. down[i].id # a.id
    <3> SUFFICES ASSUME down[i].id = a.id PROVE FALSE
      OBVIOUS
    <3>1. down[i].msg = a.id + Base
      BY DownFacts DEF Current
    <3> QED
      BY <1>7, <3>1 DEF Got, Expected
  <2> QED
    BY <1>2, <2>1, <2>2
<1>14. InOrder'
  BY <1>2, <1>9 DEF OnceInv, OrderInv, InOrder
<1>15. KeptInv'
  <2> SUFFICES ASSUME NEW q \in Sent', Expected(q), NEW m \in Messages, q.msg < m, delivered[m] > 0
               PROVE  \E r \in Sent' : r.msg = m
    BY <1>2, <1>9 DEF KeptInv
  <2>1. q \in Sent /\ q \in Packets /\ Current(q)
    BY <1>2, SentFacts
  <2>2. PICK r \in Sent : r.msg = m
    BY <2>1 DEF OnceInv, OrderInv, KeptInv
  <2>3. q.id < r.id
    BY <2>1, <2>2, SentFacts, CurrentFacts
  <2>4. r.id # a.id
    <3> SUFFICES ASSUME r.id = a.id PROVE FALSE
      OBVIOUS
    <3>1. PICK i \in DOMAIN up : i < 1 /\ up[i].id = q.id
      BY <1>4, <2>1, <2>3 DEF OnceInv, OrderInv, AckOrder
    <3> QED
      BY <1>4, <3>1
  <2> QED
    BY <1>2, <2>2, <2>4
<1>16. CellInv'
  BY <1>2, SameCells DEF OnceInv, ring, Base
<1>17. WindowInv'
  BY <1>2, <1>6 DEF OnceInv, WindowInv, Ahead, Expected
<1>18. Genuine' /\ Once'
  BY <1>2, <1>4 DEF OnceInv, Genuine, Once
<1> QED
  BY <1>10, <1>11, <1>12, <1>13, <1>14, <1>15, <1>16, <1>17, <1>18 DEF OnceInv, OrderInv

(* Nothing is delivered and the ring is empty.                               *)
LEMMA InitOnce == Init => OnceInv
<1> SUFFICES ASSUME Init PROVE OnceInv
  OBVIOUS
<1>1. DOMAIN down = {} /\ DOMAIN up = {} /\ DOMAIN inflight = {}
  BY DEF Init
<1>2. Sent = {}
  BY <1>1 DEF Sent
<1>3. OrderInv /\ WindowInv /\ Genuine
  BY <1>1, <1>2 DEF OrderInv, CoverInv, AckOrder, DownOrder, NewInv, InOrder, KeptInv, WindowInv, Genuine
<1>4. \A c \in Cells : ~Fresh(c)
  BY DEF Init, Fresh
<1>5. \A m \in Messages : delivered[m] = 0
  BY DEF Init
<1>6. AgeInv /\ HeldInv /\ Once
  BY <1>4, <1>5 DEF AgeInv, HeldInv, Once
<1> QED
  BY <1>3, <1>6 DEF OnceInv, CellInv

(* Nothing that was displaced is forgotten.                                  *)
LEMMA DisplacedStays ==
  ASSUME TypeOK, [Next]_vars, displaced
  PROVE  displaced'
<1>1. CASE HandlePublish
  BY <1>1 DEF HandlePublish
<1>2. CASE Misread
  BY <1>2 DEF Misread
<1>3. CASE DiscardOversized \/ ReadTimeout \/ Drop \/ ReconnectKept \/ ServerPublish \/ ServerRetry
  BY <1>3 DEF DiscardOversized, ReadTimeout, Drop, ReconnectKept, ServerPublish, ServerRetry, history
<1>4. CASE ReconnectClean
  BY <1>4 DEF ReconnectClean
<1>5. CASE ServerPuback
  BY <1>5 DEF ServerPuback
<1>6. CASE UNCHANGED vars
  BY <1>6 DEF vars, history
<1> QED
  BY <1>1, <1>2, <1>3, <1>4, <1>5, <1>6 DEF Next

(* A stuttering step.                                                        *)
LEMMA StutterOnce ==
  ASSUME OnceInv, UNCHANGED vars
  PROVE  OnceInv'
  BY SameOnce DEF vars, ring, link, server, history

-----------------------------------------------------------------------------
(* The theorems. MaxMessages < MaxId says that a behaviour does not come     *)
(* round to a packet id it has used: 65535 messages in one session.          *)

(* The invariant holds initially; every step preserves its two parts.        *)
LEMMA InitIInv == Init => IInv
  BY InitSafe, InitOnce DEF IInv

LEMMA NextSafe ==
  ASSUME MaxMessages < MaxId, TypeOK, SafeInv, [Next]_vars
  PROVE  TypeOK' /\ SafeInv'
  BY HandlePublishSafe, DiscardOversizedSafe, ReadTimeoutSafe, MisreadSafe, DropSafe,
     ReconnectKeptSafe, ReconnectCleanSafe, ServerPublishSafe, ServerRetrySafe,
     ServerPubackSafe, StutterSafe DEF Next

LEMMA NextOnce ==
  ASSUME MaxMessages < MaxId, Window, TypeOK, SafeInv, OnceInv, [Next]_vars, ~displaced'
  PROVE  OnceInv'
  BY HandlePublishOnce, DiscardOversizedOnce, ReadTimeoutOnce, MisreadOnce, DropOnce,
     ReconnectKeptOnce, ReconnectCleanOnce, ServerPublishOnce, ServerRetryOnce,
     ServerPubackOnce, StutterOnce DEF Next

(* The invariant the two properties rest on, for every ring length, window,  *)
(* choice of oversized messages and number of losses and faults.             *)
THEOREM Invariance ==
  ASSUME MaxMessages < MaxId
  PROVE  Spec => []IInv
<1>1. IInv /\ [Next]_vars => IInv'
  <2> SUFFICES ASSUME IInv, [Next]_vars PROVE IInv'
    OBVIOUS
  <2>1. TypeOK /\ SafeInv
    BY DEF IInv
  <2>2. TypeOK' /\ SafeInv'
    BY <2>1, NextSafe
  <2>3. ASSUME Window, ~displaced' PROVE OnceInv'
    <3>1. ~displaced
      BY <2>1, <2>3, DisplacedStays
    <3>2. OnceInv
      BY <2>3, <3>1 DEF IInv
    <3> QED
      BY <2>1, <2>3, <3>2, NextOnce
  <2>4. Window' <=> Window
    BY DEF Window
  <2> QED
    BY <2>2, <2>3, <2>4 DEF IInv
<1> QED
  BY <1>1, InitIInv, PTL DEF Spec

(* At least once: _handle_publish_packet writes a PUBACK only for a message  *)
(* it has given to the application, now or before, unless the message is     *)
(* excused.                                                                  *)
THEOREM AcksDelivered ==
  ASSUME MaxMessages < MaxId
  PROVE  Spec => []AckedIsDelivered
<1>1. IInv => AckedIsDelivered
  BY DEF IInv, SafeInv
<1> QED
  BY <1>1, Invariance, PTL

(* At most once: a repeat_packet_id_buf at least as long as the server's     *)
(* window filters every repetition, unless something was displaced.          *)
THEOREM DeliversOnce ==
  ASSUME MaxMessages < MaxId
  PROVE  Spec => []DeliveredOnce
<1>1. IInv => DeliveredOnce
  BY DEF IInv, OnceInv, Once, Window, DeliveredOnce
<1> QED
  BY <1>1, Invariance, PTL
=============================================================================
