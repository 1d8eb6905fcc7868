---------------------------- MODULE MqttReceive ----------------------------
(* Reception of QoS 1 messages: the reader of packets (_read_mqtt_packet),   *)
(* the ring of recently seen packet ids that filters duplicates              *)
(* (repeat_packet_id_buf, built with MQTT_RMDUP_MSG_ENABLED), delivery to    *)
(* the application and the PUBACK.                                           *)
(*                                                                           *)
(* The other side is a server as MQTT 3.1.1 describes it: it sends messages  *)
(* with packet ids it takes in turn, keeps them until their PUBACK, sends    *)
(* them again on a kept session or when it grows impatient, and has at most  *)
(* MaxInflight of them outstanding. Only the yield thread reads, so one      *)
(* action is one call of cycle_for_read; what varies is how the call ends.   *)
(*                                                                           *)
(* Messages are numbered in the order the server takes them. The connection  *)
(* is a byte stream: whole packets in order, with a flag for a reader that   *)
(* stopped in the middle of the first one.                                   *)
EXTENDS Naturals, Sequences, FiniteSets, SequencesExt

CONSTANTS
    MQTT_MAX_REPEAT_BUF_LEN, \* length of the ring of packet ids
    MaxInflight,             \* the server's limit of unacknowledged messages
    MaxId,                   \* packet ids are 1..MaxId, 65535 in the protocol
    MaxMessages,             \* bound: messages the server takes
    Oversized,               \* messages that do not fit into read_buf
    MaxDrops,                \* bound: losses of the connection
    Faults,                  \* kinds of faults a run may inject
    MaxFaults                \* bound: injected faults

ASSUME ReceiveAssumption ==
    /\ {MQTT_MAX_REPEAT_BUF_LEN, MaxInflight, MaxId, MaxMessages} \subseteq Nat \ {0}
    /\ MaxDrops \in Nat /\ MaxFaults \in Nat
    /\ Oversized \subseteq 1..MaxMessages
    /\ Faults \subseteq {"read_timeout", "puback_failure", "server_retry"}

Messages == 1..MaxMessages
Ids      == 1..MaxId
Cells    == 0..MQTT_MAX_REPEAT_BUF_LEN - 1
Packets  == [id : Ids, msg : Messages]

VARIABLES
    repeat_packet_id_buf, current_packet_id_cnt,
    clean_session, is_connected,
    down,      \* packets on their way to the client
    partial,   \* the reader stopped inside Head(down)
    up,        \* PUBACKs on their way to the server
    inflight,  \* the server: unacknowledged messages in the order sent
    next_id, taken, drops, faults,
    delivered, \* history: how often the application got each message
    settled,   \* history: messages whose PUBACK the server got
    foreign,   \* history: ids in the ring put there by another session or a misread packet
    excused,   \* history: messages dropped as duplicates of such an id, or acknowledged by a misread packet
    displaced  \* history: one of the four ways a message outlives its id in the ring (DeliveredOnce)

ring    == <<repeat_packet_id_buf, current_packet_id_cnt>>
link    == <<is_connected, down, partial, up>>
server  == <<inflight, next_id, taken>>
history == <<delivered, settled, foreign, excused, displaced>>
vars    == <<ring, clean_session, link, server, drops, faults, history>>

Init ==
    /\ repeat_packet_id_buf = [c \in Cells |-> 0]
    /\ current_packet_id_cnt = 0
    /\ clean_session \in BOOLEAN
    /\ is_connected = TRUE /\ down = <<>> /\ partial = FALSE /\ up = <<>>
    /\ inflight = <<>> /\ next_id = 1 /\ taken = 0
    /\ drops = 0 /\ faults = 0
    /\ delivered = [m \in Messages |-> 0]
    /\ settled = {} /\ foreign = {} /\ excused = {} /\ displaced = FALSE

Inject(fault) == /\ fault \in Faults
                 /\ faults < MaxFaults
                 /\ faults' = faults + 1

-----------------------------------------------------------------------------
(* The ring of packet ids. An empty cell holds 0, which is no packet id.     *)

_get_packet_id_in_repeat_buf(id) == \E c \in Cells : repeat_packet_id_buf[c] = id

(* Mutant: the position is kept below the length one step too early.         *)
RingShortByOne(id) ==
    IF _get_packet_id_in_repeat_buf(id) THEN UNCHANGED ring
    ELSE /\ repeat_packet_id_buf' = [repeat_packet_id_buf EXCEPT ![current_packet_id_cnt] = id]
         /\ current_packet_id_cnt' = (current_packet_id_cnt + 1) % (MQTT_MAX_REPEAT_BUF_LEN - 1)

_add_packet_id_to_repeat_buf(id) ==
    IF _get_packet_id_in_repeat_buf(id) THEN UNCHANGED ring
    ELSE /\ repeat_packet_id_buf' = [repeat_packet_id_buf EXCEPT ![current_packet_id_cnt] = id]
         /\ current_packet_id_cnt' = (current_packet_id_cnt + 1) % MQTT_MAX_REPEAT_BUF_LEN

InRing(buf) == {buf[c] : c \in Cells} \ {0}

-----------------------------------------------------------------------------
(* One call of cycle_for_read on a packet that starts where the reader is.   *)

Aligned == is_connected /\ ~partial /\ down # <<>>

(* Mutant: the PUBACK goes out although the message was not delivered.       *)
AckFirst(p) ==
    /\ delivered' = delivered
    /\ excused' = excused

(* _handle_publish_packet: a message whose id is not in the ring goes to the *)
(* application; the id enters the ring and the PUBACK is written. A failed   *)
(* write leaves the id in the ring, and its error is none that disconnects   *)
(* (qcloud_iot_mqtt_yield), unless the connection is gone, which is Drop.    *)
Deliver(p) ==
    LET seen == _get_packet_id_in_repeat_buf(p.id) IN
    /\ delivered' = [delivered EXCEPT ![p.msg] = IF seen \/ @ = 2 THEN @ ELSE @ + 1]
    /\ excused' = IF seen /\ p.id \in foreign THEN excused \cup {p.msg} ELSE excused

(* A message acknowledged before as a duplicate of a foreign id, whose id    *)
(* has left the ring meanwhile: it is delivered after later messages.        *)
OutOfTurn(p) == p.msg \in excused /\ ~_get_packet_id_in_repeat_buf(p.id)

Puback(id, misread) == up' = Append(up, [id |-> id, misread |-> misread])

HandlePublish ==
    /\ Aligned
    /\ LET p == Head(down) IN
       /\ p.msg \notin Oversized
       /\ Deliver(p)
       /\ _add_packet_id_to_repeat_buf(p.id)
       /\ foreign' = foreign \cap InRing(repeat_packet_id_buf')
       /\ \/ /\ Puback(p.id, FALSE)
             /\ displaced' = (displaced \/ OutOfTurn(p))
             /\ UNCHANGED faults
          \/ Inject("puback_failure") /\ displaced' = TRUE /\ UNCHANGED up
    /\ down' = Tail(down)
    /\ UNCHANGED <<clean_session, is_connected, partial, server, drops, settled>>

(* A packet that does not fit is read to its end and dropped: no delivery,   *)
(* no PUBACK (QCLOUD_ERR_BUF_TOO_SHORT).                                     *)
DiscardOversized ==
    /\ Aligned
    /\ Head(down).msg \in Oversized
    /\ down' = Tail(down)
    /\ UNCHANGED <<ring, clean_session, is_connected, partial, up, server, drops, faults, history>>

(* A read that ends after the first byte of a packet and before its last:    *)
(* the length could not be read (QCLOUD_ERR_FAILURE), the body did not come  *)
(* in time (a TCP timeout, or no byte at all over TLS), or the discarding    *)
(* read failed. None of these disconnects; the rest of the packet stays in   *)
(* the stream.                                                               *)
ReadTimeout ==
    /\ Aligned
    /\ Inject("read_timeout")
    /\ partial' = TRUE
    /\ UNCHANGED <<ring, clean_session, is_connected, down, up, server, drops, history>>

(* The next call takes bytes of that rest for a fixed header. What it makes  *)
(* of them depends on the bytes: an error, a packet of another type, or a    *)
(* QoS 1 PUBLISH with any packet id, which is delivered as a message nobody  *)
(* sent, enters the ring and is acknowledged. It ends anywhere in the bytes  *)
(* that are there.                                                           *)
Misread ==
    /\ is_connected /\ partial
    /\ \E n \in 0..Len(down) :
          /\ down' = SubSeq(down, n + 1, Len(down))
          /\ \/ n > 0 /\ partial' = FALSE
             \/ n < Len(down) /\ partial' = TRUE
          /\ \/ displaced' = (displaced \/ n > 0) /\ UNCHANGED <<ring, up, foreign>>
             \/ \E id \in Ids :
                   /\ Len(up) <= MaxInflight
                   /\ _add_packet_id_to_repeat_buf(id)
                   /\ foreign' = (foreign \cap InRing(repeat_packet_id_buf'))
                                    \cup (IF _get_packet_id_in_repeat_buf(id) THEN {} ELSE {id})
                   /\ displaced' = TRUE
                   /\ Puback(id, TRUE)
    /\ UNCHANGED <<clean_session, is_connected, server, drops, faults, delivered, settled, excused>>

-----------------------------------------------------------------------------
(* The connection.                                                           *)

Drop ==
    /\ is_connected /\ drops < MaxDrops
    /\ drops' = drops + 1
    /\ is_connected' = FALSE /\ down' = <<>> /\ partial' = FALSE /\ up' = <<>>
    /\ UNCHANGED <<ring, clean_session, server, faults, history>>

(* qcloud_iot_mqtt_attempt_reconnect: CONNECT with the same clean_session    *)
(* flag. The ring of packet ids is left as it is (only qcloud_iot_mqtt_init  *)
(* and IOT_MQTT_Destroy reset it), also when the server starts a session     *)
(* with ids of its own.                                                      *)
ReconnectKept ==
    /\ ~is_connected /\ ~clean_session
    /\ is_connected' = TRUE
    /\ down' = inflight
    /\ UNCHANGED <<ring, clean_session, partial, up, server, drops, faults, history>>

ReconnectClean ==
    /\ ~is_connected /\ clean_session
    /\ is_connected' = TRUE
    /\ inflight' = <<>> /\ next_id' = 1
    /\ foreign' = InRing(repeat_packet_id_buf)
    /\ UNCHANGED <<ring, clean_session, down, partial, up, taken, drops, faults,
                   delivered, settled, excused, displaced>>

-----------------------------------------------------------------------------
(* The server (external).                                                    *)

ServerPublish ==
    /\ is_connected
    /\ taken < MaxMessages /\ Len(inflight) < MaxInflight
    /\ \A i \in DOMAIN inflight : inflight[i].id # next_id
    /\ LET p == [id |-> next_id, msg |-> taken + 1] IN
       /\ inflight' = Append(inflight, p)
       /\ down' = Append(down, p)
    /\ next_id' = (next_id % MaxId) + 1
    /\ taken' = taken + 1
    /\ UNCHANGED <<ring, clean_session, is_connected, partial, up, drops, faults, history>>

ServerRetry ==
    /\ is_connected
    /\ Inject("server_retry")
    /\ \E i \in DOMAIN inflight : down' = Append(down, inflight[i])
    /\ UNCHANGED <<ring, clean_session, is_connected, partial, up, server, drops, history>>

ServerPuback ==
    /\ up # <<>>
    /\ LET a == Head(up)
           of == {i \in DOMAIN inflight : inflight[i].id = a.id}
           msgs == {inflight[i].msg : i \in of}
       IN /\ \/ of = {} /\ UNCHANGED inflight
             \/ \E i \in of : inflight' = RemoveAt(inflight, i)
          /\ settled' = settled \cup msgs
          /\ excused' = IF a.misread THEN excused \cup msgs ELSE excused
    /\ up' = Tail(up)
    /\ UNCHANGED <<ring, clean_session, is_connected, down, partial, next_id, taken, drops, faults,
                   delivered, foreign, displaced>>

Next == \/ HandlePublish \/ DiscardOversized \/ ReadTimeout \/ Misread
        \/ Drop \/ ReconnectKept \/ ReconnectClean
        \/ ServerPublish \/ ServerRetry \/ ServerPuback

Spec == Init /\ [][Next]_vars

-----------------------------------------------------------------------------
TypeOK ==
    /\ repeat_packet_id_buf \in [Cells -> 0..MaxId]
    /\ current_packet_id_cnt \in Cells
    /\ {clean_session, is_connected, partial, displaced} \subseteq BOOLEAN
    /\ down \in Seq(Packets) /\ inflight \in Seq(Packets)
    /\ up \in Seq([id : Ids, misread : BOOLEAN])
    /\ next_id \in Ids /\ taken \in 0..MaxMessages
    /\ drops \in 0..MaxDrops /\ faults \in 0..MaxFaults
    /\ delivered \in [Messages -> 0..2]
    /\ settled \subseteq Messages /\ excused \subseteq Messages
    /\ foreign \subseteq InRing(repeat_packet_id_buf)

(* At least once: the server gets a PUBACK only for a message the            *)
(* application has seen, across lost PUBACKs, reconnects and repeated        *)
(* packets. The excused messages are the two ways the code loses one: the    *)
(* ring remembered its id from an earlier session or from a misread packet,  *)
(* or a misread packet acknowledged it.                                      *)
AckedIsDelivered == \A m \in settled : delivered[m] > 0 \/ m \in excused

(* No duplicates: a ring at least as long as the server's window delivers    *)
(* every message at most once, across lost PUBACKs, reconnects and repeated  *)
(* packets. The exceptions (displaced) are the ways a message can outlive    *)
(* its id in the ring: its PUBACK could not be written, or a misread took    *)
(* the packet that would have been acknowledged, on a connection that stayed *)
(* up; a misread packet took a cell; or a message that was acknowledged as   *)
(* a duplicate of another session's id is delivered after all, out of turn.  *)
DeliveredOnce ==
    MaxInflight <= MQTT_MAX_REPEAT_BUF_LEN
        => \A m \in Messages : delivered[m] <= 1 \/ displaced
=============================================================================
