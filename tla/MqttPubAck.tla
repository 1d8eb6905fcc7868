----------------------------- MODULE MqttPubAck -----------------------------
(***************************************************************************)
(* The QoS1 publish path of the MQTT client: application threads inside    *)
(* qcloud_iot_mqtt_publish, the thread that runs qcloud_iot_mqtt_yield, the *)
(* two mutexes they share (lock_write_buf, lock_list_pub) and the list of   *)
(* publishes that wait for a PUBACK (list_pub_wait_ack).                    *)
(*                                                                          *)
(* A list node is named by the number of the get_next_packet_id call that   *)
(* gave it its packet id.  Id and push happen under one hold of             *)
(* lock_write_buf and list_rpush appends, so the numbers grow along the     *)
(* list: the list is the set of its nodes, its tail the largest one and the *)
(* node before n the largest one below n.  0 is the NULL pointer.           *)
(***************************************************************************)
EXTENDS Integers, FiniteSets, TLC

CONSTANTS Publishers,          \* application threads that call IOT_MQTT_Publish
          Yielder,             \* the thread inside qcloud_iot_mqtt_yield
          NoThread,            \* owner of a free mutex
          MAX_REPUB_NUM,       \* capacity of list_pub_wait_ack
          MAX_PACKET_ID,       \* largest packet id, 65535 in the code
          MaxIds               \* bound: packet ids handed out in a behaviour

ASSUME ThreadsAssumption == /\ Yielder \notin Publishers
                            /\ NoThread \notin Publishers \cup {Yielder}
ASSUME SizesAssumption == /\ MAX_REPUB_NUM \in Nat \ {0}
                          /\ MAX_PACKET_ID \in Nat \ {0}
ASSUME IdsAssumption == MaxIds \in Nat /\ MaxIds <= MAX_PACKET_ID

Threads == Publishers \cup {Yielder}
Serials == 1 .. MaxIds
NULL == 0
Pointers == Serials \cup {NULL}

VARIABLES is_connected,        \* pClient->is_connected
          next_packet_id,      \* pClient->next_packet_id
          lock_write_buf,      \* owner of the mutex
          lock_list_pub,       \* owner of the mutex
          list_pub_wait_ack,   \* nodes in the list
          msg_id,              \* node -> repubInfo->msg_id
          node_state,          \* node -> repubInfo->node_state
          pub_start_time,      \* node -> state of its countdown
          pc,                  \* thread -> place inside qcloud_iot_mqtt_publish
          pub_node,            \* thread -> its local variable node
          y_pc,                \* place of the yield thread
          y_node, y_iter, y_temp,  \* locals of pub_info_proc: node, iter->next, temp_node
          wire,                \* publishes the server has received and not acked
          acks,                \* PUBACKs on their way to the client
          first_id, ids,       \* history: initial next_packet_id, ids handed out
          succeeded, timedout, \* history: nodes reported by each event
          failed,              \* history: nodes whose send failed
          undefined            \* history: a thread has used a freed node

locks   == <<lock_write_buf, lock_list_pub>>
nodes   == <<list_pub_wait_ack, msg_id, node_state, pub_start_time>>
calls   == <<pc, pub_node>>
yielder == <<y_pc, y_node, y_iter, y_temp>>
network == <<is_connected, wire, acks>>
idgen   == <<next_packet_id, first_id, ids>>
history == <<succeeded, timedout, failed, undefined>>
vars    == <<locks, nodes, calls, yielder, network, idgen, history>>

(* mqtt_client.c: qcloud_iot_mqtt_init.  rand() % 65536 + 1 is cut to 16     *)
(* bits, so the first value is any of 0 .. MAX_PACKET_ID.                    *)
Init == /\ is_connected = TRUE
        /\ first_id \in 0 .. MAX_PACKET_ID
        /\ next_packet_id = first_id
        /\ ids = 0
        /\ lock_write_buf = NoThread
        /\ lock_list_pub = NoThread
        /\ list_pub_wait_ack = {}
        /\ msg_id = [n \in Serials |-> 0]
        /\ node_state = [n \in Serials |-> "NORMAL"]
        /\ pub_start_time = [n \in Serials |-> "running"]
        /\ pc = [t \in Threads |-> "idle"]
        /\ pub_node = [t \in Threads |-> NULL]
        /\ y_pc = "read"
        /\ y_node = NULL /\ y_iter = NULL /\ y_temp = NULL
        /\ wire = {} /\ acks = {}
        /\ succeeded = {} /\ timedout = {} /\ failed = {}
        /\ undefined = FALSE

-----------------------------------------------------------------------------
(* utils_list.c on the set of nodes.                                         *)

IsTail(list, n) == \A m \in list : m <= n
ListTail(list) == IF \E n \in list : IsTail(list, n)
                  THEN CHOOSE n \in list : IsTail(list, n)
                  ELSE NULL

(* Mutant: the iterator does not advance.                                    *)
ListPrevStays(list, n) == ListTail({m \in list : m <= n})
ListPrev(list, n) == ListTail({m \in list : m < n})

-----------------------------------------------------------------------------
(* qcloud_iot_mqtt_publish, run by an application thread or, from an event   *)
(* handler, by the yield thread.                                             *)

(* The yield thread calls IOT_MQTT_Publish only from an event handler.       *)
MayCall(t) == t = Yielder => y_pc \in {"cb_success", "cb_timeout"}

(* The early returns of a call (bad topic, QoS2, not connected) change       *)
(* nothing; a call that passes them waits for lock_write_buf.                *)
Publish(t) == /\ pc[t] = "idle"
              /\ MayCall(t)
              /\ is_connected
              /\ \/ pc' = [pc EXCEPT ![t] = "lock0"]
                 \/ /\ ids + Cardinality({u \in Threads : pc[u] = "lock1"}) < MaxIds
                    /\ pc' = [pc EXCEPT ![t] = "lock1"]
              /\ UNCHANGED <<locks, nodes, pub_node, yielder, network, idgen, history>>

(* Mutant: the wrap at MAX_PACKET_ID is missing.                             *)
NextPacketIdNoWrap(id) == id + 1

(* Mutant: the largest id is given again and again.                          *)
NextPacketIdStuck(id) == IF id = MAX_PACKET_ID THEN id ELSE id + 1
NextPacketId(id) == IF id = MAX_PACKET_ID THEN 1 ELSE id + 1

(* QoS0: no packet id, no node; the packet is built in write_buf and sent.   *)
LockQos0(t) == /\ pc[t] = "lock0"
               /\ lock_write_buf = NoThread
               /\ lock_write_buf' = t
               /\ pc' = [pc EXCEPT ![t] = "send"]
               /\ pub_node' = [pub_node EXCEPT ![t] = NULL]
               /\ UNCHANGED <<lock_list_pub, nodes, yielder, network, idgen, history>>

(* QoS1: get_next_packet_id, then serialize.  A packet that does not fit     *)
(* write_buf ends the call; its id is spent.                                 *)
LockQos1(t) == /\ pc[t] = "lock1"
               /\ lock_write_buf = NoThread
               /\ ids < MaxIds
               /\ ids' = ids + 1
               /\ next_packet_id' = NextPacketId(next_packet_id)
               /\ \/ /\ lock_write_buf' = t
                     /\ pc' = [pc EXCEPT ![t] = "push"]
                  \/ /\ lock_write_buf' = NoThread
                     /\ pc' = [pc EXCEPT ![t] = "idle"]
               /\ UNCHANGED <<lock_list_pub, nodes, pub_node, yielder, network, first_id, history>>

(* _mask_push_pubInfo_to: the whole push runs under lock_list_pub.  The call  *)
(* ends when the list is full or there is no memory for the node.            *)
PushFails(t) == /\ lock_write_buf' = NoThread
                /\ pc' = [pc EXCEPT ![t] = "idle"]
                /\ UNCHANGED <<lock_list_pub, nodes, pub_node>>

ListRpush(t) == /\ list_pub_wait_ack' = list_pub_wait_ack \cup {ids}
                /\ msg_id' = [msg_id EXCEPT ![ids] = next_packet_id]
                /\ node_state' = [node_state EXCEPT ![ids] = "NORMAL"]
                /\ pub_start_time' = [pub_start_time EXCEPT ![ids] = "running"]
                /\ pub_node' = [pub_node EXCEPT ![t] = ids]
                /\ pc' = [pc EXCEPT ![t] = "send"]
                /\ UNCHANGED locks

PushNode(t) == Cardinality(list_pub_wait_ack) < MAX_REPUB_NUM /\ ListRpush(t)

PushPubInfo(t) == /\ pc[t] = "push"
                  /\ lock_list_pub = NoThread
                  /\ PushFails(t) \/ PushNode(t)
                  /\ UNCHANGED <<yielder, network, idgen, history>>

(* send_mqtt_packet succeeds: the packet leaves, lock_write_buf is released  *)
(* and the call returns the packet id.  On a dead connection it is lost.     *)
SendOk(t) == /\ pc[t] = "send"
             /\ wire' = IF is_connected /\ pub_node[t] # NULL
                        THEN wire \cup {pub_node[t]} ELSE wire
             /\ lock_write_buf' = NoThread
             /\ pc' = [pc EXCEPT ![t] = "idle"]
             /\ pub_node' = [pub_node EXCEPT ![t] = NULL]
             /\ UNCHANGED <<lock_list_pub, nodes, yielder, is_connected, acks, idgen, history>>

(* send_mqtt_packet fails.  QoS0 returns; QoS1 goes on to remove its node.   *)
SendFail(t) == /\ pc[t] = "send"
               /\ IF pub_node[t] = NULL
                  THEN /\ lock_write_buf' = NoThread
                       /\ pc' = [pc EXCEPT ![t] = "idle"]
                       /\ UNCHANGED failed
                  ELSE /\ pc' = [pc EXCEPT ![t] = "remove"]
                       /\ failed' = failed \cup {pub_node[t]}
                       /\ UNCHANGED lock_write_buf
               /\ UNCHANGED <<lock_list_pub, nodes, pub_node, yielder, network, idgen,
                              succeeded, timedout, undefined>>

(* list_remove of the node, both mutexes released, error returned.           *)
RemoveUnsent(t) == /\ pc[t] = "remove"
                   /\ lock_list_pub = NoThread
                   /\ pub_node[t] \in list_pub_wait_ack
                   /\ list_pub_wait_ack' = list_pub_wait_ack \ {pub_node[t]}
                   /\ lock_write_buf' = NoThread
                   /\ pc' = [pc EXCEPT ![t] = "idle"]
                   /\ pub_node' = [pub_node EXCEPT ![t] = NULL]
                   /\ UNCHANGED <<lock_list_pub, msg_id, node_state, pub_start_time,
                                  yielder, network, idgen, history>>

-----------------------------------------------------------------------------
(* The yield thread.                                                         *)

(* cycle_for_read finds nothing, or a packet that is not a PUBACK.           *)
ReadOther == /\ y_pc = "read" /\ is_connected
             /\ y_pc' = "proc"
             /\ UNCHANGED <<locks, nodes, calls, y_node, y_iter, y_temp, network, idgen, history>>

(* cycle_for_read returns an error that is no loss of the connection (a       *)
(* packet too large for read_buf, a malformed or cut-off one): the loop is    *)
(* left before the pass over the list, and yield is called again.             *)
ReadFails == /\ y_pc = "read" /\ is_connected
             /\ y_pc' = "left"
             /\ UNCHANGED <<locks, nodes, calls, y_node, y_iter, y_temp, network, idgen, history>>

YieldAgain == /\ y_pc = "left"
              /\ y_pc' = "read"
              /\ UNCHANGED <<locks, nodes, calls, y_node, y_iter, y_temp, network, idgen, history>>

(* Mutant: only the newest node is compared with the id.                     *)
MaskTailOnly(id) ==
    node_state' = [n \in Serials |-> IF n = ListTail(list_pub_wait_ack) /\ msg_id[n] = id
                                     THEN "INVALID" ELSE node_state[n]]

(* _mask_pubInfo_from: every node with the id is marked, under lock_list_pub.*)
MaskPubInfo(id) ==
    node_state' = [n \in Serials |-> IF n \in list_pub_wait_ack /\ msg_id[n] = id
                                     THEN "INVALID" ELSE node_state[n]]

(* _handle_puback_packet: mask, then PUBLISH_SUCCESS with no mutex held.     *)
HandlePuback(s) == /\ y_pc = "read" /\ is_connected
                   /\ s \in acks
                   /\ lock_list_pub = NoThread
                   /\ acks' = acks \ {s}
                   /\ MaskPubInfo(msg_id[s])
                   /\ succeeded' = succeeded \cup {s}
                   /\ y_pc' = "cb_success"
                   /\ UNCHANGED <<locks, list_pub_wait_ack, msg_id, pub_start_time, calls,
                                  y_node, y_iter, y_temp, is_connected, wire, idgen, timedout,
                                  failed, undefined>>

(* Return of the event handler, after the publishes it may have made.        *)
HandlerReturns ==
    /\ pc[Yielder] = "idle"
    /\ \/ y_pc = "cb_success" /\ y_pc' = "proc"
       \/ y_pc = "cb_timeout" /\ y_pc' = "iter"
    /\ UNCHANGED <<locks, nodes, calls, y_node, y_iter, y_temp, network, idgen, history>>

(* qcloud_iot_mqtt_pub_info_proc up to the start of its loop.                *)
ProcStart == /\ y_pc = "proc"
             /\ lock_list_pub = NoThread
             /\ y_node' = NULL /\ y_temp' = NULL
             /\ IF list_pub_wait_ack = {}
                THEN /\ y_pc' = "read" /\ y_iter' = NULL
                     /\ UNCHANGED lock_list_pub
                ELSE /\ y_pc' = "iter" /\ y_iter' = ListTail(list_pub_wait_ack)
                     /\ lock_list_pub' = Yielder
             /\ UNCHANGED <<lock_write_buf, nodes, calls, network, idgen, history>>

(* Mutant: nodes time out only while there is no connection.                 *)
ExpiredOffline(n) == node_state[n] = "NORMAL" /\ ~is_connected /\ pub_start_time[n] = "expired"
Expired(n) == node_state[n] = "NORMAL" /\ is_connected /\ pub_start_time[n] = "expired"

(* Mutant: every node that was looked at is removed.                         *)
TempNodeAlways(n) == n

(* The node is remembered for removal when its PUBACK has come.              *)
TempNode(n) == IF node_state[n] = "INVALID" THEN n ELSE NULL

(* One turn of the loop: list_iterator_next, removal of the node remembered  *)
(* in temp_node, then the checks on the node at hand.  A node that timed out *)
(* releases lock_list_pub; the end of the list leaves the function.          *)
ProcNext ==
    /\ y_pc = "iter"
    /\ list_pub_wait_ack' = list_pub_wait_ack \ {y_temp}
    /\ y_node' = y_iter
    /\ y_iter' = IF y_iter = NULL THEN NULL ELSE ListPrev(list_pub_wait_ack, y_iter)
    /\ IF y_iter = NULL
       THEN y_pc' = "read" /\ y_temp' = NULL /\ lock_list_pub' = NoThread
       ELSE IF Expired(y_iter)
            THEN y_pc' = "window" /\ y_temp' = NULL /\ lock_list_pub' = NoThread
            ELSE /\ y_temp' = TempNode(y_iter)
                 /\ UNCHANGED <<y_pc, lock_list_pub>>
    /\ UNCHANGED <<lock_write_buf, msg_id, node_state, pub_start_time, calls,
                   network, idgen, history>>

(* The mutex is free for one countdown_ms on the node, is taken again, and   *)
(* PUBLISH_TIMEOUT is reported with it held.                                 *)
ProcTimeout ==
    /\ y_pc = "window"
    /\ lock_list_pub = NoThread
    /\ y_node \in list_pub_wait_ack
    /\ lock_list_pub' = Yielder
    /\ y_temp' = y_node
    /\ pub_start_time' = [pub_start_time EXCEPT ![y_node] = "restarted"]
    /\ timedout' = timedout \cup {y_node}
    /\ y_pc' = "cb_timeout"
    /\ UNCHANGED <<lock_write_buf, list_pub_wait_ack, msg_id, node_state, calls,
                   y_node, y_iter, network, idgen, succeeded, failed, undefined>>

(* A thread about to use a node that another one has freed: a failed publish  *)
(* in list_remove, the yield thread in countdown_ms and the report.           *)
UsesFreed == \/ \E t \in Threads : pc[t] = "remove" /\ pub_node[t] \notin list_pub_wait_ack
             \/ y_pc = "window" /\ y_node \notin list_pub_wait_ack

(* It goes on; what the program does from here on is undefined, and the       *)
(* behaviour ends.                                                           *)
UseFreed == /\ UsesFreed
            /\ lock_list_pub = NoThread
            /\ undefined' = TRUE
            /\ UNCHANGED <<locks, nodes, calls, yielder, network, idgen, succeeded, timedout, failed>>

(* _handle_disconnect and a successful reconnect, as publishers see them.    *)
Disconnect == /\ y_pc = "read" /\ is_connected
              /\ is_connected' = FALSE
              /\ wire' = {} /\ acks' = {}
              /\ UNCHANGED <<locks, nodes, calls, yielder, idgen, history>>

Reconnect == /\ y_pc = "read" /\ ~is_connected
             /\ is_connected' = TRUE
             /\ UNCHANGED <<locks, nodes, calls, yielder, wire, acks, idgen, history>>

-----------------------------------------------------------------------------
(* The server and time.                                                      *)

ServerAck(s) == /\ s \in wire
                /\ wire' = wire \ {s} /\ acks' = acks \cup {s}
                /\ UNCHANGED <<locks, nodes, calls, yielder, is_connected, idgen, history>>

(* The countdown of a node runs out, at any place of the call that made it.  *)
Expire(n) == /\ n \in list_pub_wait_ack
             /\ pub_start_time[n] = "running"
             /\ pub_start_time' = [pub_start_time EXCEPT ![n] = "expired"]
             /\ UNCHANGED <<locks, list_pub_wait_ack, msg_id, node_state, calls, yielder,
                            network, idgen, history>>

-----------------------------------------------------------------------------
PublishStep(t) == \/ LockQos0(t) \/ LockQos1(t) \/ PushPubInfo(t)
                  \/ SendOk(t) \/ SendFail(t) \/ RemoveUnsent(t)

YieldStep == \/ ReadOther \/ ReadFails \/ YieldAgain
             \/ \E s \in Serials : HandlePuback(s)
             \/ HandlerReturns \/ ProcStart \/ ProcNext \/ ProcTimeout
             \/ Disconnect

Next == /\ ~undefined
        /\ \/ \E t \in Threads : Publish(t) \/ PublishStep(t)
           \/ YieldStep \/ UseFreed \/ Reconnect
           \/ \E n \in Serials : ServerAck(n) \/ Expire(n)

(* A thread inside publish or yield keeps running, a read returns, with any   *)
(* result, and time passes.  Calls, acks and reconnects may never come.  The  *)
(* yield thread blocks in a read with lock_list_pub free between two passes  *)
(* over the list, so a publisher that waits for that mutex gets it.          *)
Fairness == /\ \A t \in Threads : /\ WF_vars(PublishStep(t))
                                  /\ SF_vars(PushPubInfo(t) \/ RemoveUnsent(t))
            /\ WF_vars(YieldStep)
            /\ \A n \in Serials : WF_vars(Expire(n))

Spec == Init /\ [][Next]_vars
FairSpec == Spec /\ Fairness

-----------------------------------------------------------------------------
(* Properties.                                                               *)

(* Every variable keeps its type; packet ids stay in 0 .. MAX_PACKET_ID when *)
(* get_next_packet_id wraps.                                                 *)
TypeOK == /\ is_connected \in BOOLEAN
          /\ first_id \in 0 .. MAX_PACKET_ID
          /\ next_packet_id \in 0 .. MAX_PACKET_ID
          /\ ids \in 0 .. MaxIds
          /\ lock_write_buf \in Threads \cup {NoThread}
          /\ lock_list_pub \in Threads \cup {NoThread}
          /\ list_pub_wait_ack \subseteq Serials
          /\ msg_id \in [Serials -> 0 .. MAX_PACKET_ID]
          /\ node_state \in [Serials -> {"NORMAL", "INVALID"}]
          /\ pub_start_time \in [Serials -> {"running", "expired", "restarted"}]
          /\ pc \in [Threads -> {"idle", "lock0", "lock1", "push", "send", "remove"}]
          /\ pub_node \in [Threads -> Pointers]
          /\ y_pc \in {"read", "left", "cb_success", "proc", "iter", "window", "cb_timeout"}
          /\ y_node \in Pointers /\ y_iter \in Pointers /\ y_temp \in Pointers
          /\ wire \subseteq Serials /\ acks \subseteq Serials
          /\ succeeded \subseteq Serials /\ timedout \subseteq Serials
          /\ failed \subseteq Serials /\ undefined \in BOOLEAN

(* The wait list never holds more than MAX_REPUB_NUM nodes, although the     *)
(* length is checked by many threads and the nodes leave in another one.     *)
ListBounded == Cardinality(list_pub_wait_ack) <= MAX_REPUB_NUM

(* Two publishes that wait for their PUBACK have different ids, none of them *)
(* 0: a PUBACK settles one publish only, also across the wrap of the ids.    *)
UniquePendingIds ==
    \A n \in list_pub_wait_ack :
        /\ msg_id[n] # 0
        /\ \A m \in list_pub_wait_ack : msg_id[m] = msg_id[n] => m = n

(* The countdown of a node whose send failed ran out before its publish       *)
(* removed it: send timer and countdown start together, with the same length. *)
FailedLate(n) == n \in failed /\ pub_start_time[n] # "running"

(* The only freed node a thread can use is one whose failing send and timeout *)
(* met: it is removed by its publish while the yield thread has released      *)
(* lock_list_pub to report it, or removed by both.  The node the iterator     *)
(* goes to next and the one it removes next are in the list in any case, also *)
(* after publishers appended and removed nodes in the middle of the pass.     *)
NodesLive ==
    /\ \A t \in Threads : pc[t] = "remove" =>
           \/ pub_node[t] \in list_pub_wait_ack
           \/ FailedLate(pub_node[t]) /\ pub_node[t] \in timedout
    /\ y_pc = "window" => y_node \in list_pub_wait_ack \/ FailedLate(y_node)
    /\ y_pc \in {"iter", "window", "cb_timeout"} =>
          /\ y_iter # NULL => y_iter \in list_pub_wait_ack \ {y_temp}
          /\ y_temp # NULL => y_temp \in list_pub_wait_ack

(* The thread that t has to wait for before it can take its next mutex.      *)
WaitsFor(t) ==
    IF pc[t] \in {"lock0", "lock1"} THEN lock_write_buf
    ELSE IF pc[t] \in {"push", "remove"} \/ (t = Yielder /\ y_pc \in {"proc", "window"})
         THEN lock_list_pub
         ELSE NoThread

(* A set of threads waits for mutexes held inside the set.  The mutexes are   *)
(* not recursive, so one thread can do it alone.                              *)
LockCycle == \E D \in SUBSET Threads : D # {} /\ \A t \in D : WaitsFor(t) \in D

(* A node leaves the list only when its PUBACK came, its timeout was         *)
(* reported, or its own publish is returning an error: no publish is dropped *)
(* from the list without its application hearing of it.                      *)
RemovedWhenSettled ==
    [][\A n \in list_pub_wait_ack \ list_pub_wait_ack' :
          \/ n \in succeeded \cup timedout
          \/ \E t \in Threads : pc[t] = "remove" /\ pub_node[t] = n]_vars

(* After PUBLISH_SUCCESS for a message no PUBLISH_TIMEOUT follows for it     *)
(* (the reverse happens: a PUBACK may come after the timeout).               *)
AckedNeverTimesOut ==
    [][\A n \in timedout' \ timedout : n \notin succeeded]_vars

(* While the connection lasts and reads do not fail for ever, every node      *)
(* leaves the list: a publish is acknowledged, times out or fails, and does   *)
(* not block its place for ever, whatever the order of reads that skip the    *)
(* pass, publishes that fail and handlers that publish.  A handler that       *)
(* publishes on PUBLISH_TIMEOUT may lock the client up (LockCycle).           *)
PendingSettled ==
    []<>(y_pc = "proc" \/ ~is_connected) =>
        \A n \in Serials :
            n \in list_pub_wait_ack /\ is_connected
                ~> n \notin list_pub_wait_ack \/ ~is_connected \/ undefined \/ LockCycle
=============================================================================
