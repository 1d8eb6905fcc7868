--------------------------- MODULE MqttSubscribe ---------------------------
(***************************************************************************)
(* Subscribing: the table sub_handles, the list of SUBSCRIBE/UNSUBSCRIBE   *)
(* requests that wait for their ack (list_sub_wait_ack), the heap copies of *)
(* the topic filters that move between the two, application threads inside *)
(* qcloud_iot_mqtt_subscribe / _unsubscribe, and the yield thread that      *)
(* handles acks, timeouts, messages, disconnection and resubscription.      *)
(*                                                                          *)
(* The n-th request is the number n: its packet id, its list node and its   *)
(* copy of the topic filter (topic_filter_stored) are all named n (packet   *)
(* ids of pending requests are unique, see MqttPubAck).  0 is NULL.         *)
(***************************************************************************)
EXTENDS Integers, Sequences, FiniteSets, TLC

CONSTANTS Apps, Yielder, NoThread,
          Filters,               \* topic filters in use
          Wildcards,             \* the filters that contain "/#" or "/+"
          Handlers,              \* message handlers applications subscribe with
          MAX_MESSAGE_HANDLERS,  \* size of sub_handles and of the wait list
          MaxCalls,              \* bound: subscribe and unsubscribe calls in a behaviour
          MaxDrops,              \* bound: connection losses in a behaviour
          Faults,                \* which of FaultKinds the environment may show
          MaxFaults              \* bound: different faults in a behaviour, the late ones apart

FaultKinds == {"send_failure",        \* a send fails, its node not yet timed out
               "late_send_failure",   \* a send fails, its node timed out before it is removed
               "refusal",             \* the server refuses a subscription
               "late_unsuback",       \* an UNSUBACK comes after its request timed out
               "unsubscribe_overlap"} \* an unsubscribe overlaps a (re)subscription of its filter
                                      \* or the delivery of a message for it

ASSUME SubThreadsAssumption == /\ Yielder \notin Apps
                               /\ NoThread \notin Apps \cup {Yielder}
ASSUME SubSetsAssumption == Wildcards \subseteq Filters /\ Faults \subseteq FaultKinds
ASSUME SubBoundsAssumption == /\ MAX_MESSAGE_HANDLERS \in Nat \ {0}
                              /\ MaxCalls \in Nat /\ MaxDrops \in Nat /\ MaxFaults \in Nat

Threads == Apps \cup {Yielder}
MaxRequests == MaxCalls + MaxDrops * MAX_MESSAGE_HANDLERS
Requests == 1 .. MaxRequests
NULL == 0
Slots == 1 .. MAX_MESSAGE_HANDLERS
Results == {"SUCCESS", "NACK", "TIMEOUT"}

VARIABLES sub_handles,       \* slot -> [topic_filter, message_handler]
          list_sub_wait_ack, \* requests in the wait list
          info,              \* request -> what its node and its filter copy hold
          heap,              \* filter copies that are allocated
          bad_free,          \* history: frees of memory that was not allocated
          lock_write_buf,    \* owner of the mutex
          call,              \* thread -> its subscribe or unsubscribe call
          calls, requests,   \* application calls so far, requests numbered so far
          y_pc, y_slot, y_topic, \* yield thread: place, slot it works on, filter copy it reads
          is_connected, drops,
          up, down,          \* packets on the way to and from the server
          server,            \* filters the server has subscribed for this session
          reported,          \* history: request -> results reported to the application
          faults             \* history: faults that happened, and limits that were hit

NoInfo == [type |-> "SUBSCRIBE", filter |-> NULL, handler |-> NULL,
           node_state |-> "NORMAL", expired |-> FALSE]
IdleCall == [pc |-> "idle", type |-> "SUBSCRIBE", filter |-> NULL, handler |-> NULL, node |-> NULL]

table  == <<sub_handles, heap, bad_free>>
list   == <<list_sub_wait_ack, info>>
caller == <<lock_write_buf, call, calls, requests>>
yield  == <<y_pc, y_slot, y_topic>>
net    == <<is_connected, drops, up, down, server>>
hist   == <<reported, faults>>
vars   == <<table, list, caller, yield, net, hist>>

Limits == {"list_full", "table_full"}
Uncounted == Limits \cup {"late_send_failure", "late_unsuback"}

Init == /\ sub_handles = [i \in Slots |-> [topic_filter |-> NULL, message_handler |-> NULL]]
        /\ heap = {} /\ bad_free = {}
        /\ list_sub_wait_ack = {}
        /\ info = [n \in Requests |-> NoInfo]
        /\ lock_write_buf = NoThread
        /\ call = [t \in Threads |-> IdleCall]
        /\ calls = 0 /\ requests = 0
        /\ y_pc = "read" /\ y_slot = 1 /\ y_topic = NULL
        /\ is_connected = TRUE /\ drops = 0
        /\ up = <<>> /\ down = <<>>
        /\ server = {}
        /\ reported = [n \in Requests |-> {}]
        /\ faults = {}

(* The environment shows fault k.                                            *)
Fault(k) == /\ k \in Faults
            /\ Cardinality((faults \cup {k}) \ Uncounted) <= MaxFaults
            /\ faults' = faults \cup {k}

(* HAL_Free of a set of filter copies.                                       *)
Free(S) == heap' = heap \ S /\ bad_free' = bad_free \cup (S \ heap)

FilterIn(i) == info[sub_handles[i].topic_filter].filter
Used(i) == sub_handles[i].topic_filter # NULL
Waiting(f) == {n \in list_sub_wait_ack : info[n].type = "SUBSCRIBE" /\ info[n].filter = f
                                         /\ info[n].node_state = "NORMAL"}

-----------------------------------------------------------------------------
(* Calls.  A call that passed its checks waits for lock_write_buf, gets a    *)
(* number, puts its node into the wait list and sends.                       *)

Begin(t, type, f, h) ==
    call' = [call EXCEPT ![t] = [pc |-> "lock", type |-> type, filter |-> f, handler |-> h,
                                 node |-> NULL]]
Return(t, pc) == call' = [call EXCEPT ![t] = [IdleCall EXCEPT !.pc = pc]]

(* qcloud_iot_mqtt_subscribe: not connected, QoS2 and over-long filters      *)
(* return before anything changes.                                           *)
Subscribe(t, f, h) == /\ call[t].pc = "idle"
                      /\ is_connected
                      /\ calls < MaxCalls /\ calls' = calls + 1
                      /\ Begin(t, "SUBSCRIBE", f, h)
                      /\ IF \E u \in Apps : call[u].type = "UNSUBSCRIBE" /\ call[u].filter = f
                         THEN Fault("unsubscribe_overlap") ELSE UNCHANGED faults
                      /\ UNCHANGED <<table, list, lock_write_buf, requests, yield, net, reported>>

(* The comparison in the loops of unsubscribe and is_sub_ready: a filter     *)
(* with a wildcard hits every slot, used or not.                             *)
SlotHit(i, f) == (Used(i) /\ FilterIn(i) = f) \/ f \in Wildcards

(* Nothing in flight concerns the filter.                                    *)
Settled(f) == /\ y_pc \in {"read", "left", "proc"}
              /\ Waiting(f) = {}
              /\ \A t \in Threads : call[t].pc # "idle" => call[t].filter # f

(* Mutant: the slot is cleared and its filter copy is not freed.             *)
ClearHandlesNoFree(hits) ==
    /\ sub_handles' = [i \in Slots |-> IF i \in hits THEN [sub_handles[i] EXCEPT !.topic_filter = NULL]
                                       ELSE sub_handles[i]]
    /\ UNCHANGED <<heap, bad_free>>

(* Mutant: the filter copy is freed and the slot keeps its pointer.          *)
ClearHandlesDangling(hits) ==
    /\ Free({sub_handles[i].topic_filter : i \in {j \in hits : Used(j)}})
    /\ UNCHANGED sub_handles

(* The slots are cleared, their filter copies freed (free(NULL) is a no-op). *)
ClearHandles(hits) ==
    /\ sub_handles' = [i \in Slots |-> IF i \in hits THEN [sub_handles[i] EXCEPT !.topic_filter = NULL]
                                       ELSE sub_handles[i]]
    /\ Free({sub_handles[i].topic_filter : i \in {j \in hits : Used(j)}})

(* qcloud_iot_mqtt_unsubscribe up to lock_write_buf: under lock_generic the  *)
(* handlers go first; then the connection is checked.                        *)
Unsubscribe(t, f) ==
    LET hits == {i \in Slots : SlotHit(i, f)} IN
    /\ call[t].pc = "idle"
    /\ \/ Settled(f) /\ UNCHANGED faults
       \/ ~Settled(f) /\ Fault("unsubscribe_overlap")
    /\ calls < MaxCalls /\ calls' = calls + 1
    /\ hits # {}
    /\ ClearHandles(hits)
    /\ IF is_connected THEN Begin(t, "UNSUBSCRIBE", f, NULL) ELSE UNCHANGED call
    /\ UNCHANGED <<list, lock_write_buf, requests, yield, net, reported>>

(* push_sub_info_to on a full list: the call frees its filter copy.          *)
PushFull(t) == /\ Cardinality(list_sub_wait_ack) >= MAX_MESSAGE_HANDLERS
               /\ lock_write_buf' = NoThread
               /\ Return(t, "idle")
               /\ y_pc' = IF t = Yielder THEN "read" ELSE y_pc
               /\ faults' = faults \cup {"list_full"}
               /\ UNCHANGED <<heap, bad_free, list>>

PushBody(t, n) == /\ list_sub_wait_ack' = list_sub_wait_ack \cup {n}
                  /\ info' = [info EXCEPT ![n] = [type |-> call[t].type, filter |-> call[t].filter,
                                                  handler |-> call[t].handler,
                                                  node_state |-> "NORMAL", expired |-> FALSE]]
                  /\ heap' = heap \cup {n}
                  /\ lock_write_buf' = t
                  /\ call' = [call EXCEPT ![t].pc = "send", ![t].node = n]
                  /\ UNCHANGED <<bad_free, y_pc, faults>>

(* Mutant: one node too many.                                                *)
PushNodeOffByOne(t, n) == Cardinality(list_sub_wait_ack) <= MAX_MESSAGE_HANDLERS /\ PushBody(t, n)

(* push_sub_info_to: the node takes over handler and filter copy.            *)
PushNode(t, n) == Cardinality(list_sub_wait_ack) < MAX_MESSAGE_HANDLERS /\ PushBody(t, n)

(* lock_write_buf, get_next_packet_id, serialize, push_sub_info_to.          *)
LockAndPush(t) == /\ call[t].pc = "lock"
                  /\ lock_write_buf = NoThread
                  /\ requests' = requests + 1
                  /\ PushFull(t) \/ PushNode(t, requests + 1)
                  /\ UNCHANGED <<sub_handles, calls, y_slot, y_topic, net, reported>>

(* send_mqtt_packet succeeds; lock_write_buf is released, the id returned.   *)
SendOk(t) == /\ call[t].pc = "send"
             /\ up' = IF is_connected THEN Append(up, call[t].node) ELSE up
             /\ lock_write_buf' = NoThread
             /\ Return(t, "idle")
             /\ UNCHANGED <<table, list, calls, requests, yield, is_connected, drops, down, server, hist>>

OnTime(n) == n \in list_sub_wait_ack /\ ~info[n].expired

SendFail(t) == /\ call[t].pc = "send"
               /\ \/ OnTime(call[t].node) /\ Fault("send_failure")
                  \/ ~OnTime(call[t].node) /\ Fault("late_send_failure")
               /\ call' = [call EXCEPT ![t].pc = "remove"]
               /\ UNCHANGED <<table, list, lock_write_buf, calls, requests, yield, net, reported>>

(* The error path: list_remove, then HAL_Free of the filter copy.  In the    *)
(* yield thread the error ends qcloud_iot_mqtt_resubscribe.                  *)
RemoveUnsent(t) == /\ call[t].pc = "remove"
                   /\ list_sub_wait_ack' = list_sub_wait_ack \ {call[t].node}
                   /\ Free({call[t].node})
                   /\ lock_write_buf' = NoThread
                   /\ Return(t, "idle")
                   /\ y_pc' = IF t = Yielder THEN "read" ELSE y_pc
                   /\ UNCHANGED <<sub_handles, info, calls, requests, y_slot, y_topic, net, hist>>

-----------------------------------------------------------------------------
(* The yield thread: acks.                                                   *)

Reading == y_pc = "read" /\ is_connected /\ call[Yielder].pc = "idle"

(* _mask_sub_info_from: the listed node with this id is marked; its handler  *)
(* is returned (NULL filter when there is none).                             *)
MaskSubInfo(n) == info' = IF n \in list_sub_wait_ack
                          THEN [info EXCEPT ![n].node_state = "INVALID"] ELSE info

Report(n, r) == reported' = [reported EXCEPT ![n] = @ \cup {r}]

(* Mutant: only the handler is compared, a resubscribed filter looks new.    *)
IdenticalNever(i, n) == FALSE

(* _check_handle_is_identical                                                *)
Identical(i, n) == /\ Used(i)
                   /\ FilterIn(i) = info[n].filter
                   /\ sub_handles[i].message_handler = info[n].handler

FreeSlots == {i \in Slots : ~Used(i)}
FirstOf(S) == CHOOSE i \in S : \A j \in S : i <= j

(* A granted subscription: known already, or put into the first free slot,   *)
(* or no room: then nothing is freed and nothing reported.                   *)
Install(n) ==
    \/ /\ \E i \in Slots : Identical(i, n)
       /\ Free({n})
       /\ UNCHANGED sub_handles
       /\ Report(n, "SUCCESS")
       /\ y_pc' = "proc"
       /\ UNCHANGED faults
    \/ /\ \A i \in Slots : ~Identical(i, n)
       /\ FreeSlots # {}
       /\ sub_handles' = [sub_handles EXCEPT ![FirstOf(FreeSlots)] =
                             [topic_filter |-> n, message_handler |-> info[n].handler]]
       /\ UNCHANGED <<heap, bad_free>>
       /\ Report(n, "SUCCESS")
       /\ y_pc' = "proc"
       /\ UNCHANGED faults
    \/ /\ \A i \in Slots : ~Identical(i, n)
       /\ FreeSlots = {}
       /\ UNCHANGED <<table, reported>>
       /\ y_pc' = "read"
       /\ faults' = faults \cup {"table_full"}

(* _handle_suback_packet.  An error return skips sub_info_proc this time.    *)
HandleSuback ==
    /\ Reading /\ down # <<>>
    /\ \E n \in Requests, granted \in BOOLEAN :
          /\ Head(down) = <<n, "SUBACK", granted>>
          /\ MaskSubInfo(n)
          /\ \/ /\ n \notin list_sub_wait_ack
                /\ IF granted THEN UNCHANGED reported ELSE Report(n, "NACK")
                /\ y_pc' = "read"
                /\ UNCHANGED <<table, faults>>
             \/ /\ n \in list_sub_wait_ack /\ ~granted
                /\ Free({n})
                /\ UNCHANGED <<sub_handles, faults>>
                /\ Report(n, "NACK")
                /\ y_pc' = "read"
             \/ /\ n \in list_sub_wait_ack /\ granted
                /\ Install(n)
    /\ down' = Tail(down)
    /\ UNCHANGED <<list_sub_wait_ack, caller, y_slot, y_topic, is_connected, drops, up, server>>

(* _handle_unsuback_packet.  Without a listed node the local messageHandler  *)
(* is read uninitialized: its pointer is NULL or garbage, and garbage is     *)
(* handed to HAL_Free (request 0 stands for it in bad_free).                 *)
HandleUnsuback ==
    /\ Reading /\ down # <<>>
    /\ \E n \in Requests :
          /\ Head(down) = <<n, "UNSUBACK", TRUE>>
          /\ MaskSubInfo(n)
          /\ \/ n \in list_sub_wait_ack /\ Free({n})
             \/ n \notin list_sub_wait_ack /\ UNCHANGED <<heap, bad_free>>
             \/ n \notin list_sub_wait_ack /\ Free({NULL})
          /\ Report(n, "SUCCESS")
    /\ down' = Tail(down)
    /\ y_pc' = "proc"
    /\ UNCHANGED <<sub_handles, list_sub_wait_ack, caller, y_slot, y_topic, is_connected, drops, up, server, faults>>

(* Any other packet, or nothing to read.                                     *)
ReadOther == /\ Reading
             /\ y_pc' = "proc"
             /\ UNCHANGED <<table, list, caller, y_slot, y_topic, net, hist>>

(* cycle_for_read returns an error that is no loss of the connection: the     *)
(* loop is left before sub_info_proc, and yield is called again.             *)
ReadFails == /\ Reading
             /\ y_pc' = "left"
             /\ UNCHANGED <<table, list, caller, y_slot, y_topic, net, hist>>

YieldAgain == /\ y_pc = "left"
              /\ y_pc' = "read"
              /\ UNCHANGED <<table, list, caller, y_slot, y_topic, net, hist>>

(* Mutant: answered requests are not told from timed out ones.               *)
TimedOutAnyState == {n \in list_sub_wait_ack : info[n].expired}

(* Mutant: only SUBSCRIBE requests are timed out.                            *)
TimedOutSubscribeOnly == {n \in list_sub_wait_ack : /\ info[n].node_state = "NORMAL" /\ info[n].expired
                                                    /\ info[n].type = "SUBSCRIBE"}

(* The nodes whose countdown ended before their ack came.                    *)
TimedOut == {n \in list_sub_wait_ack : info[n].node_state = "NORMAL" /\ info[n].expired}
Acked == {n \in list_sub_wait_ack : info[n].node_state = "INVALID"}

(* qcloud_iot_mqtt_sub_info_proc, all of it under lock_list_sub.             *)
SubInfoProc ==
    /\ y_pc = "proc"
    /\ y_pc' = "read"
    /\ list_sub_wait_ack' = list_sub_wait_ack \ (Acked \cup TimedOut)
    /\ Free(TimedOut)
    /\ reported' = [n \in Requests |-> IF n \in TimedOut THEN reported[n] \cup {"TIMEOUT"}
                                       ELSE reported[n]]
    /\ UNCHANGED <<sub_handles, info, caller, y_slot, y_topic, net, faults>>

(* _deliver_message: the first matching slot is found under lock_generic,    *)
(* the mutex is released, then the slot's handler is called.                 *)
MatchSlots(f) == {i \in Slots : Used(i) /\ FilterIn(i) = f}
DeliverFind(f) == /\ Reading
                  /\ f \in server
                  /\ MatchSlots(f) # {}
                  /\ y_slot' = FirstOf(MatchSlots(f))
                  /\ y_pc' = "deliver"
                  /\ UNCHANGED <<table, list, caller, y_topic, net, hist>>
DeliverCall == /\ y_pc = "deliver"
               /\ y_pc' = "proc"
               /\ UNCHANGED <<table, list, caller, y_slot, y_topic, net, hist>>

-----------------------------------------------------------------------------
(* The yield thread: connection loss and resubscription.                     *)

Disconnect == /\ Reading
              /\ drops < MaxDrops
              /\ drops' = drops + 1
              /\ is_connected' = FALSE
              /\ up' = <<>> /\ down' = <<>> /\ server' = {}
              /\ UNCHANGED <<table, list, caller, yield, hist>>

(* Mutant: a reconnect that forgets to resubscribe.                          *)
ReconnectForgets == /\ y_pc = "read" /\ ~is_connected
                    /\ is_connected' = TRUE
                    /\ UNCHANGED <<table, list, caller, yield, drops, up, down, server, hist>>

(* qcloud_iot_mqtt_attempt_reconnect that connects: is_connected, then       *)
(* qcloud_iot_mqtt_resubscribe, which an error ends.                         *)
Reconnect == /\ y_pc = "read" /\ ~is_connected
             /\ is_connected' = TRUE
             /\ y_pc' = "resub" /\ y_slot' = 1
             /\ UNCHANGED <<table, list, caller, y_topic, drops, up, down, server, hist>>

(* The next used slot's filter pointer is read with no mutex held.           *)
ResubNext == /\ y_pc = "resub" /\ call[Yielder].pc = "idle"
             /\ LET rest == {i \in Slots : i >= y_slot /\ Used(i)} IN
                IF rest = {} THEN y_pc' = "read" /\ y_slot' = 1 /\ y_topic' = NULL
                ELSE /\ y_pc' = "copy"
                     /\ y_slot' = FirstOf(rest)
                     /\ y_topic' = sub_handles[FirstOf(rest)].topic_filter
             /\ UNCHANGED <<table, list, caller, net, hist>>

(* The string behind a pointer: of freed memory, any.                        *)
StringAt(p) == IF p \in heap THEN {info[p].filter} ELSE Filters

(* qcloud_iot_mqtt_subscribe copies the filter it was handed.                *)
ResubCopy == /\ y_pc = "copy"
             /\ \E f \in StringAt(y_topic) :
                   Begin(Yielder, "SUBSCRIBE", f, sub_handles[y_slot].message_handler)
             /\ y_pc' = "resub" /\ y_slot' = y_slot + 1
             /\ UNCHANGED <<table, list, lock_write_buf, calls, requests, y_topic, net, hist>>

-----------------------------------------------------------------------------
(* The server answers requests in order and may refuse a subscription; time. *)

ServerHandle ==
    /\ up # <<>>
    /\ LET n == Head(up) IN
       \/ /\ info[n].type = "SUBSCRIBE"
          /\ server' = server \cup {info[n].filter}
          /\ down' = Append(down, <<n, "SUBACK", TRUE>>)
          /\ UNCHANGED faults
       \/ /\ info[n].type = "SUBSCRIBE"
          /\ Fault("refusal")
          /\ UNCHANGED server
          /\ down' = Append(down, <<n, "SUBACK", FALSE>>)
       \/ /\ info[n].type = "UNSUBSCRIBE"
          /\ server' = server \ {info[n].filter}
          /\ down' = Append(down, <<n, "UNSUBACK", TRUE>>)
          /\ UNCHANGED faults
    /\ up' = Tail(up)
    /\ UNCHANGED <<table, list, caller, yield, is_connected, drops, reported>>

(* The countdown of a request ends.  The ack of an UNSUBSCRIBE that is still *)
(* on its way will be late, and so is a call that is still to remove its     *)
(* unsent node.                                                              *)
AckToCome(n) == \/ \E i \in DOMAIN up : up[i] = n
                \/ \E i \in DOMAIN down : down[i][1] = n
                \/ \E t \in Threads : call[t].pc = "send" /\ call[t].node = n
Expire(n) == /\ OnTime(n)
             /\ IF \E t \in Threads : call[t].pc = "remove" /\ call[t].node = n
                THEN Fault("late_send_failure")
                ELSE IF info[n].type = "UNSUBSCRIBE" /\ info[n].node_state = "NORMAL" /\ AckToCome(n)
                     THEN Fault("late_unsuback") ELSE UNCHANGED faults
             /\ info' = [info EXCEPT ![n].expired = TRUE]
             /\ UNCHANGED <<table, list_sub_wait_ack, caller, yield, net, reported>>

-----------------------------------------------------------------------------
CallStep(t) == LockAndPush(t) \/ SendOk(t) \/ SendFail(t) \/ RemoveUnsent(t)

YieldStep == \/ HandleSuback \/ HandleUnsuback \/ ReadOther \/ ReadFails \/ YieldAgain
             \/ SubInfoProc \/ DeliverCall \/ ResubNext \/ ResubCopy

Next == \/ \E t \in Apps, f \in Filters : Unsubscribe(t, f) \/ \E h \in Handlers : Subscribe(t, f, h)
        \/ \E t \in Threads : CallStep(t)
        \/ YieldStep \/ Disconnect \/ Reconnect
        \/ \E f \in Filters : DeliverFind(f)
        \/ ServerHandle
        \/ \E n \in Requests : Expire(n)

Spec == Init /\ [][Next]_vars
FairSpec == /\ Spec
            /\ \A t \in Threads : WF_vars(CallStep(t))
            /\ WF_vars(YieldStep)
            /\ \A n \in Requests : WF_vars(Expire(n))

-----------------------------------------------------------------------------
CallRecs == [pc : {"idle", "lock", "send", "remove"}, type : {"SUBSCRIBE", "UNSUBSCRIBE"},
             filter : Filters \cup {NULL}, handler : Handlers \cup {NULL}, node : Requests \cup {NULL}]
NodeRecs == [type : {"SUBSCRIBE", "UNSUBSCRIBE"}, filter : Filters \cup {NULL},
             handler : Handlers \cup {NULL}, node_state : {"NORMAL", "INVALID"}, expired : BOOLEAN]

(* The variables stay in range; in particular a resubscription asks once per *)
(* slot, so requests never exceed MaxRequests.                               *)
TypeOK == /\ sub_handles \in [Slots -> [topic_filter : Requests \cup {NULL},
                                        message_handler : Handlers \cup {NULL}]]
          /\ heap \subseteq Requests /\ bad_free \subseteq Requests \cup {NULL}
          /\ list_sub_wait_ack \subseteq Requests
          /\ info \in [Requests -> NodeRecs]
          /\ lock_write_buf \in Threads \cup {NoThread}
          /\ call \in [Threads -> CallRecs]
          /\ calls \in 0 .. MaxCalls /\ requests \in 0 .. MaxRequests
          /\ y_pc \in {"read", "left", "proc", "deliver", "resub", "copy"}
          /\ y_slot \in 1 .. MAX_MESSAGE_HANDLERS + 1 /\ y_topic \in Requests \cup {NULL}
          /\ is_connected \in BOOLEAN /\ drops \in 0 .. MaxDrops
          /\ up \in Seq(Requests) /\ down \in Seq(Requests \X {"SUBACK", "UNSUBACK"} \X BOOLEAN)
          /\ server \subseteq Filters
          /\ reported \in [Requests -> SUBSET Results]
          /\ faults \subseteq Faults \cup Limits

(* push_sub_info_to keeps the wait list within its limit.                    *)
ListBounded == Cardinality(list_sub_wait_ack) <= MAX_MESSAGE_HANDLERS

(* The ack handlers, the timeout pass, unsubscribe and the error paths       *)
(* together free every filter copy at most once and nothing else, unless a   *)
(* send fails or an UNSUBACK comes after the timeout of its request.         *)
FreedOnce == bad_free # {} => faults \cap {"late_send_failure", "late_unsuback"} # {}

(* Every allocated filter copy has one owner: a used slot, a request that    *)
(* waits for its ack, or a call that is about to free it.  Only a grant that *)
(* finds the table full loses one.                                           *)
Owners == {sub_handles[i].topic_filter : i \in {j \in Slots : Used(j)}}
          \cup {n \in list_sub_wait_ack : info[n].node_state = "NORMAL"}
          \cup {call[t].node : t \in {u \in Threads : call[u].pc = "remove"}}
NoLeak == "table_full" \notin faults => heap \subseteq Owners

(* A filter is not installed twice with the same handler, although every     *)
(* reconnect subscribes all of them again.                                   *)
NoDuplicateHandlers ==
    \A i, j \in Slots : Used(i) /\ Used(j) /\ i # j
                         => sub_handles[i].message_handler # sub_handles[j].message_handler
                            \/ FilterIn(i) # FilterIn(j)

(* A SUBSCRIBE reported as granted is never reported as refused or timed out.*)
SuccessExclusive ==
    \A n \in Requests : info[n].type = "SUBSCRIBE" /\ "SUCCESS" \in reported[n]
                         => reported[n] = {"SUCCESS"}

(* What qcloud_iot_mqtt_is_sub_ready answers.                                *)
IsSubReady(f) == \E i \in Slots : SlotHit(i, f)

(* When nothing is pending, a filter IsSubReady calls ready is one the server*)
(* has subscribed, across reconnects, unless a resubscription could be       *)
(* refused, not sent or not listed, or the filter has a wildcard.            *)
Quiet == /\ is_connected /\ y_pc = "read"
         /\ up = <<>> /\ down = <<>> /\ list_sub_wait_ack = {}
         /\ \A t \in Threads : call[t].pc = "idle"
ReadyIsSubscribed ==
    Quiet /\ faults \subseteq {"late_unsuback", "table_full"}
    => \A f \in Filters \ Wildcards : IsSubReady(f) => f \in server

(* While the connection lasts and the passes over the list are not all       *)
(* skipped by failing reads and acks that end in an error, every request     *)
(* leaves the wait list, in whatever order acks, skipped passes and timeouts *)
(* come.                                                                     *)
RequestsSettled ==
    []<>(y_pc = "proc" \/ ~is_connected) =>
        \A n \in Requests : n \in list_sub_wait_ack ~> n \notin list_sub_wait_ack \/ ~is_connected
=============================================================================
