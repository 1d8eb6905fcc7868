----------------------------- MODULE CoapClient -----------------------------
(* Confirmable CoAP requests: threads that call IOT_COAP_SendMessage, one    *)
(* thread that calls IOT_COAP_Yield, a datagram network that loses,          *)
(* duplicates and reorders, and a server that answers every copy it gets.    *)
(* Callbacks run with lock_list_wait_ack held and send nothing themselves.   *)
(* A request with a response callback is answered by an empty ACK and a      *)
(* separate response, one without by a piggybacked response.                 *)
EXTENDS Naturals, FiniteSets

CONSTANTS
    Senders,
    NoThread,              \* lock_send_buf is free
    max_retry_count,
    COAP_MSG_MAX_MSG_ID,
    MaxMessages,           \* bound: requests made
    NeedResp,              \* the requests made with need_resp
    MaxFaults              \* bound: reads that fail and datagrams the network duplicates

ASSUME CoapAssumption ==
    /\ {max_retry_count, MaxFaults} \subseteq Nat
    /\ {COAP_MSG_MAX_MSG_ID, MaxMessages} \subseteq Nat \ {0}
    /\ NeedResp \subseteq 1..MaxMessages
    /\ NoThread \notin Senders

Messages == 1..MaxMessages
None     == 0
Packet(ty, c, m) == [type |-> ty, code |-> c, req |-> m]
NoPacket == Packet("none", "none", None)

VARIABLES
    next_msg_id, message_token,
    lock_send_buf,
    message_list,                \* the requests that wait; their order changes nothing
    pc, cur, made,               \* of a sender: its request; requests made so far
    y_pc, y_msg,                 \* of the yielding thread
    msg_id, token,               \* of a request
    node_state, acked, retrans_count, expired_timers,
    toServer, toClient, faults,
    calls, told                  \* history: callbacks made, what they were told

counters == <<next_msg_id, message_token>>
senders  == <<pc, cur, made, msg_id, token>>
yielder  == <<y_pc, y_msg>>
nodes    == <<message_list, node_state, acked, retrans_count, expired_timers>>
network  == <<toServer, toClient, faults>>
history  == <<calls, told>>
vars     == <<counters, lock_send_buf, senders, yielder, nodes, network, history>>

(* qcloud_iot_coap_init: the message id starts at random; any start differs  *)
(* from the one just before the wrap by a renaming of ids only.              *)
Init ==
    /\ next_msg_id = COAP_MSG_MAX_MSG_ID /\ message_token = 0
    /\ lock_send_buf = NoThread /\ message_list = {}
    /\ pc = [t \in Senders |-> "idle"] /\ cur = [t \in Senders |-> None] /\ made = 0
    /\ y_pc = "recv" /\ y_msg = NoPacket
    /\ msg_id = [m \in Messages |-> None] /\ token = [m \in Messages |-> None]
    /\ node_state = [m \in Messages |-> "NORMAL"] /\ acked = [m \in Messages |-> FALSE]
    /\ retrans_count = [m \in Messages |-> 0] /\ expired_timers = {}
    /\ toServer = {} /\ toClient = {} /\ faults = 0
    /\ calls = [m \in Messages |-> 0]
    /\ told = [m \in Messages |-> "nothing"]

-----------------------------------------------------------------------------
(* IOT_COAP_SendMessage.                                                     *)

get_next_coap_msg_id == IF next_msg_id = COAP_MSG_MAX_MSG_ID THEN 1 ELSE next_msg_id + 1

(* The id and the token are counted up without a mutex: a thread may be given*)
(* those another thread is taking at the same moment.                        *)
TakeNumbers(t) ==
    /\ pc[t] = "idle" /\ made < MaxMessages
    /\ LET m == made + 1
           racing == {cur[u] : u \in {u \in Senders \ {t} : pc[u] = "write"}} IN
       /\ \/ /\ next_msg_id' = get_next_coap_msg_id
             /\ msg_id' = [msg_id EXCEPT ![m] = get_next_coap_msg_id]
          \/ \E r \in racing : msg_id' = [msg_id EXCEPT ![m] = msg_id[r]] /\ UNCHANGED next_msg_id
       /\ \/ /\ message_token' = message_token + 1
             /\ token' = [token EXCEPT ![m] = message_token]
          \/ \E r \in racing : token' = [token EXCEPT ![m] = token[r]] /\ UNCHANGED message_token
       /\ made' = m /\ cur' = [cur EXCEPT ![t] = m]
    /\ pc' = [pc EXCEPT ![t] = "write"]
    /\ UNCHANGED <<lock_send_buf, yielder, nodes, network, history>>

(* coap_message_send: the datagram goes out before the request is listed.    *)
Write(t) ==
    /\ pc[t] = "write" /\ lock_send_buf = NoThread
    /\ lock_send_buf' = t
    /\ toServer' = toServer \cup {cur[t]}
    /\ pc' = [pc EXCEPT ![t] = "add"]
    /\ UNCHANGED <<counters, cur, made, msg_id, token, yielder, nodes, toClient, faults, history>>

(* A request that could not be written is not listed.                        *)
WriteFails(t) ==
    /\ pc[t] = "write" /\ lock_send_buf = NoThread
    /\ pc' = [pc EXCEPT ![t] = "idle"] /\ cur' = [cur EXCEPT ![t] = None]
    /\ UNCHANGED <<counters, lock_send_buf, made, msg_id, token, yielder, nodes, network, history>>

ListAdd(t) ==
    /\ pc[t] = "add"
    /\ message_list' = message_list \cup {cur[t]}
    /\ lock_send_buf' = NoThread
    /\ pc' = [pc EXCEPT ![t] = "idle"] /\ cur' = [cur EXCEPT ![t] = None]
    /\ UNCHANGED <<counters, made, msg_id, token, yielder, node_state, acked, retrans_count,
                   expired_timers, network, history>>

-----------------------------------------------------------------------------
(* IOT_COAP_Yield: one datagram, then the waiting requests. A traversal of   *)
(* the list holds lock_list_wait_ack from its start to its end.              *)

(* The datagram stays on its way when the network duplicates it.             *)
Recv ==
    /\ y_pc = "recv"
    /\ \E p \in toClient :
         /\ y_msg' = p
         /\ y_pc' = IF p.type = "CON" THEN "ack" ELSE "process"
         /\ \/ toClient' = toClient \ {p} /\ UNCHANGED faults
            \/ faults < MaxFaults /\ faults' = faults + 1 /\ UNCHANGED toClient
    /\ UNCHANGED <<counters, lock_send_buf, senders, nodes, toServer, history>>

RecvTimeout ==
    /\ y_pc = "recv" /\ y_pc' = "wait"
    /\ UNCHANGED <<counters, lock_send_buf, senders, y_msg, nodes, network, history>>

(* Any other error skips the waiting requests.                               *)
RecvError ==
    /\ y_pc = "recv" /\ faults < MaxFaults
    /\ faults' = faults + 1
    /\ UNCHANGED <<counters, lock_send_buf, senders, yielder, nodes, toServer, toClient, history>>

(* _coap_client_send_ack needs lock_send_buf for a moment.                   *)
SendAck ==
    /\ y_pc = "ack" /\ lock_send_buf = NoThread
    /\ y_pc' = "process"
    /\ UNCHANGED <<counters, lock_send_buf, senders, y_msg, nodes, network, history>>

(* PROCESS_ACK_CMD                                                           *)
ProcessAck ==
    /\ y_pc = "process" /\ y_msg.code = "ack"
    /\ LET ms == {m \in message_list : msg_id[m] = msg_id[y_msg.req]} IN
       /\ acked' = [m \in Messages |-> acked[m] \/ m \in ms]
       /\ expired_timers' = expired_timers \ ms
    /\ y_pc' = "wait" /\ y_msg' = NoPacket
    /\ UNCHANGED <<counters, lock_send_buf, senders, message_list, node_state, retrans_count, network, history>>

(* The requests a response is for: by token, or by message id.               *)
Answered(r) ==
    {m \in message_list : IF r.code = "resp" THEN token[m] = token[r.req] ELSE msg_id[m] = msg_id[r.req]}

(* Mutant: an answered request stays in the list until it times out.         *)
ProcessResponseKeeps ==
    /\ y_pc = "process" /\ y_msg.code \in {"resp", "piggy"}
    /\ LET ms == Answered(y_msg) IN
       /\ calls' = [m \in Messages |-> IF m \in ms THEN calls[m] + 1 ELSE calls[m]]
       /\ told' = [m \in Messages |-> IF m \in ms THEN "answer" ELSE told[m]]
    /\ y_pc' = "wait" /\ y_msg' = NoPacket
    /\ UNCHANGED <<counters, lock_send_buf, senders, nodes, network>>

(* PROCESS_RESP_CMD and PROCESS_PIGGY_CMD call back every request with the   *)
(* token, or the message id, and mark it for removal.                        *)
ProcessResponse ==
    /\ y_pc = "process" /\ y_msg.code \in {"resp", "piggy"}
    /\ LET ms == Answered(y_msg) IN
       /\ calls' = [m \in Messages |-> IF m \in ms THEN calls[m] + 1 ELSE calls[m]]
       /\ told' = [m \in Messages |-> IF m \in ms THEN "answer" ELSE told[m]]
       /\ acked' = [m \in Messages |-> acked[m] \/ (m \in ms /\ y_msg.code = "piggy")]
       /\ node_state' = [m \in Messages |-> IF m \in ms THEN "INVALID" ELSE node_state[m]]
    /\ y_pc' = "wait" /\ y_msg' = NoPacket
    /\ UNCHANGED <<counters, lock_send_buf, senders, message_list, retrans_count, expired_timers, network>>

(* Mutant: an acknowledged request waits for its response for ever.          *)
DueUnacked == {m \in message_list : node_state[m] = "NORMAL" /\ m \in expired_timers /\ ~acked[m]}

(* PROCESS_WAIT_CMD: what was answered leaves the list, what expired is sent *)
(* again (the write may fail) or given up.                                   *)
Due == {m \in message_list : node_state[m] = "NORMAL" /\ m \in expired_timers}

(* Mutant: one retransmission is missing.                                    *)
RetriesShort == {m \in Due : retrans_count[m] + 1 < max_retry_count /\ ~acked[m]}

(* ... those that are sent again.                                            *)
Retries == {m \in Due : retrans_count[m] < max_retry_count /\ ~acked[m]}

ProcessWait ==
    /\ y_pc = "wait"
    /\ LET lost == Due \ Retries IN
       /\ message_list' = {m \in message_list \ lost : node_state[m] # "INVALID"}
       /\ node_state' = [m \in Messages |-> IF m \in lost THEN "INVALID" ELSE node_state[m]]
       /\ calls' = [m \in Messages |-> IF m \in lost THEN calls[m] + 1 ELSE calls[m]]
       /\ told' = [m \in Messages |-> IF m \notin lost THEN told[m]
                                      ELSE IF acked[m] THEN "SEPRESP_TIMEOUT" ELSE "ACK_TIMEOUT"]
    /\ retrans_count' = [m \in Messages |-> retrans_count[m] + IF m \in Retries THEN 1 ELSE 0]
    /\ expired_timers' = expired_timers \ Due
    /\ \E ms \in SUBSET Retries : toServer' = toServer \cup ms
    /\ y_pc' = "recv"
    /\ UNCHANGED <<counters, lock_send_buf, senders, y_msg, acked, toClient, faults>>

-----------------------------------------------------------------------------
(* The server, the network and time (external). A datagram that is never     *)
(* taken was lost.                                                           *)

Serve(m) ==
    /\ m \in toServer
    /\ toServer' = toServer \ {m}
    /\ IF m \in NeedResp
       THEN \E ty \in {"CON", "NON"} :
              toClient' = toClient \cup {Packet("ACK", "ack", m), Packet(ty, "resp", m)}
       ELSE toClient' = toClient \cup {Packet("ACK", "piggy", m)}
    /\ UNCHANGED <<counters, lock_send_buf, senders, yielder, nodes, faults, history>>

Expire(m) ==
    /\ m \in message_list \ expired_timers
    /\ expired_timers' = expired_timers \cup {m}
    /\ UNCHANGED <<counters, lock_send_buf, senders, yielder, message_list, node_state, acked, retrans_count,
                   network, history>>

SendStep(t) == TakeNumbers(t) \/ Write(t) \/ WriteFails(t) \/ ListAdd(t)
YieldStep == Recv \/ RecvTimeout \/ RecvError \/ SendAck \/ ProcessAck \/ ProcessResponse \/ ProcessWait
Next == \/ \E t \in Senders : SendStep(t)
        \/ YieldStep
        \/ \E m \in Messages : Serve(m) \/ Expire(m)

Spec == Init /\ [][Next]_vars

(* The application keeps calling IOT_COAP_Yield, time passes, and a thread   *)
(* gets on with its call.                                                    *)
FairSpec == /\ Spec
            /\ WF_vars(YieldStep)
            /\ \A t \in Senders : WF_vars(ListAdd(t))
            /\ \A m \in Messages : WF_vars(Expire(m))

-----------------------------------------------------------------------------
(* A request is called back once, by an answer or by a timeout, whatever the *)
(* network duplicates and however late it delivers.                          *)
CallbackOnce == \A m \in Messages : calls[m] <= 1

(* A request that was never acknowledged is given up only after the last     *)
(* retransmission.                                                           *)
GivesUpLate == \A m \in Messages : told[m] = "ACK_TIMEOUT" => retrans_count[m] = max_retry_count

(* Every request that was listed is called back: its answer may come before  *)
(* it is listed, the acknowledgement without the response, and a read may    *)
(* fail, which skips the waiting requests once.                              *)
Settled == \A m \in Messages : m \in message_list ~> calls[m] > 0
=============================================================================
