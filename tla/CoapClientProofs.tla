-------------------------- MODULE CoapClientProofs --------------------------
(* Safety of the CoAP client for any number of sending threads, requests,    *)
(* retransmissions and faults of the network.                                *)
(*                                                                           *)
(* CallbackOnce is not inductive: nothing in PROCESS_RESP_CMD looks at the   *)
(* state of the node it calls back. CallInv ties the number of calls to that *)
(* state, and says that the answered nodes are out of the list before the    *)
(* next datagram is handled. SendInv keeps a request out of both until its   *)
(* sender has listed it.                                                     *)
EXTENDS CoapClient, TLAPS

Codes == {"ack", "resp", "piggy"}
Made  == 1..made

TypeOK ==
    /\ next_msg_id \in Nat /\ message_token \in Nat
    /\ lock_send_buf \in Senders \cup {NoThread}
    /\ message_list \subseteq Messages
    /\ pc \in [Senders -> {"idle", "write", "add"}]
    /\ cur \in [Senders -> Messages \cup {None}]
    /\ made \in 0..MaxMessages
    /\ y_pc \in {"recv", "ack", "process", "wait"}
    /\ msg_id \in [Messages -> Nat] /\ token \in [Messages -> Nat]
    /\ node_state \in [Messages -> {"NORMAL", "INVALID"}]
    /\ acked \in [Messages -> BOOLEAN]
    /\ retrans_count \in [Messages -> 0..max_retry_count]
    /\ expired_timers \subseteq Messages
    /\ faults \in Nat
    /\ calls \in [Messages -> Nat]
    /\ told \in [Messages -> {"nothing", "answer", "SEPRESP_TIMEOUT", "ACK_TIMEOUT"}]

(* A request is called back exactly when its node is marked; outside the     *)
(* pass over the waiting requests no marked node is listed.                  *)
CallInv ==
    /\ \A m \in Messages : calls[m] = IF node_state[m] = "NORMAL" THEN 0 ELSE 1
    /\ y_pc # "wait" => \A m \in message_list : node_state[m] = "NORMAL"

(* A request in the hands of its sender is its alone, new and not listed.    *)
SendInv ==
    /\ message_list \subseteq Made
    /\ \A m \in Messages \ Made : node_state[m] = "NORMAL"
    /\ \A t \in Senders : pc[t] # "idle" =>
          /\ cur[t] \in Made \ message_list
          /\ node_state[cur[t]] = "NORMAL"
          /\ \A u \in Senders : pc[u] # "idle" /\ cur[u] = cur[t] => u = t

(* Who was told of a timeout has used up its retransmissions.                *)
GiveUpInv ==
    \A m \in Messages : told[m] = "ACK_TIMEOUT"
        => node_state[m] = "INVALID" /\ retrans_count[m] = max_retry_count

IInv == TypeOK /\ CallInv /\ SendInv /\ GiveUpInv

USE CoapAssumption

(* A sender draws the numbers of a new request, perhaps those of another one.*)
LEMMA TakeNumbersStep ==
  ASSUME NEW t \in Senders, IInv, TakeNumbers(t) PROVE IInv'
<1> USE DEF IInv, counters, senders, yielder, nodes, network, history
<1>1. TypeOK'
  <2>1. made + 1 \in Messages /\ made' = made + 1
    BY DEF TakeNumbers, TypeOK, Messages
  <2> DEFINE racing == {cur[u] : u \in {u \in Senders \ {t} : pc[u] = "write"}}
  <2>2. racing \subseteq Messages
    BY DEF TypeOK, Messages, SendInv, Made
  <2>3. get_next_coap_msg_id \in Nat
    BY DEF get_next_coap_msg_id, TypeOK
  <2>4. /\ \/ /\ next_msg_id' = get_next_coap_msg_id
              /\ msg_id' = [msg_id EXCEPT ![made + 1] = get_next_coap_msg_id]
           \/ \E r \in racing : msg_id' = [msg_id EXCEPT ![made + 1] = msg_id[r]] /\ UNCHANGED next_msg_id
        /\ \/ /\ message_token' = message_token + 1
              /\ token' = [token EXCEPT ![made + 1] = message_token]
           \/ \E r \in racing : token' = [token EXCEPT ![made + 1] = token[r]] /\ UNCHANGED message_token
    BY DEF TakeNumbers
  <2>5. next_msg_id' \in Nat /\ msg_id' \in [Messages -> Nat]
    <3> HIDE DEF racing
    <3> QED
      BY <2>1, <2>2, <2>3, <2>4 DEF TypeOK
  <2>6. message_token' \in Nat /\ token' \in [Messages -> Nat]
    <3> HIDE DEF racing
    <3> QED
      BY <2>1, <2>2, <2>4 DEF TypeOK
  <2>7. /\ pc' = [pc EXCEPT ![t] = "write"] /\ cur' = [cur EXCEPT ![t] = made + 1]
        /\ UNCHANGED <<lock_send_buf, yielder, nodes, network, history>>
    BY DEF TakeNumbers
  <2>8. made' \in 0..MaxMessages
    BY <2>1 DEF Messages
  <2> QED
    BY <2>1, <2>5, <2>6, <2>7, <2>8 DEF TypeOK
<1>2. CallInv'
  BY DEF TakeNumbers, get_next_coap_msg_id, TypeOK, CallInv, SendInv
<1>3. SendInv'
  BY DEF TakeNumbers, get_next_coap_msg_id, TypeOK, SendInv, Made, Messages
<1>4. GiveUpInv'
  BY DEF TakeNumbers, get_next_coap_msg_id, TypeOK, GiveUpInv
<1> QED
  BY <1>1, <1>2, <1>3, <1>4

(* The datagram goes out; the request is not listed yet.                     *)
LEMMA WriteStep ==
  ASSUME NEW t \in Senders, IInv, Write(t) PROVE IInv'
<1> USE DEF IInv, counters, senders, yielder, nodes, network, history
<1>1. TypeOK'
  BY DEF Write, TypeOK, Messages, None
<1>2. CallInv'
  BY DEF Write, TypeOK, CallInv, SendInv
<1>3. SendInv'
  BY DEF Write, TypeOK, SendInv, Made, Messages
<1>4. GiveUpInv'
  BY DEF Write, TypeOK, GiveUpInv
<1> QED
  BY <1>1, <1>2, <1>3, <1>4

(* A request that was not written is forgotten.                              *)
LEMMA WriteFailsStep ==
  ASSUME NEW t \in Senders, IInv, WriteFails(t) PROVE IInv'
<1> USE DEF IInv, counters, senders, yielder, nodes, network, history
<1>1. TypeOK'
  BY DEF WriteFails, TypeOK, Messages, None
<1>2. CallInv'
  BY DEF WriteFails, TypeOK, CallInv, SendInv
<1>3. SendInv'
  BY DEF WriteFails, TypeOK, SendInv, Made, Messages
<1>4. GiveUpInv'
  BY DEF WriteFails, TypeOK, GiveUpInv
<1> QED
  BY <1>1, <1>2, <1>3, <1>4

(* The request is listed, perhaps after its answer was handled.              *)
LEMMA ListAddStep ==
  ASSUME NEW t \in Senders, IInv, ListAdd(t) PROVE IInv'
<1> USE DEF IInv, counters, senders, yielder, nodes, network, history
<1>1. TypeOK'
  <2>1. cur[t] \in Messages
    BY DEF ListAdd, TypeOK, SendInv, Made, Messages
  <2>2. message_list' \subseteq Messages
    BY <2>1 DEF ListAdd, TypeOK
  <2>3. cur' \in [Senders -> Messages \cup {None}] /\ pc' \in [Senders -> {"idle", "write", "add"}]
    BY DEF ListAdd, TypeOK
  <2> QED
    BY <2>2, <2>3 DEF ListAdd, TypeOK
<1>2. CallInv'
  BY DEF ListAdd, TypeOK, CallInv, SendInv
<1>3. SendInv'
  <2>1. /\ cur[t] \in Made \ message_list /\ pc'[t] = "idle"
        /\ \A u \in Senders : u # t => pc'[u] = pc[u] /\ cur'[u] = cur[u]
    BY DEF ListAdd, TypeOK, SendInv
  <2>2. Made' = Made /\ node_state' = node_state /\ message_list' = message_list \cup {cur[t]}
    BY DEF ListAdd, Made
  <2>3. \A u \in Senders : pc'[u] # "idle" => u # t /\ pc[u] # "idle" /\ cur'[u] = cur[u]
    BY <2>1
  <2>4. \A u \in Senders : pc[u] # "idle" /\ u # t => cur[u] # cur[t]
    BY DEF ListAdd, SendInv
  <2> QED
    BY <2>1, <2>2, <2>3, <2>4 DEF SendInv
<1>4. GiveUpInv'
  BY DEF ListAdd, TypeOK, GiveUpInv
<1> QED
  BY <1>1, <1>2, <1>3, <1>4

(* A datagram comes in, or a copy of one.                                    *)
LEMMA RecvStep ==
  ASSUME IInv, Recv PROVE IInv'
<1> USE DEF IInv, counters, senders, yielder, nodes, network, history
<1>1. TypeOK'
  <2>1. y_pc' \in {"recv", "ack", "process", "wait"} /\ faults' \in Nat
    BY DEF Recv, TypeOK
  <2> QED
    BY <2>1 DEF Recv, TypeOK
<1>2. CallInv'
  BY DEF Recv, TypeOK, CallInv, SendInv
<1>3. SendInv'
  BY DEF Recv, TypeOK, SendInv, Made, Messages
<1>4. GiveUpInv'
  BY DEF Recv, TypeOK, GiveUpInv
<1> QED
  BY <1>1, <1>2, <1>3, <1>4

(* No datagram: on to the waiting requests.                                  *)
LEMMA RecvTimeoutStep ==
  ASSUME IInv, RecvTimeout PROVE IInv'
<1> USE DEF IInv, counters, senders, yielder, nodes, network, history
<1>1. TypeOK'
  BY DEF RecvTimeout, TypeOK, Messages, None
<1>2. CallInv'
  BY DEF RecvTimeout, TypeOK, CallInv, SendInv
<1>3. SendInv'
  BY DEF RecvTimeout, TypeOK, SendInv, Made, Messages
<1>4. GiveUpInv'
  BY DEF RecvTimeout, TypeOK, GiveUpInv
<1> QED
  BY <1>1, <1>2, <1>3, <1>4

(* A failed read ends the call of IOT_COAP_Yield.                            *)
LEMMA RecvErrorStep ==
  ASSUME IInv, RecvError PROVE IInv'
<1> USE DEF IInv, counters, senders, yielder, nodes, network, history
<1>1. TypeOK'
  BY SMTT(30) DEF RecvError, TypeOK, Messages, None
<1>2. CallInv'
  BY DEF RecvError, TypeOK, CallInv, SendInv
<1>3. SendInv'
  BY DEF RecvError, TypeOK, SendInv, Made, Messages
<1>4. GiveUpInv'
  BY DEF RecvError, TypeOK, GiveUpInv
<1> QED
  BY <1>1, <1>2, <1>3, <1>4

(* A confirmable response is acknowledged.                                   *)
LEMMA SendAckStep ==
  ASSUME IInv, SendAck PROVE IInv'
<1> USE DEF IInv, counters, senders, yielder, nodes, network, history
<1>1. TypeOK'
  BY DEF SendAck, TypeOK, Messages, None
<1>2. CallInv'
  BY DEF SendAck, TypeOK, CallInv, SendInv
<1>3. SendInv'
  BY DEF SendAck, TypeOK, SendInv, Made, Messages
<1>4. GiveUpInv'
  BY DEF SendAck, TypeOK, GiveUpInv
<1> QED
  BY <1>1, <1>2, <1>3, <1>4

(* PROCESS_ACK_CMD calls nobody back.                                        *)
LEMMA ProcessAckStep ==
  ASSUME IInv, ProcessAck PROVE IInv'
<1> USE DEF IInv, counters, senders, yielder, nodes, network, history
<1>1. TypeOK'
  BY DEF ProcessAck, TypeOK, Messages, None
<1>2. CallInv'
  BY DEF ProcessAck, TypeOK, CallInv, SendInv
<1>3. SendInv'
  BY DEF ProcessAck, TypeOK, SendInv, Made, Messages
<1>4. GiveUpInv'
  BY DEF ProcessAck, TypeOK, GiveUpInv
<1> QED
  BY <1>1, <1>2, <1>3, <1>4

(* PROCESS_RESP_CMD, PROCESS_PIGGY_CMD: what is listed was not called before.*)
LEMMA ProcessResponseStep ==
  ASSUME IInv, ProcessResponse PROVE IInv'
<1> USE DEF IInv, counters, senders, yielder, nodes, network, history
<1>1. TypeOK'
  <2>3. calls' \in [Messages -> Nat]
    BY DEF ProcessResponse, TypeOK
  <2>4. acked' \in [Messages -> BOOLEAN]
    BY DEF ProcessResponse, TypeOK
  <2>5. told' \in [Messages -> {"nothing", "answer", "SEPRESP_TIMEOUT", "ACK_TIMEOUT"}]
    BY DEF ProcessResponse, TypeOK
  <2>6. node_state' \in [Messages -> {"NORMAL", "INVALID"}]
    BY DEF ProcessResponse, TypeOK
  <2> QED
    BY <2>3, <2>4, <2>5, <2>6 DEF ProcessResponse, TypeOK
<1>2. CallInv'
  BY DEF ProcessResponse, Answered, TypeOK, CallInv, SendInv
<1>3. SendInv'
  BY DEF ProcessResponse, Answered, TypeOK, SendInv, Made, Messages
<1>4. GiveUpInv'
  BY DEF ProcessResponse, Answered, TypeOK, GiveUpInv
<1> QED
  BY <1>1, <1>2, <1>3, <1>4

(* PROCESS_WAIT_CMD removes, repeats and gives up.                           *)
LEMMA ProcessWaitStep ==
  ASSUME IInv, ProcessWait PROVE IInv'
<1> USE DEF IInv, counters, senders, yielder, nodes, network, history
<1>1. TypeOK'
  <2>1. retrans_count' \in [Messages -> 0..max_retry_count]
    BY DEF ProcessWait, Retries, Due, TypeOK
  <2>2. calls' \in [Messages -> Nat]
    BY DEF ProcessWait, TypeOK
  <2>3. told' \in [Messages -> {"nothing", "answer", "SEPRESP_TIMEOUT", "ACK_TIMEOUT"}]
    BY DEF ProcessWait, TypeOK
  <2>4. node_state' \in [Messages -> {"NORMAL", "INVALID"}]
    BY DEF ProcessWait, TypeOK
  <2>5. message_list' \subseteq Messages /\ expired_timers' \subseteq Messages
    BY DEF ProcessWait, TypeOK
  <2> QED
    BY <2>1, <2>2, <2>3, <2>4, <2>5 DEF ProcessWait, TypeOK
<1>2. CallInv'
  BY DEF ProcessWait, Due, Retries, TypeOK, CallInv, SendInv
<1>3. SendInv'
  <2>1. /\ message_list' \subseteq message_list
        /\ UNCHANGED <<pc, cur, made>>
        /\ node_state' = [m \in Messages |-> IF m \in Due \ Retries THEN "INVALID" ELSE node_state[m]]
    BY DEF ProcessWait
  <2>2. Due \subseteq message_list
    BY DEF Due
  <2> QED
    BY <2>1, <2>2 DEF TypeOK, SendInv, Made, Messages
<1>4. GiveUpInv'
  BY DEF ProcessWait, Due, Retries, TypeOK, GiveUpInv
<1> QED
  BY <1>1, <1>2, <1>3, <1>4

(* The server answers a request that was made.                               *)
LEMMA ServeStep ==
  ASSUME NEW m \in Messages, IInv, Serve(m) PROVE IInv'
<1> USE DEF IInv, counters, senders, yielder, nodes, network, history
<1>1. TypeOK'
  BY DEF Serve, Packet, TypeOK, Messages, None
<1>2. CallInv'
  BY DEF Serve, Packet, TypeOK, CallInv, SendInv
<1>3. SendInv'
  BY DEF Serve, Packet, TypeOK, SendInv, Made, Messages
<1>4. GiveUpInv'
  BY DEF Serve, Packet, TypeOK, GiveUpInv
<1> QED
  BY <1>1, <1>2, <1>3, <1>4

(* The timer of a waiting request ends.                                      *)
LEMMA ExpireStep ==
  ASSUME NEW m \in Messages, IInv, Expire(m) PROVE IInv'
<1> USE DEF IInv, counters, senders, yielder, nodes, network, history
<1>1. TypeOK'
  BY DEF Expire, TypeOK, Messages, None
<1>2. CallInv'
  BY DEF Expire, TypeOK, CallInv, SendInv
<1>3. SendInv'
  BY DEF Expire, TypeOK, SendInv, Made, Messages
<1>4. GiveUpInv'
  BY DEF Expire, TypeOK, GiveUpInv
<1> QED
  BY <1>1, <1>2, <1>3, <1>4

(* Init establishes the invariant.                                           *)
LEMMA InitInv == Init => IInv
<1> SUFFICES ASSUME Init PROVE IInv
  OBVIOUS
<1>1. acked \in [Messages -> BOOLEAN]
  BY DEF Init
<1>2. TypeOK
  BY <1>1 DEF Init, TypeOK, Messages, None
<1>3. CallInv /\ SendInv /\ GiveUpInv
  BY DEF Init, CallInv, SendInv, GiveUpInv, Made, Messages, None
<1> QED
  BY <1>2, <1>3 DEF IInv

(* A step that changes nothing keeps the invariant.                          *)
LEMMA Stutter == ASSUME IInv, UNCHANGED vars PROVE IInv'
  BY DEF IInv, TypeOK, CallInv, SendInv, GiveUpInv, Made,
         vars, counters, senders, yielder, nodes, network, history

(* The invariant holds in every reachable state.                             *)
THEOREM Invariance == Spec => []IInv
<1>1. IInv /\ [Next]_vars => IInv'
  <2> SUFFICES ASSUME IInv, [Next]_vars PROVE IInv'
    OBVIOUS
  <2>1. ASSUME NEW t \in Senders, SendStep(t) PROVE IInv'
    BY <2>1, TakeNumbersStep, WriteStep, WriteFailsStep, ListAddStep DEF SendStep
  <2>2. CASE YieldStep
    BY <2>2, RecvStep, RecvTimeoutStep, RecvErrorStep, SendAckStep, ProcessAckStep,
       ProcessResponseStep, ProcessWaitStep DEF YieldStep
  <2>3. ASSUME NEW m \in Messages, Serve(m) \/ Expire(m) PROVE IInv'
    BY <2>3, ServeStep, ExpireStep
  <2>4. CASE UNCHANGED vars
    BY <2>4, Stutter
  <2> QED
    BY <2>1, <2>2, <2>3, <2>4 DEF Next
<1> QED
  BY <1>1, InitInv, PTL DEF Spec

(* The callback of IOT_COAP_SendMessage is called at most once per request,  *)
(* whatever the network duplicates, delays or loses.                         *)
THEOREM CalledBackOnce == Spec => []CallbackOnce
<1>1. IInv => CallbackOnce
  BY DEF IInv, TypeOK, CallInv, CallbackOnce
<1> QED
  BY <1>1, Invariance, PTL

(* An unacknowledged request is given up only after max_retry_count          *)
(* retransmissions.                                                          *)
THEOREM GivenUpLate == Spec => []GivesUpLate
<1>1. IInv => GivesUpLate
  BY DEF IInv, GiveUpInv, GivesUpLate
<1> QED
  BY <1>1, Invariance, PTL
=============================================================================
