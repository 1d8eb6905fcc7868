------------------------------ MODULE MqttLocks ------------------------------
(***************************************************************************)
(* The four mutexes of the MQTT client and every way the client nests them: *)
(* requests of application threads (publish, subscribe, unsubscribe,        *)
(* disconnect, a state query), the work of the thread inside               *)
(* qcloud_iot_mqtt_yield, and requests that event and message handlers make *)
(* of the client, some of them while the caller of the handler holds a      *)
(* mutex.                                                                   *)
(*                                                                          *)
(* The tables list, for every function, where a thread takes a mutex, where *)
(* it releases one, and where it goes on without either, as rows            *)
(* <<place, mutex, next place>> and <<place, next place>>; a place with     *)
(* several rows is a branch of the code.  Lists, packets and results are    *)
(* left out.                                                                *)
(***************************************************************************)
EXTENDS Integers, FiniteSets, TLC

CONSTANTS AppThreads,          \* threads that call the client
          LoopThread,          \* the thread inside qcloud_iot_mqtt_yield
          Nobody               \* owner of a free mutex

ASSUME LocksAssumption == /\ LoopThread \notin AppThreads
                          /\ Nobody \notin AppThreads \cup {LoopThread}

Users == AppThreads \cup {LoopThread}
Mutexes == {"write_buf", "generic", "list_sub", "list_pub"}

VARIABLES owner,               \* mutex -> thread that holds it
          place,               \* thread -> place in the function it called
          call                 \* thread -> place in the request made by a handler

locksVars == <<owner, place, call>>

-----------------------------------------------------------------------------
(* Requests.  "out" is the place of a thread outside of the client.          *)

(* qcloud_iot_mqtt_publish: connection state, lock_write_buf, packet id, wait *)
(* list, and the list again when the send failed; QoS0 only sends.           *)
PublishTakes == {<<"p_state", "generic", "p_state_read">>,
                 <<"p_write", "write_buf", "p_id">>,
                 <<"p_write", "write_buf", "p_end">>,
                 <<"p_id", "generic", "p_id_taken">>,
                 <<"p_push", "list_pub", "p_pushed">>,
                 <<"p_remove", "list_pub", "p_removed">>}
PublishGives == {<<"p_state_read", "generic", "p_write">>,
                 <<"p_state_read", "generic", "out">>,
                 <<"p_id_taken", "generic", "p_push">>,
                 <<"p_id_taken", "generic", "p_end">>,
                 <<"p_pushed", "list_pub", "p_send">>,
                 <<"p_pushed", "list_pub", "p_end">>,
                 <<"p_removed", "list_pub", "p_end">>,
                 <<"p_end", "write_buf", "out">>}
PublishMoves == {<<"p_send", "p_end">>, <<"p_send", "p_remove">>}

(* qcloud_iot_mqtt_subscribe, and qcloud_iot_mqtt_unsubscribe after it freed *)
(* the handlers.                                                             *)
SubscribeTakes == {<<"s_state", "generic", "s_state_read">>,
                   <<"s_write", "write_buf", "s_id">>,
                   <<"s_id", "generic", "s_id_taken">>,
                   <<"s_push", "list_sub", "s_pushed">>,
                   <<"s_remove", "list_sub", "s_removed">>}
SubscribeGives == {<<"s_state_read", "generic", "s_write">>,
                   <<"s_state_read", "generic", "out">>,
                   <<"s_id_taken", "generic", "s_push">>,
                   <<"s_id_taken", "generic", "s_end">>,
                   <<"s_pushed", "list_sub", "s_send">>,
                   <<"s_pushed", "list_sub", "s_end">>,
                   <<"s_removed", "list_sub", "s_end">>,
                   <<"s_end", "write_buf", "out">>}
SubscribeMoves == {<<"s_send", "s_end">>, <<"s_send", "s_remove">>}

(* qcloud_iot_mqtt_unsubscribe tells the handlers it frees, under            *)
(* lock_generic.                                                             *)
UnsubscribeTakes == {<<"u_free", "generic", "u_handler">>}

UnsubscribeGives == {<<"u_handler", "generic", "s_state">>,
                     <<"u_handler", "generic", "out">>}

(* IOT_MQTT_IsConnected and IOT_MQTT_IsSubReady.                             *)
QueryTakes == {<<"q_state", "generic", "q_state_read">>}
QueryGives == {<<"q_state_read", "generic", "out">>}

(* qcloud_iot_mqtt_disconnect.                                               *)
DisconnectTakes == {<<"d_state", "generic", "d_state_read">>,
                    <<"d_write", "write_buf", "d_sent">>,
                    <<"d_down", "generic", "d_downed">>}
DisconnectGives == {<<"d_state_read", "generic", "d_write">>,
                    <<"d_state_read", "generic", "out">>,
                    <<"d_sent", "write_buf", "d_down">>,
                    <<"d_sent", "write_buf", "out">>,
                    <<"d_downed", "generic", "out">>}

RequestEntries == {"p_state", "s_state", "u_free", "q_state", "d_state"}

-----------------------------------------------------------------------------
(* The thread inside qcloud_iot_mqtt_yield.  "top" is the head of its loop.  *)

(* The connection state, then a read or an attempt to reconnect.             *)
LoopTakes == {<<"top", "generic", "top_read">>}
LoopGives == {<<"top_read", "generic", "read">>, <<"top_read", "generic", "connect">>}

(* cycle_for_read: nothing to read, an error, or one of the packets.         *)
ReadMoves == {<<"read", to>> : to \in {"pass", "top", "ack_pub", "suback", "suback_nack",
                                      "ack_unsub", "deliver", "puback", "pong",
                                      "lost"}}

(* _handle_puback_packet, _mask_pubInfo_from.                                *)
PubackTakes == {<<"ack_pub", "list_pub", "ack_pub_mark">>}
PubackGives == {<<"ack_pub_mark", "list_pub", "ack_pub_handler">>}
PubackMoves == {<<"ack_pub_handler", "pong">>}

(* _handle_suback_packet: lock_list_sub is taken inside lock_generic.        *)
SubackTakes == {<<"suback", "generic", "suback_find">>,
                <<"suback_find", "list_sub", "suback_mark">>}
SubackGives == {<<"suback_mark", "list_sub", "suback_install">>,
                <<"suback_install", "generic", "suback_handler">>,
                <<"suback_install", "generic", "pong">>}
SubackMoves == {<<"suback_nack", "suback">>, <<"suback_handler", "pong">>}

(* _handle_unsuback_packet tells UNSUBCRIBE_SUCCESS under lock_generic.      *)
UnsubackTakes == {<<"ack_unsub", "list_sub", "ack_unsub_mark">>,
                  <<"ack_unsub_free", "generic", "ack_unsub_handler">>}
UnsubackGives == {<<"ack_unsub_mark", "list_sub", "ack_unsub_free">>,
                  <<"ack_unsub_handler", "generic", "pong">>}

(* _handle_publish_packet: the handler runs with lock_generic released and   *)
(* the search for further handlers takes it again; then the PUBACK.          *)
DeliverTakes == {<<"deliver", "generic", "deliver_find">>,
                 <<"puback", "write_buf", "puback_sent">>}
DeliverGives == {<<"deliver_find", "generic", "deliver_handler">>,
                 <<"deliver_find", "generic", "deliver_default">>,
                 <<"puback_sent", "write_buf", "pong">>}
DeliverMoves == {<<"deliver_handler", "puback">>, <<"deliver_handler", "pong">>,
                 <<"deliver_default", "puback">>, <<"deliver_default", "pong">>}

(* The end of cycle_for_read: is_ping_outstanding; the result of the handler *)
(* may end the loop.                                                         *)
PongTakes == {<<"pong", "generic", "pong_reset">>}
PongGives == {<<"pong_reset", "generic", "pass">>, <<"pong_reset", "generic", "top">>}

(* Mutant: a publish that timed out is sent again in the middle of the pass. *)
PubPassTakesResends == {<<"pass", "list_pub", "pass_pub">>,
                        <<"pass_pub", "write_buf", "pub_handler">>}

(* qcloud_iot_mqtt_pub_info_proc: the mutex is released and taken again      *)
(* before the handler runs with it held.                                     *)
PubPassTakes == {<<"pass", "list_pub", "pass_pub">>,
                 <<"pass_window", "list_pub", "pub_handler">>}
PubPassGives == {<<"pass_pub", "list_pub", "pass_window">>,
                 <<"pass_pub", "list_pub", "pass_next">>}
PubPassMoves == {<<"pub_handler", "pass_pub">>}

(* qcloud_iot_mqtt_sub_info_proc: handlers run under lock_list_sub.          *)
SubPassTakes == {<<"pass_next", "list_sub", "pass_sub">>}
SubPassGives == {<<"pass_sub", "list_sub", "alive">>}
SubPassMoves == {<<"pass_sub", "sub_handler">>, <<"sub_handler", "pass_sub">>}

(* _mqtt_keep_alive.                                                         *)
PingTakes == {<<"ping", "write_buf", "ping_sent">>,
              <<"ping_count", "generic", "ping_counted">>}
PingGives == {<<"ping_sent", "write_buf", "ping_count">>,
              <<"ping_sent", "write_buf", "lost">>,
              <<"ping_counted", "generic", "top">>}
PingMoves == {<<"alive", "top">>, <<"alive", "ping">>, <<"alive", "lost">>}

(* _handle_disconnect, which calls qcloud_iot_mqtt_disconnect, and its event. *)
LostTakes == {<<"lost", "generic", "lost_read">>,
              <<"lost_write", "write_buf", "lost_sent">>,
              <<"lost_down", "generic", "lost_downed">>}
LostGives == {<<"lost_read", "generic", "lost_write">>,
              <<"lost_read", "generic", "top">>,
              <<"lost_sent", "write_buf", "lost_down">>,
              <<"lost_downed", "generic", "lost_handler">>}
LostMoves == {<<"lost_handler", "top">>}

(* _handle_reconnect: CONNECT, the state, then one subscribe per handler.     *)
(* Packets read while it waits for CONNACK nest mutexes as they do above.    *)
ConnectTakes == {<<"connect", "write_buf", "connect_sent">>,
                 <<"connect_up", "generic", "connect_upped">>}
ConnectGives == {<<"connect_sent", "write_buf", "connect_up">>,
                 <<"connect_sent", "write_buf", "top">>,
                 <<"connect_upped", "generic", "resubscribe">>}
ConnectMoves == {<<"connect", "top">>, <<"connect_up", "top">>, <<"resubscribe", "top">>}

-----------------------------------------------------------------------------
Takes == PublishTakes \cup SubscribeTakes \cup UnsubscribeTakes \cup QueryTakes
         \cup DisconnectTakes \cup LoopTakes \cup PubackTakes \cup SubackTakes
         \cup UnsubackTakes \cup DeliverTakes \cup PongTakes \cup PubPassTakes
         \cup SubPassTakes \cup PingTakes \cup LostTakes \cup ConnectTakes
Gives == PublishGives \cup SubscribeGives \cup UnsubscribeGives \cup QueryGives
         \cup DisconnectGives \cup LoopGives \cup PubackGives \cup SubackGives
         \cup UnsubackGives \cup DeliverGives \cup PongGives \cup PubPassGives
         \cup SubPassGives \cup PingGives \cup LostGives \cup ConnectGives
Moves == PublishMoves \cup SubscribeMoves \cup ReadMoves \cup PubackMoves
         \cup SubackMoves \cup DeliverMoves \cup PubPassMoves \cup SubPassMoves
         \cup PingMoves \cup LostMoves \cup ConnectMoves

(* Where the client calls code that may make a request: the event, message   *)
(* and subscription handlers, and resubscribe.                               *)
HandlerPlaces == {"u_handler", "ack_pub_handler", "suback_nack", "suback_handler",
                  "ack_unsub_handler", "deliver_handler", "deliver_default",
                  "pub_handler", "sub_handler", "lost_handler", "resubscribe"}

LocksInit == /\ owner = [m \in Mutexes |-> Nobody]
             /\ place = [t \in Users |-> IF t = LoopThread THEN "top" ELSE "out"]
             /\ call = [t \in Users |-> "out"]

(* An application thread enters the client.                                  *)
Enter(t) == /\ t \in AppThreads /\ place[t] = "out"
            /\ \E e \in RequestEntries : place' = [place EXCEPT ![t] = e]
            /\ UNCHANGED <<owner, call>>

(* A handler makes a request, one at a time; a request of a handler that      *)
(* unsubscribe runs for it makes no further one (bound).                     *)
Nest(t) == /\ place[t] \in HandlerPlaces /\ call[t] = "out"
           /\ \E e \in RequestEntries : call' = [call EXCEPT ![t] = e]
           /\ UNCHANGED <<owner, place>>

(* A step from one place to another, in the request of the handler if there  *)
(* is one, else in the function itself.                                      *)
Goes(t, from, to) == \/ /\ call[t] # "out" /\ call[t] = from
                        /\ call' = [call EXCEPT ![t] = to] /\ UNCHANGED place
                     \/ /\ call[t] = "out" /\ place[t] = from
                        /\ place' = [place EXCEPT ![t] = to] /\ UNCHANGED call

(* HAL_MutexLock: waits until the mutex is free, also when its owner waits.  *)
Take(t) == \E r \in Takes : /\ owner[r[2]] = Nobody
                            /\ Goes(t, r[1], r[3])
                            /\ owner' = [owner EXCEPT ![r[2]] = t]

(* HAL_MutexUnlock.                                                          *)
Give(t) == \E r \in Gives : /\ Goes(t, r[1], r[3])
                            /\ owner' = [owner EXCEPT ![r[2]] = Nobody]

Move(t) == \E r \in Moves : Goes(t, r[1], r[2]) /\ UNCHANGED owner

LocksNext == \E t \in Users : Enter(t) \/ Nest(t) \/ Take(t) \/ Give(t) \/ Move(t)

LocksSpec == LocksInit /\ [][LocksNext]_locksVars

-----------------------------------------------------------------------------
(* Properties.                                                               *)

(* Where t is, the request of a handler before the function around it.       *)
At(t) == IF call[t] = "out" THEN place[t] ELSE call[t]

(* t waits for a mutex that some thread of D holds, maybe itself.            *)
WaitsIn(t, D) == \E r \in Takes : r[1] = At(t) /\ owner[r[2]] \in D

(* A handler of t makes a request under the mutex its caller holds.          *)
HandlersUnderMutex == {"u_handler", "ack_unsub_handler", "pub_handler", "sub_handler"}
Reenters(t) == place[t] \in HandlersUnderMutex /\ call[t] # "out"

(* The client never locks up by itself: among threads that wait for each     *)
(* other in a circle there is one whose handler made a request while the     *)
(* client held a mutex for it (the report of a timeout, of UNSUBSCRIBE or of *)
(* UNSUBCRIBE_SUCCESS).  Requests from all other handlers and from any       *)
(* number of threads nest the four mutexes in one order.                     *)
NoLockCycle ==
    \A D \in SUBSET Users :
        D # {} /\ (\A t \in D : WaitsIn(t, D)) => \E t \in D : Reenters(t)
=============================================================================
