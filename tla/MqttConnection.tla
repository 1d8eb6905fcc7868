-------------------------- MODULE MqttConnection --------------------------
(***************************************************************************)
(* The life of the connection: the yield thread that reads, pings, notices *)
(* a dead link, disconnects and reconnects with a doubling delay; the loop  *)
(* thread around it (IOT_MQTT_StartLoop, IOT_MQTT_StopLoop,                 *)
(* IOT_MQTT_SetLoopStatus) or an application thread in IOT_MQTT_Yield;      *)
(* application threads that write to the same connection.                   *)
(*                                                                          *)
(* y_pc is the place of the thread that is inside the loop or in yield;     *)
(* timers are flags that time sets and the code clears when it restarts     *)
(* them.  Nothing keeps a second thread out, and two of them work on the    *)
(* client without a mutex: a behaviour ends with the call that lets a       *)
(* second one in ("two_yields").                                            *)
(***************************************************************************)
EXTENDS Integers, FiniteSets, TLC

CONSTANTS Writers,                      \* application threads that publish or subscribe
          NoThread,
          InitialIntervals,             \* what _get_random_interval returns
          MAX_RECONNECT_WAIT_INTERVAL,
          MQTT_PING_RETRY_TIMES,
          MaxLinkChanges                \* bound: changes of the link in a behaviour

ASSUME ConnThreadsAssumption == NoThread \notin Writers
ASSUME ConnBoundsAssumption ==
    /\ MAX_RECONNECT_WAIT_INTERVAL \in Nat /\ MQTT_PING_RETRY_TIMES \in Nat \ {0}
    /\ MaxLinkChanges \in Nat
    /\ InitialIntervals \subseteq 1 .. MAX_RECONNECT_WAIT_INTERVAL

VARIABLES is_connected, was_manually_disconnected,
          auto_connect_enable,               \* an option, constant in a behaviour
          current_reconnect_wait_interval,
          delay_expired,                     \* reconnect_delay_timer
          is_ping_outstanding, ping_expired, \* ping_timer
          lock_write_buf,
          y_pc, rc,                          \* the yield thread and its return code
          thread_running, thread_exit_code,
          m_pc,                              \* "yielding": the yield thread is in IOT_MQTT_Yield
          w_pc,                              \* a writer
          link, changes,                     \* the network and how often it changed
          event,                             \* history: last of DISCONNECT and RECONNECT
          attempts,                          \* history: failed attempts since the connection was lost
          faults                             \* history: FaultKinds that happened

FaultKinds == {"resub_failed",    \* a reconnect succeeded, its resubscription failed,
                                  \* and the connection has not been lost since
               "two_yields"}      \* two threads are inside the loop or in yield

conn   == <<is_connected, was_manually_disconnected, event>>
delay  == <<current_reconnect_wait_interval, delay_expired, attempts>>
ping   == <<is_ping_outstanding, ping_expired>>
thread == <<thread_running, thread_exit_code, m_pc>>
writer == <<lock_write_buf, w_pc>>
env    == <<link, changes, auto_connect_enable>>
vars   == <<conn, delay, ping, y_pc, rc, thread, writer, env, faults>>

Init == /\ is_connected = TRUE /\ was_manually_disconnected = 0
        /\ auto_connect_enable \in {0, 1}
        /\ current_reconnect_wait_interval = 0 /\ delay_expired = TRUE /\ attempts = 0
        /\ is_ping_outstanding = 0 /\ ping_expired = FALSE
        /\ event = "RECONNECT"
        /\ lock_write_buf = NoThread
        /\ y_pc = "thread" /\ rc = "SUCCESS"
        /\ thread_running = TRUE /\ thread_exit_code = "SUCCESS"
        /\ m_pc = "idle"
        /\ w_pc = [t \in Writers |-> "idle"]
        /\ link = "up" /\ changes = 0
        /\ faults = {}

Goto(pc) == y_pc' = pc /\ UNCHANGED rc
GotoRc(pc, code) == y_pc' = pc /\ rc' = code

-----------------------------------------------------------------------------
(* qcloud_iot_mqtt_yield: entry, loop head, return.                          *)

Enter == IF is_connected \/ (was_manually_disconnected = 0 /\ auto_connect_enable = 1)
         THEN GotoRc("first", "SUCCESS")
         ELSE GotoRc("returned", IF was_manually_disconnected = 1
                                 THEN "MANUALLY_DISCONNECTED" ELSE "NO_CONN")
YieldEnter == /\ y_pc = "thread" /\ thread_running
              /\ Enter
              /\ UNCHANGED <<conn, delay, ping, thread, writer, env, faults>>

(* The loop runs at least once: its timer has just been started ("first").   *)
AtHead == y_pc \in {"first", "loop"}
LoopExpired == /\ y_pc = "loop"
               /\ Goto("returned")
               /\ UNCHANGED <<conn, delay, ping, thread, writer, env, faults>>

(* Not connected: give up, wait, or attempt.                                 *)
LoopGiveUp == /\ AtHead /\ ~is_connected
              /\ current_reconnect_wait_interval > MAX_RECONNECT_WAIT_INTERVAL
              /\ GotoRc("returned", "RECONNECT_TIMEOUT")
              /\ UNCHANGED <<conn, delay, ping, thread, writer, env, faults>>
LoopWait == /\ AtHead /\ ~is_connected
            /\ current_reconnect_wait_interval <= MAX_RECONNECT_WAIT_INTERVAL
            /\ ~delay_expired
            /\ GotoRc("loop", "ATTEMPTING_RECONNECT")
            /\ UNCHANGED <<conn, delay, ping, thread, writer, env, faults>>
LoopAttempt == /\ AtHead /\ ~is_connected
               /\ current_reconnect_wait_interval <= MAX_RECONNECT_WAIT_INTERVAL
               /\ delay_expired
               /\ Goto("connect")
               /\ UNCHANGED <<conn, delay, ping, thread, writer, env, faults>>

(* _mqtt_yield_thread after a return of yield: go on, or end the thread with *)
(* its own rc, which nothing assigned (the loop declares another one).       *)
EndThread == /\ thread_running' = FALSE
             /\ thread_exit_code' = "SUCCESS"
             /\ y_pc' = "dead"
             /\ UNCHANGED rc
ThreadReturned ==
    /\ y_pc = "returned" /\ m_pc # "yielding"
    /\ IF rc \in {"MANUALLY_DISCONNECTED", "RECONNECT_TIMEOUT"}
       THEN EndThread
       ELSE Goto("thread") /\ UNCHANGED <<thread_running, thread_exit_code>>
    /\ UNCHANGED <<conn, delay, ping, m_pc, writer, env, faults>>
ThreadStopped == /\ y_pc = "thread" /\ ~thread_running
                 /\ EndThread
                 /\ UNCHANGED <<conn, delay, ping, m_pc, writer, env, faults>>

-----------------------------------------------------------------------------
(* Connected: cycle_for_read, the timeout passes, keep alive.                *)

(* A PUBACK, SUBACK, UNSUBACK or PINGRESP restarts the ping timer, a PUBLISH *)
(* only shows that the link works.  Handling may fail (SUBACK refused).      *)
Receive(kind) == /\ is_ping_outstanding' = 0
                 /\ ping_expired' = IF kind = "ack" THEN FALSE ELSE ping_expired
LoopRead == /\ AtHead /\ is_connected
            /\ link = "up"
            /\ \E kind \in {"ack", "publish"}, ok \in BOOLEAN :
                  /\ Receive(kind)
                  /\ IF ok THEN Goto("keep_alive") ELSE GotoRc("returned", "ERROR")
            /\ UNCHANGED <<conn, delay, thread, writer, env, faults>>
LoopReadNothing == /\ AtHead /\ is_connected
                   /\ link \in {"up", "silent"}
                   /\ Goto("keep_alive")
                   /\ UNCHANGED <<conn, delay, ping, thread, writer, env, faults>>
LoopReadInvalid == /\ AtHead /\ is_connected
                   /\ link = "up"
                   /\ GotoRc("returned", "ERROR")
                   /\ UNCHANGED <<conn, delay, ping, thread, writer, env, faults>>
LoopReadFails == /\ AtHead /\ is_connected
                 /\ link = "down"
                 /\ Goto("disc_send")
                 /\ UNCHANGED <<conn, delay, ping, thread, writer, env, faults>>

(* _mqtt_keep_alive                                                          *)
KeepAliveIdle == /\ y_pc = "keep_alive" /\ ~ping_expired
                 /\ GotoRc("loop", "SUCCESS")
                 /\ UNCHANGED <<conn, delay, ping, thread, writer, env, faults>>

(* Mutant: pings that stay unanswered are only counted anew.                 *)
KeepAliveGiveUpNever == /\ y_pc = "keep_alive" /\ ping_expired
                        /\ is_ping_outstanding >= MQTT_PING_RETRY_TIMES
                        /\ is_ping_outstanding' = 0 /\ ping_expired' = FALSE
                        /\ Goto("loop")
                        /\ UNCHANGED <<conn, delay, thread, writer, env, faults>>

KeepAliveGiveUp == /\ y_pc = "keep_alive" /\ ping_expired
                   /\ is_ping_outstanding >= MQTT_PING_RETRY_TIMES
                   /\ Goto("disc_send")
                   /\ UNCHANGED <<conn, delay, ping, thread, writer, env, faults>>

PingBody == /\ \/ /\ link # "down"
                  /\ is_ping_outstanding' = is_ping_outstanding + 1
                  /\ ping_expired' = FALSE
                  /\ GotoRc("loop", "SUCCESS")
               \/ Goto("disc_send") /\ UNCHANGED ping
            /\ UNCHANGED <<conn, delay, thread, writer, env, faults>>

(* Mutant: pings are sent without a limit on the ones not answered.          *)
KeepAlivePingUnlimited == /\ y_pc = "keep_alive" /\ ping_expired
                          /\ lock_write_buf = NoThread
                          /\ PingBody

(* A ping is sent under lock_write_buf; four failed tries disconnect.        *)
KeepAlivePing == /\ y_pc = "keep_alive" /\ ping_expired
                 /\ is_ping_outstanding < MQTT_PING_RETRY_TIMES
                 /\ lock_write_buf = NoThread
                 /\ PingBody

-----------------------------------------------------------------------------
(* _handle_disconnect.  DISCONNECT is sent under lock_write_buf, the network *)
(* is closed after the mutex is released, is_connected is cleared last.      *)

DiscSend == /\ y_pc = "disc_send"
            /\ lock_write_buf = NoThread
            /\ Goto("disc_net")
            /\ UNCHANGED <<conn, delay, ping, thread, writer, env, faults>>

DiscNet == /\ y_pc = "disc_net"
           /\ Goto("disc_state")
           /\ UNCHANGED <<conn, delay, ping, thread, writer, env, faults>>

(* Back in the loop of yield: NO_CONN starts the back-off or ends the call.  *)
BackOff == IF auto_connect_enable = 1
           THEN /\ current_reconnect_wait_interval' \in InitialIntervals
                /\ delay_expired' = FALSE
                /\ GotoRc("loop", "ATTEMPTING_RECONNECT")
           ELSE /\ UNCHANGED <<current_reconnect_wait_interval, delay_expired>>
                /\ GotoRc("returned", "NO_CONN")

(* set_client_conn_state, the DISCONNECT event; was_manually_disconnected,   *)
(* which qcloud_iot_mqtt_disconnect set to 1, is 0 again.                    *)
DiscState == /\ y_pc = "disc_state"
             /\ is_connected' = FALSE
             /\ event' = "DISCONNECT"
             /\ was_manually_disconnected' = 0
             /\ attempts' = 0
             /\ BackOff
             /\ faults' = faults \ {"resub_failed"}
             /\ UNCHANGED <<ping, thread, writer, env>>

-----------------------------------------------------------------------------
(* qcloud_iot_mqtt_attempt_reconnect                                         *)

Connect == /\ y_pc = "connect"
           /\ \/ link # "down" /\ Goto("send_connect")
              \/ Goto("failed")
           /\ UNCHANGED <<conn, delay, ping, thread, writer, env, faults>>

SendConnect == /\ y_pc = "send_connect"
               /\ lock_write_buf = NoThread
               /\ Goto("connack") \/ Goto("failed")
               /\ UNCHANGED <<conn, delay, ping, thread, writer, env, faults>>

ConnackOk == /\ y_pc = "connack"
             /\ link = "up"
             /\ is_connected' = TRUE
             /\ was_manually_disconnected' = 0
             /\ is_ping_outstanding' = 0 /\ ping_expired' = FALSE
             /\ Goto("resub")
             /\ UNCHANGED <<event, delay, thread, writer, env, faults>>
(* An attempt that fails closes the network.                                 *)
ConnackFails == /\ y_pc = "connack"
                /\ Goto("failed")
                /\ UNCHANGED <<conn, delay, ping, thread, writer, env, faults>>

(* Mutant: the reconnect is not reported.                                    *)
ResubOkSilent == /\ y_pc = "resub"
                 /\ GotoRc("loop", "RECONNECTED")
                 /\ UNCHANGED <<conn, delay, ping, thread, writer, env, faults>>

(* qcloud_iot_mqtt_resubscribe; the RECONNECT event only if it succeeds.     *)
ResubOk == /\ y_pc = "resub"
           /\ event' = "RECONNECT"
           /\ GotoRc("loop", "RECONNECTED")
           /\ UNCHANGED <<is_connected, was_manually_disconnected, delay, ping, thread, writer, env, faults>>
ResubFails == /\ y_pc = "resub"
              /\ faults' = faults \cup {"resub_failed"}
              /\ Goto("failed")
              /\ UNCHANGED <<conn, delay, ping, thread, writer, env>>

DoubleBody(limit) ==
    LET next == 2 * current_reconnect_wait_interval IN
    /\ y_pc = "failed"
    /\ attempts' = attempts + 1
    /\ current_reconnect_wait_interval' = next
    /\ delay_expired' = IF next > limit THEN delay_expired ELSE FALSE
    /\ GotoRc("loop", IF next > limit THEN "RECONNECT_TIMEOUT" ELSE "ATTEMPTING_RECONNECT")
    /\ UNCHANGED <<conn, ping, thread, writer, env, faults>>

(* Mutant: one doubling too early.                                           *)
AttemptFailedEarly == DoubleBody(MAX_RECONNECT_WAIT_INTERVAL \div 2)

(* Mutant: the delay stays as it is.                                         *)
AttemptFailedSameDelay == /\ y_pc = "failed"
                          /\ delay_expired' = FALSE
                          /\ GotoRc("loop", "ATTEMPTING_RECONNECT")
                          /\ UNCHANGED <<conn, current_reconnect_wait_interval, attempts, ping, thread,
                                         writer, env, faults>>

(* _handle_reconnect after a failed attempt: the delay doubles.              *)
AttemptFailed == DoubleBody(MAX_RECONNECT_WAIT_INTERVAL)

-----------------------------------------------------------------------------
(* Application threads: a writer stands for publish, subscribe, unsubscribe. *)

(* get_client_conn_state.                                                    *)
WriteCheck(t) == /\ w_pc[t] = "idle"
                 /\ is_connected
                 /\ w_pc' = [w_pc EXCEPT ![t] = "lock"]
                 /\ UNCHANGED <<conn, delay, ping, y_pc, rc, thread, lock_write_buf, env, faults>>
WriteBegin(t) == /\ w_pc[t] = "lock"
                 /\ lock_write_buf = NoThread
                 /\ lock_write_buf' = t
                 /\ w_pc' = [w_pc EXCEPT ![t] = "write"]
                 /\ UNCHANGED <<conn, delay, ping, y_pc, rc, thread, env, faults>>
WriteEnd(t) == /\ w_pc[t] = "write"
               /\ lock_write_buf' = NoThread
               /\ w_pc' = [w_pc EXCEPT ![t] = "idle"]
               /\ UNCHANGED <<conn, delay, ping, y_pc, rc, thread, env, faults>>

-----------------------------------------------------------------------------
(* Application threads that start, stop or replace the loop.                 *)

(* A second thread gets in beside the one at y_pc.                           *)
SecondYield == faults' = faults \cup {"two_yields"} /\ UNCHANGED <<y_pc, rc>>

(* IOT_MQTT_StopLoop and IOT_MQTT_SetLoopStatus write the flag and nothing   *)
(* else; the second that StopLoop sleeps does not wait for the thread.       *)
SetLoopStatus(status) ==
    /\ thread_running' = status
    /\ UNCHANGED <<conn, delay, ping, y_pc, rc, thread_exit_code, m_pc, writer, env, faults>>
StopLoop == thread_running /\ SetLoopStatus(FALSE)

(* IOT_MQTT_StartLoop: the flag, then the thread, which may not be created.  *)
(* Neither the flag nor an older thread is looked at.                        *)
StartLoop == /\ thread_running' = TRUE
             /\ \/ y_pc = "dead" /\ y_pc' = "thread" /\ UNCHANGED <<rc, faults>>
                \/ y_pc # "dead" /\ SecondYield
                \/ UNCHANGED <<y_pc, rc, faults>>
             /\ UNCHANGED <<conn, delay, ping, thread_exit_code, m_pc, writer, env>>

(* IOT_MQTT_Yield only sleeps while the flag is set.  A loop thread that is  *)
(* back at its test of the cleared flag counts as ended.                     *)
MainYield == /\ m_pc = "idle" /\ ~thread_running
             /\ \/ y_pc = "dead" /\ m_pc' = "yielding" /\ Enter /\ UNCHANGED faults
                \/ y_pc \notin {"dead", "thread"} /\ SecondYield /\ UNCHANGED m_pc
             /\ UNCHANGED <<conn, delay, ping, thread_running, thread_exit_code, writer, env>>
MainYieldReturns == /\ m_pc = "yielding" /\ y_pc = "returned"
                    /\ m_pc' = "idle"
                    /\ Goto("dead")
                    /\ UNCHANGED <<conn, delay, ping, thread_running, thread_exit_code, writer, env, faults>>

-----------------------------------------------------------------------------
(* The environment: the link changes, timers expire.                         *)

LinkChange(l) == /\ changes < MaxLinkChanges /\ l # link
                 /\ link' = l /\ changes' = changes + 1
                 /\ UNCHANGED <<conn, delay, ping, y_pc, rc, thread, writer, auto_connect_enable, faults>>
PingTimer == /\ ~ping_expired /\ ping_expired' = TRUE
             /\ UNCHANGED <<conn, delay, is_ping_outstanding, y_pc, rc, thread, writer, env, faults>>
DelayTimer == /\ ~delay_expired /\ delay_expired' = TRUE
              /\ UNCHANGED <<conn, current_reconnect_wait_interval, attempts, ping, y_pc, rc, thread,
                             writer, env, faults>>

YieldStep == \/ YieldEnter \/ LoopExpired \/ LoopGiveUp \/ LoopWait \/ LoopAttempt
             \/ ThreadReturned \/ ThreadStopped \/ MainYieldReturns
             \/ LoopRead \/ LoopReadNothing \/ LoopReadInvalid \/ LoopReadFails
             \/ KeepAliveIdle \/ KeepAliveGiveUp \/ KeepAlivePing
             \/ DiscSend \/ DiscNet \/ DiscState
             \/ Connect \/ SendConnect \/ ConnackOk \/ ConnackFails \/ ResubOk \/ ResubFails \/ AttemptFailed

AppStep == \/ \E t \in Writers : WriteCheck(t) \/ WriteBegin(t) \/ WriteEnd(t)
           \/ \E status \in BOOLEAN : SetLoopStatus(status)
           \/ StopLoop \/ StartLoop \/ MainYield

Next == /\ "two_yields" \notin faults
        /\ \/ YieldStep \/ AppStep
           \/ \E l \in {"up", "silent", "down"} : LinkChange(l)
           \/ PingTimer \/ DelayTimer

Spec == Init /\ [][Next]_vars

(* The yield thread runs, and gets a mutex that is free again and again;     *)
(* writes end; time passes.                                                  *)
FairSpec == /\ Spec
            /\ SF_vars(YieldStep)
            /\ \A t \in Writers : WF_vars(WriteEnd(t))
            /\ WF_vars(PingTimer) /\ WF_vars(DelayTimer)

-----------------------------------------------------------------------------
Codes == {"SUCCESS", "ATTEMPTING_RECONNECT", "RECONNECTED", "RECONNECT_TIMEOUT",
          "MANUALLY_DISCONNECTED", "NO_CONN", "ERROR"}

FlagsOK == /\ is_connected \in BOOLEAN /\ delay_expired \in BOOLEAN
           /\ ping_expired \in BOOLEAN /\ thread_running \in BOOLEAN

(* The variables stay in range; unanswered pings and the back-off interval   *)
(* are bounded by their limits.                                              *)
TypeOK == /\ FlagsOK
          /\ was_manually_disconnected \in {0, 1} /\ auto_connect_enable \in {0, 1}
          /\ current_reconnect_wait_interval \in 0 .. 2 * MAX_RECONNECT_WAIT_INTERVAL
          /\ attempts \in Nat
          /\ is_ping_outstanding \in 0 .. MQTT_PING_RETRY_TIMES
          /\ event \in {"DISCONNECT", "RECONNECT"}
          /\ lock_write_buf \in Writers \cup {NoThread}
          /\ y_pc \in {"thread", "first", "loop", "returned", "dead", "keep_alive", "disc_send", "disc_net",
                       "disc_state", "connect", "send_connect", "connack", "resub", "failed"}
          /\ rc \in Codes /\ thread_exit_code \in Codes
          /\ m_pc \in {"idle", "yielding"}
          /\ w_pc \in [Writers -> {"idle", "lock", "write"}]
          /\ link \in {"up", "silent", "down"} /\ changes \in 0 .. MaxLinkChanges
          /\ faults \subseteq FaultKinds

(* The loop thread ends by itself only without a connection, and then right  *)
(* after the attempt whose next delay would exceed the limit; the exception  *)
(* is a last attempt that connects and cannot resubscribe.                   *)
GaveUp == y_pc = "dead" /\ rc \in {"RECONNECT_TIMEOUT", "MANUALLY_DISCONNECTED"}
GivesUpLate ==
    GaveUp /\ "resub_failed" \notin faults
    => /\ ~is_connected
       /\ \E i \in InitialIntervals : /\ i * 2^(attempts - 1) <= MAX_RECONNECT_WAIT_INTERVAL
                                      /\ i * 2^attempts > MAX_RECONNECT_WAIT_INTERVAL

(* What the event handler was told last agrees with the connection whenever  *)
(* the yield thread waits for packets, unless a resubscription failed.       *)
EventsAgree == AtHead /\ "resub_failed" \notin faults => (is_connected <=> event = "RECONNECT")

(* While a thread yields, a link that goes silent is noticed, by unanswered  *)
(* pings.                                                                    *)
DeadLinkNoticed ==
    is_connected /\ link = "silent"
        ~> ~is_connected \/ link # "silent" \/ y_pc = "dead" \/ "two_yields" \in faults

(* A lost connection comes back or the thread that yields ends.              *)
Recovers ==
    ~is_connected /\ auto_connect_enable = 1 ~> is_connected \/ y_pc = "dead" \/ "two_yields" \in faults
=============================================================================
