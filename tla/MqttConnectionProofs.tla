------------------------ MODULE MqttConnectionProofs ------------------------
(***************************************************************************)
(* Safety of MqttConnection for any number of writing threads, any limits   *)
(* and any set of initial delays.                                           *)
(*                                                                          *)
(* The properties are not inductive.  PlaceInv says what the connection     *)
(* looks like at every place of the yield thread; EventInv adds what the    *)
(* application was told.                                                    *)
(***************************************************************************)
EXTENDS MqttConnection, TLAPS

Attempting == y_pc \in {"connect", "send_connect", "connack", "resub", "failed"}

(* The back-off interval is within its limit while an attempt is under way;  *)
(* the connection is up at the places that use it.                           *)
PlaceInv ==
    /\ Attempting => current_reconnect_wait_interval <= MAX_RECONNECT_WAIT_INTERVAL
    /\ y_pc \in {"keep_alive", "disc_send", "disc_net", "disc_state", "resub"} => is_connected
    /\ y_pc \in {"connect", "send_connect", "connack"} => ~is_connected

(* The last event is DISCONNECT while there is no connection, and RECONNECT  *)
(* while there is one, unless the reconnection was not reported.             *)
EventInv ==
    /\ ~is_connected => event = "DISCONNECT"
    /\ is_connected /\ y_pc # "resub" /\ "resub_failed" \notin faults => event = "RECONNECT"

IInv == TypeOK /\ PlaceInv /\ EventInv

USE ConnThreadsAssumption, ConnBoundsAssumption

(* Init establishes the invariant.                                           *)
LEMMA InitInv == Init => IInv
<1> SUFFICES ASSUME Init PROVE IInv
  OBVIOUS
<1> USE DEF Init
<1>1. FlagsOK
  BY DEF FlagsOK
<1>2. TypeOK
  BY <1>1 DEF TypeOK, Codes, FaultKinds
<1>3. PlaceInv /\ EventInv
  BY DEF PlaceInv, EventInv, Attempting
<1> QED
  BY <1>2, <1>3 DEF IInv

(* The loop of yield and the thread around it.                               *)
LEMMA LoopSteps ==
  ASSUME IInv,
         \/ YieldEnter \/ LoopExpired \/ LoopGiveUp \/ LoopWait \/ LoopAttempt
         \/ ThreadReturned \/ ThreadStopped
  PROVE  IInv'
<1> USE DEF IInv, conn, delay, ping, thread, writer, env, Goto, GotoRc, AtHead
<1>1. CASE YieldEnter
  <2>1. FlagsOK'
    BY <1>1 DEF YieldEnter, Enter, TypeOK, FlagsOK
  <2>2. TypeOK'
    BY <1>1, <2>1 DEF YieldEnter, Enter, TypeOK, Codes, FaultKinds, Attempting, PlaceInv
  <2>3. PlaceInv'
    BY <1>1 DEF YieldEnter, Enter, TypeOK, PlaceInv, Attempting
  <2>4. EventInv'
    BY <1>1 DEF YieldEnter, Enter, TypeOK, FlagsOK, EventInv, PlaceInv
  <2> QED
    BY <2>2, <2>3, <2>4
<1>2. CASE LoopExpired
  <2>1. FlagsOK'
    BY <1>2 DEF LoopExpired, TypeOK, FlagsOK
  <2>2. TypeOK'
    BY <1>2, <2>1 DEF LoopExpired, TypeOK, Codes, FaultKinds, Attempting, PlaceInv
  <2>3. PlaceInv'
    BY <1>2 DEF LoopExpired, TypeOK, PlaceInv, Attempting
  <2>4. EventInv'
    BY <1>2 DEF LoopExpired, TypeOK, FlagsOK, EventInv, PlaceInv
  <2> QED
    BY <2>2, <2>3, <2>4
<1>3. CASE LoopGiveUp
  <2>1. FlagsOK'
    BY <1>3 DEF LoopGiveUp, TypeOK, FlagsOK
  <2>2. TypeOK'
    BY <1>3, <2>1 DEF LoopGiveUp, TypeOK, Codes, FaultKinds, Attempting, PlaceInv
  <2>3. PlaceInv'
    BY <1>3 DEF LoopGiveUp, TypeOK, PlaceInv, Attempting
  <2>4. EventInv'
    BY <1>3 DEF LoopGiveUp, TypeOK, FlagsOK, EventInv, PlaceInv
  <2> QED
    BY <2>2, <2>3, <2>4
<1>4. CASE LoopWait
  <2>1. FlagsOK'
    BY <1>4 DEF LoopWait, TypeOK, FlagsOK
  <2>2. TypeOK'
    BY <1>4, <2>1 DEF LoopWait, TypeOK, Codes, FaultKinds, Attempting, PlaceInv
  <2>3. PlaceInv'
    BY <1>4 DEF LoopWait, TypeOK, PlaceInv, Attempting
  <2>4. EventInv'
    BY <1>4 DEF LoopWait, TypeOK, FlagsOK, EventInv, PlaceInv
  <2> QED
    BY <2>2, <2>3, <2>4
<1>5. CASE LoopAttempt
  <2>1. FlagsOK'
    BY <1>5 DEF LoopAttempt, TypeOK, FlagsOK
  <2>2. TypeOK'
    BY <1>5, <2>1 DEF LoopAttempt, TypeOK, Codes, FaultKinds, Attempting, PlaceInv
  <2>3. PlaceInv'
    BY <1>5 DEF LoopAttempt, TypeOK, PlaceInv, Attempting
  <2>4. EventInv'
    BY <1>5 DEF LoopAttempt, TypeOK, FlagsOK, EventInv, PlaceInv
  <2> QED
    BY <2>2, <2>3, <2>4
<1>6. CASE ThreadReturned
  <2>1. FlagsOK'
    BY <1>6 DEF ThreadReturned, EndThread, TypeOK, FlagsOK
  <2>2. TypeOK'
    <3>1. CASE rc \in {"MANUALLY_DISCONNECTED", "RECONNECT_TIMEOUT"}
      <4>1. /\ y_pc' = "dead" /\ thread_exit_code' = "SUCCESS" /\ faults' \subseteq faults
            /\ UNCHANGED <<rc, conn, delay, ping, m_pc, writer, env>>
        BY <1>6, <3>1 DEF ThreadReturned, EndThread
      <4> QED
        BY <2>1, <4>1 DEF TypeOK, Codes
    <3>2. CASE rc \notin {"MANUALLY_DISCONNECTED", "RECONNECT_TIMEOUT"}
      <4>1. y_pc' = "thread" /\ UNCHANGED <<rc, thread_exit_code, faults, conn, delay, ping, m_pc, writer, env>>
        BY <1>6, <3>2 DEF ThreadReturned, EndThread
      <4> QED
        BY <1>6, <2>1, <4>1 DEF TypeOK, Codes, FaultKinds, Attempting, PlaceInv
    <3> QED
      BY <1>6, <2>1, <3>1, <3>2 DEF ThreadReturned, EndThread
  <2>3. PlaceInv'
    BY <1>6 DEF ThreadReturned, EndThread, TypeOK, PlaceInv, Attempting
  <2>4. EventInv'
    BY <1>6 DEF ThreadReturned, EndThread, TypeOK, FlagsOK, EventInv, PlaceInv
  <2> QED
    BY <2>2, <2>3, <2>4
<1>7. CASE ThreadStopped
  <2>1. FlagsOK'
    BY <1>7 DEF ThreadStopped, EndThread, TypeOK, FlagsOK
  <2>2. TypeOK'
    BY <1>7, <2>1 DEF ThreadStopped, EndThread, TypeOK, Codes, FaultKinds, Attempting,
       PlaceInv
  <2>3. PlaceInv'
    BY <1>7 DEF ThreadStopped, EndThread, TypeOK, PlaceInv, Attempting
  <2>4. EventInv'
    BY <1>7 DEF ThreadStopped, EndThread, TypeOK, FlagsOK, EventInv, PlaceInv
  <2> QED
    BY <2>2, <2>3, <2>4
<1> QED
  BY <1>1, <1>2, <1>3, <1>4, <1>5, <1>6, <1>7

(* Reading and keep alive.                                                   *)
LEMMA ReadSteps ==
  ASSUME IInv,
         \/ LoopRead \/ LoopReadNothing \/ LoopReadInvalid \/ LoopReadFails
         \/ KeepAliveIdle \/ KeepAliveGiveUp \/ KeepAlivePing
  PROVE  IInv'
<1> USE DEF IInv, conn, delay, ping, thread, writer, env, Goto, GotoRc, AtHead
<1>1. CASE LoopRead
  <2>1. FlagsOK'
    BY <1>1 DEF LoopRead, Receive, TypeOK, FlagsOK
  <2>2. TypeOK'
    BY <1>1, <2>1 DEF LoopRead, Receive, TypeOK, Codes, FaultKinds, Attempting, PlaceInv
  <2>3. PlaceInv'
    BY <1>1 DEF LoopRead, Receive, TypeOK, PlaceInv, Attempting
  <2>4. EventInv'
    BY <1>1 DEF LoopRead, Receive, TypeOK, FlagsOK, EventInv, PlaceInv
  <2> QED
    BY <2>2, <2>3, <2>4
<1>2. CASE LoopReadNothing
  <2>1. FlagsOK'
    BY <1>2 DEF LoopReadNothing, TypeOK, FlagsOK
  <2>2. TypeOK'
    BY <1>2, <2>1 DEF LoopReadNothing, TypeOK, Codes, FaultKinds, Attempting, PlaceInv
  <2>3. PlaceInv'
    BY <1>2 DEF LoopReadNothing, TypeOK, PlaceInv, Attempting
  <2>4. EventInv'
    BY <1>2 DEF LoopReadNothing, TypeOK, FlagsOK, EventInv, PlaceInv
  <2> QED
    BY <2>2, <2>3, <2>4
<1>3. CASE LoopReadInvalid
  <2>1. FlagsOK'
    BY <1>3 DEF LoopReadInvalid, TypeOK, FlagsOK
  <2>2. TypeOK'
    BY <1>3, <2>1 DEF LoopReadInvalid, TypeOK, Codes, FaultKinds, Attempting, PlaceInv
  <2>3. PlaceInv'
    BY <1>3 DEF LoopReadInvalid, TypeOK, PlaceInv, Attempting
  <2>4. EventInv'
    BY <1>3 DEF LoopReadInvalid, TypeOK, FlagsOK, EventInv, PlaceInv
  <2> QED
    BY <2>2, <2>3, <2>4
<1>4. CASE LoopReadFails
  <2>1. FlagsOK'
    BY <1>4 DEF LoopReadFails, TypeOK, FlagsOK
  <2>2. TypeOK'
    BY <1>4, <2>1 DEF LoopReadFails, TypeOK, Codes, FaultKinds, Attempting, PlaceInv
  <2>3. PlaceInv'
    BY <1>4 DEF LoopReadFails, TypeOK, PlaceInv, Attempting
  <2>4. EventInv'
    BY <1>4 DEF LoopReadFails, TypeOK, FlagsOK, EventInv, PlaceInv
  <2> QED
    BY <2>2, <2>3, <2>4
<1>5. CASE KeepAliveIdle
  <2>1. FlagsOK'
    BY <1>5 DEF KeepAliveIdle, TypeOK, FlagsOK
  <2>2. TypeOK'
    BY <1>5, <2>1 DEF KeepAliveIdle, TypeOK, Codes, FaultKinds, Attempting, PlaceInv
  <2>3. PlaceInv'
    BY <1>5 DEF KeepAliveIdle, TypeOK, PlaceInv, Attempting
  <2>4. EventInv'
    BY <1>5 DEF KeepAliveIdle, TypeOK, FlagsOK, EventInv, PlaceInv
  <2> QED
    BY <2>2, <2>3, <2>4
<1>6. CASE KeepAliveGiveUp
  <2>1. FlagsOK'
    BY <1>6 DEF KeepAliveGiveUp, TypeOK, FlagsOK
  <2>2. TypeOK'
    BY <1>6, <2>1 DEF KeepAliveGiveUp, TypeOK, Codes, FaultKinds, Attempting, PlaceInv
  <2>3. PlaceInv'
    BY <1>6 DEF KeepAliveGiveUp, TypeOK, PlaceInv, Attempting
  <2>4. EventInv'
    BY <1>6 DEF KeepAliveGiveUp, TypeOK, FlagsOK, EventInv, PlaceInv
  <2> QED
    BY <2>2, <2>3, <2>4
<1>7. CASE KeepAlivePing
  <2>1. FlagsOK'
    BY <1>7 DEF KeepAlivePing, PingBody, TypeOK, FlagsOK
  <2>2. TypeOK'
    <3>1. CASE is_ping_outstanding' = is_ping_outstanding + 1 /\ GotoRc("loop", "SUCCESS")
      BY <1>7, <2>1, <3>1 DEF KeepAlivePing, PingBody, TypeOK, Codes, FaultKinds,
         Attempting, PlaceInv
    <3>2. CASE Goto("disc_send") /\ UNCHANGED ping
      BY <1>7, <2>1, <3>2 DEF KeepAlivePing, PingBody, TypeOK, Codes, FaultKinds,
         Attempting, PlaceInv
    <3> QED
      BY <1>7, <2>1, <3>1, <3>2 DEF KeepAlivePing, PingBody
  <2>3. PlaceInv'
    BY <1>7 DEF KeepAlivePing, PingBody, TypeOK, PlaceInv, Attempting
  <2>4. EventInv'
    BY <1>7 DEF KeepAlivePing, PingBody, TypeOK, FlagsOK, EventInv, PlaceInv
  <2> QED
    BY <2>2, <2>3, <2>4
<1> QED
  BY <1>1, <1>2, <1>3, <1>4, <1>5, <1>6, <1>7

(* Disconnection.                                                            *)
LEMMA DisconnectSteps ==
  ASSUME IInv,
         \/ DiscSend \/ DiscNet \/ DiscState
  PROVE  IInv'
<1> USE DEF IInv, conn, delay, ping, thread, writer, env, Goto, GotoRc, AtHead
<1>1. CASE DiscSend
  <2>1. FlagsOK'
    BY <1>1 DEF DiscSend, TypeOK, FlagsOK
  <2>2. TypeOK'
    BY <1>1, <2>1 DEF DiscSend, TypeOK, Codes, FaultKinds, Attempting, PlaceInv
  <2>3. PlaceInv'
    BY <1>1 DEF DiscSend, TypeOK, PlaceInv, Attempting
  <2>4. EventInv'
    BY <1>1 DEF DiscSend, TypeOK, FlagsOK, EventInv, PlaceInv
  <2> QED
    BY <2>2, <2>3, <2>4
<1>2. CASE DiscNet
  <2>1. FlagsOK'
    BY <1>2 DEF DiscNet, TypeOK, FlagsOK
  <2>2. TypeOK'
    BY <1>2, <2>1 DEF DiscNet, TypeOK, Codes, FaultKinds, Attempting, PlaceInv
  <2>3. PlaceInv'
    BY <1>2 DEF DiscNet, TypeOK, PlaceInv, Attempting
  <2>4. EventInv'
    BY <1>2 DEF DiscNet, TypeOK, FlagsOK, EventInv, PlaceInv
  <2> QED
    BY <2>2, <2>3, <2>4
<1>3. CASE DiscState
  <2>1. FlagsOK'
    BY <1>3 DEF DiscState, BackOff, TypeOK, FlagsOK
  <2>2. TypeOK'
    <3>1. CASE auto_connect_enable = 1
      <4>1. /\ current_reconnect_wait_interval' \in InitialIntervals
            /\ y_pc' = "loop" /\ rc' = "ATTEMPTING_RECONNECT"
        BY <1>3, <3>1 DEF DiscState, BackOff
      <4>2. current_reconnect_wait_interval' \in 1 .. MAX_RECONNECT_WAIT_INTERVAL
        BY <4>1
      <4>3. current_reconnect_wait_interval' \in 0 .. 2 * MAX_RECONNECT_WAIT_INTERVAL
        BY <4>2
      <4> QED
        BY <1>3, <2>1, <4>1, <4>3 DEF DiscState, TypeOK, Codes, FaultKinds, Attempting,
           PlaceInv
    <3>2. CASE auto_connect_enable # 1
      BY <1>3, <2>1, <3>2 DEF DiscState, BackOff, TypeOK, Codes, FaultKinds, Attempting,
         PlaceInv
    <3> QED
      BY <1>3, <2>1, <3>1, <3>2 DEF DiscState, BackOff
  <2>3. PlaceInv'
    BY <1>3 DEF DiscState, BackOff, TypeOK, PlaceInv, Attempting
  <2>4. EventInv'
    BY <1>3 DEF DiscState, BackOff, TypeOK, FlagsOK, EventInv, PlaceInv
  <2> QED
    BY <2>2, <2>3, <2>4
<1> QED
  BY <1>1, <1>2, <1>3

(* An attempt to reconnect.                                                  *)
LEMMA ReconnectSteps ==
  ASSUME IInv,
         \/ Connect \/ SendConnect \/ ConnackOk \/ ConnackFails \/ ResubOk
         \/ ResubFails \/ AttemptFailed
  PROVE  IInv'
<1> USE DEF IInv, conn, delay, ping, thread, writer, env, Goto, GotoRc, AtHead
<1>1. CASE Connect
  <2>1. FlagsOK'
    BY <1>1 DEF Connect, TypeOK, FlagsOK
  <2>2. TypeOK'
    BY <1>1, <2>1 DEF Connect, TypeOK, Codes, FaultKinds, Attempting, PlaceInv
  <2>3. PlaceInv'
    BY <1>1 DEF Connect, TypeOK, PlaceInv, Attempting
  <2>4. EventInv'
    BY <1>1 DEF Connect, TypeOK, FlagsOK, EventInv, PlaceInv
  <2> QED
    BY <2>2, <2>3, <2>4
<1>2. CASE SendConnect
  <2>1. FlagsOK'
    BY <1>2 DEF SendConnect, TypeOK, FlagsOK
  <2>2. TypeOK'
    BY <1>2, <2>1 DEF SendConnect, TypeOK, Codes, FaultKinds, Attempting,
       PlaceInv
  <2>3. PlaceInv'
    BY <1>2 DEF SendConnect, TypeOK, PlaceInv, Attempting
  <2>4. EventInv'
    BY <1>2 DEF SendConnect, TypeOK, FlagsOK, EventInv, PlaceInv
  <2> QED
    BY <2>2, <2>3, <2>4
<1>3. CASE ConnackOk
  <2>1. FlagsOK'
    BY <1>3 DEF ConnackOk, TypeOK, FlagsOK
  <2>2. TypeOK'
    BY <1>3, <2>1 DEF ConnackOk, TypeOK, Codes, FaultKinds, Attempting, PlaceInv
  <2>3. PlaceInv'
    BY <1>3 DEF ConnackOk, TypeOK, PlaceInv, Attempting
  <2>4. EventInv'
    BY <1>3 DEF ConnackOk, TypeOK, FlagsOK, EventInv, PlaceInv
  <2> QED
    BY <2>2, <2>3, <2>4
<1>4. CASE ConnackFails
  <2>1. FlagsOK'
    BY <1>4 DEF ConnackFails, TypeOK, FlagsOK
  <2>2. TypeOK'
    BY <1>4, <2>1 DEF ConnackFails, TypeOK, Codes, FaultKinds, Attempting,
       PlaceInv
  <2>3. PlaceInv'
    BY <1>4 DEF ConnackFails, TypeOK, PlaceInv, Attempting
  <2>4. EventInv'
    BY <1>4 DEF ConnackFails, TypeOK, FlagsOK, EventInv, PlaceInv
  <2> QED
    BY <2>2, <2>3, <2>4
<1>5. CASE ResubOk
  <2>1. FlagsOK'
    BY <1>5 DEF ResubOk, TypeOK, FlagsOK
  <2>2. TypeOK'
    BY <1>5, <2>1 DEF ResubOk, TypeOK, Codes, FaultKinds, Attempting, PlaceInv
  <2>3. PlaceInv'
    BY <1>5 DEF ResubOk, TypeOK, PlaceInv, Attempting
  <2>4. EventInv'
    BY <1>5 DEF ResubOk, TypeOK, FlagsOK, EventInv, PlaceInv
  <2> QED
    BY <2>2, <2>3, <2>4
<1>6. CASE ResubFails
  <2>1. FlagsOK'
    BY <1>6 DEF ResubFails, TypeOK, FlagsOK
  <2>2. TypeOK'
    BY <1>6, <2>1 DEF ResubFails, TypeOK, Codes, FaultKinds, Attempting, PlaceInv
  <2>3. PlaceInv'
    BY <1>6 DEF ResubFails, TypeOK, PlaceInv, Attempting
  <2>4. EventInv'
    BY <1>6 DEF ResubFails, TypeOK, FlagsOK, EventInv, PlaceInv
  <2> QED
    BY <2>2, <2>3, <2>4
<1>7. CASE AttemptFailed
  <2>1. FlagsOK'
    BY <1>7 DEF AttemptFailed, DoubleBody, TypeOK, FlagsOK
  <2>2. TypeOK'
    BY <1>7, <2>1 DEF AttemptFailed, DoubleBody, TypeOK, Codes, FaultKinds, Attempting,
       PlaceInv
  <2>3. PlaceInv'
    BY <1>7 DEF AttemptFailed, DoubleBody, TypeOK, PlaceInv, Attempting
  <2>4. EventInv'
    BY <1>7 DEF AttemptFailed, DoubleBody, TypeOK, FlagsOK, EventInv, PlaceInv
  <2> QED
    BY <2>2, <2>3, <2>4
<1> QED
  BY <1>1, <1>2, <1>3, <1>4, <1>5, <1>6, <1>7

(* Threads that start, stop and replace the loop, and the environment.       *)
LEMMA MainSteps ==
  ASSUME IInv,
         \/ (\E status \in BOOLEAN : SetLoopStatus(status)) \/ StopLoop \/ StartLoop
         \/ MainYield \/ MainYieldReturns
         \/ (\E l \in {"up", "silent", "down"} : LinkChange(l)) \/ PingTimer
         \/ DelayTimer
  PROVE  IInv'
<1> USE DEF IInv, conn, delay, ping, thread, writer, env, Goto, GotoRc, AtHead
<1>1. CASE \E status \in BOOLEAN : SetLoopStatus(status)
  <2>1. FlagsOK'
    BY <1>1 DEF SetLoopStatus, TypeOK, FlagsOK
  <2>2. TypeOK'
    BY <1>1, <2>1 DEF SetLoopStatus, TypeOK, Codes, FaultKinds, Attempting, PlaceInv
  <2>3. PlaceInv'
    BY <1>1 DEF SetLoopStatus, TypeOK, PlaceInv, Attempting
  <2>4. EventInv'
    BY <1>1 DEF SetLoopStatus, TypeOK, FlagsOK, EventInv, PlaceInv
  <2> QED
    BY <2>2, <2>3, <2>4
<1>2. CASE StopLoop
  <2>1. FlagsOK'
    BY <1>2 DEF StopLoop, SetLoopStatus, TypeOK, FlagsOK
  <2>2. TypeOK'
    BY <1>2, <2>1 DEF StopLoop, SetLoopStatus, TypeOK, Codes, FaultKinds, Attempting, PlaceInv
  <2>3. PlaceInv'
    BY <1>2 DEF StopLoop, SetLoopStatus, TypeOK, PlaceInv, Attempting
  <2>4. EventInv'
    BY <1>2 DEF StopLoop, SetLoopStatus, TypeOK, FlagsOK, EventInv, PlaceInv
  <2> QED
    BY <2>2, <2>3, <2>4
<1>3. CASE StartLoop
  <2>1. FlagsOK'
    BY <1>3 DEF StartLoop, SecondYield, TypeOK, FlagsOK
  <2>2. TypeOK'
    <3>1. faults' \subseteq FaultKinds
      BY <1>3 DEF StartLoop, SecondYield, TypeOK, FaultKinds
    <3>2. UNCHANGED <<rc, conn, delay, ping, thread_exit_code, m_pc, writer, env>> /\ y_pc' \in {y_pc, "thread"}
      BY <1>3 DEF StartLoop, SecondYield
    <3> QED
      BY <2>1, <3>1, <3>2 DEF TypeOK
  <2>3. PlaceInv'
    BY <1>3 DEF StartLoop, SecondYield, TypeOK, PlaceInv, Attempting
  <2>4. EventInv'
    BY <1>3 DEF StartLoop, SecondYield, TypeOK, FlagsOK, EventInv, PlaceInv
  <2> QED
    BY <2>2, <2>3, <2>4
<1>4. CASE MainYield
  <2>1. FlagsOK'
    BY <1>4 DEF MainYield, SecondYield, Enter, TypeOK, FlagsOK
  <2>2. TypeOK'
    <3>1. faults' \subseteq FaultKinds
      BY <1>4 DEF MainYield, SecondYield, TypeOK, FaultKinds
    <3>2. /\ UNCHANGED <<conn, delay, ping, thread_running, thread_exit_code, writer, env>>
          /\ y_pc' \in {y_pc, "first", "returned"} /\ m_pc' \in {m_pc, "yielding"}
          /\ rc' \in {rc, "SUCCESS", "MANUALLY_DISCONNECTED", "NO_CONN"}
      BY <1>4 DEF MainYield, SecondYield, Enter
    <3>3. rc' \in Codes
      BY <3>2 DEF TypeOK, Codes
    <3> QED
      BY <2>1, <3>1, <3>2, <3>3 DEF TypeOK
  <2>3. PlaceInv'
    BY <1>4 DEF MainYield, SecondYield, Enter, TypeOK, PlaceInv, Attempting
  <2>4. EventInv'
    BY <1>4 DEF MainYield, SecondYield, Enter, TypeOK, FlagsOK, EventInv, PlaceInv
  <2> QED
    BY <2>2, <2>3, <2>4
<1>5. CASE MainYieldReturns
  <2>1. FlagsOK'
    BY <1>5 DEF MainYieldReturns, TypeOK, FlagsOK
  <2>2. TypeOK'
    BY <1>5, <2>1 DEF MainYieldReturns, TypeOK, Codes, FaultKinds, Attempting, PlaceInv
  <2>3. PlaceInv'
    BY <1>5 DEF MainYieldReturns, TypeOK, PlaceInv, Attempting
  <2>4. EventInv'
    BY <1>5 DEF MainYieldReturns, TypeOK, FlagsOK, EventInv, PlaceInv
  <2> QED
    BY <2>2, <2>3, <2>4
<1>6. CASE \E l \in {"up", "silent", "down"} : LinkChange(l)
  <2>1. FlagsOK'
    BY <1>6 DEF LinkChange, TypeOK, FlagsOK
  <2>2. TypeOK'
    BY <1>6, <2>1 DEF LinkChange, TypeOK, Codes, FaultKinds, Attempting, PlaceInv
  <2>3. PlaceInv'
    BY <1>6 DEF LinkChange, TypeOK, PlaceInv, Attempting
  <2>4. EventInv'
    BY <1>6 DEF LinkChange, TypeOK, FlagsOK, EventInv, PlaceInv
  <2> QED
    BY <2>2, <2>3, <2>4
<1>7. CASE PingTimer
  <2>1. FlagsOK'
    BY <1>7 DEF PingTimer, TypeOK, FlagsOK
  <2>2. TypeOK'
    BY <1>7, <2>1 DEF PingTimer, TypeOK, Codes, FaultKinds, Attempting, PlaceInv
  <2>3. PlaceInv'
    BY <1>7 DEF PingTimer, TypeOK, PlaceInv, Attempting
  <2>4. EventInv'
    BY <1>7 DEF PingTimer, TypeOK, FlagsOK, EventInv, PlaceInv
  <2> QED
    BY <2>2, <2>3, <2>4
<1>8. CASE DelayTimer
  <2>1. FlagsOK'
    BY <1>8 DEF DelayTimer, TypeOK, FlagsOK
  <2>2. TypeOK'
    BY <1>8, <2>1 DEF DelayTimer, TypeOK, Codes, FaultKinds, Attempting, PlaceInv
  <2>3. PlaceInv'
    BY <1>8 DEF DelayTimer, TypeOK, PlaceInv, Attempting
  <2>4. EventInv'
    BY <1>8 DEF DelayTimer, TypeOK, FlagsOK, EventInv, PlaceInv
  <2> QED
    BY <2>2, <2>3, <2>4
<1> QED
  BY <1>1, <1>2, <1>3, <1>4, <1>5, <1>6, <1>7, <1>8

(* A writer.                                                                 *)
LEMMA WriterSteps ==
  ASSUME IInv,
         \/ (\E t \in Writers : WriteCheck(t))
         \/ (\E t \in Writers : WriteBegin(t)) \/ (\E t \in Writers : WriteEnd(t))
  PROVE  IInv'
<1> USE DEF IInv, conn, delay, ping, thread, writer, env, Goto, GotoRc, AtHead
<1>1. CASE \E t \in Writers : WriteCheck(t)
  <2>1. FlagsOK'
    BY <1>1 DEF WriteCheck, TypeOK, FlagsOK
  <2>2. TypeOK'
    BY <1>1, <2>1 DEF WriteCheck, TypeOK, Codes, FaultKinds, Attempting, PlaceInv
  <2>3. PlaceInv'
    BY <1>1 DEF WriteCheck, TypeOK, PlaceInv, Attempting
  <2>4. EventInv'
    BY <1>1 DEF WriteCheck, TypeOK, FlagsOK, EventInv, PlaceInv
  <2> QED
    BY <2>2, <2>3, <2>4
<1>2. CASE \E t \in Writers : WriteBegin(t)
  <2>1. FlagsOK'
    BY <1>2 DEF WriteBegin, TypeOK, FlagsOK
  <2>2. TypeOK'
    BY <1>2, <2>1 DEF WriteBegin, TypeOK, Codes, FaultKinds, Attempting, PlaceInv
  <2>3. PlaceInv'
    BY <1>2 DEF WriteBegin, TypeOK, PlaceInv, Attempting
  <2>4. EventInv'
    BY <1>2 DEF WriteBegin, TypeOK, FlagsOK, EventInv, PlaceInv
  <2> QED
    BY <2>2, <2>3, <2>4
<1>3. CASE \E t \in Writers : WriteEnd(t)
  <2>1. FlagsOK'
    BY <1>3 DEF WriteEnd, TypeOK, FlagsOK
  <2>2. TypeOK'
    BY <1>3, <2>1 DEF WriteEnd, TypeOK, Codes, FaultKinds, Attempting, PlaceInv
  <2>3. PlaceInv'
    BY <1>3 DEF WriteEnd, TypeOK, PlaceInv, Attempting
  <2>4. EventInv'
    BY <1>3 DEF WriteEnd, TypeOK, FlagsOK, EventInv, PlaceInv
  <2> QED
    BY <2>2, <2>3, <2>4
<1> QED
  BY <1>1, <1>2, <1>3

(* A step that changes nothing keeps the invariant.                          *)
LEMMA Stutter == ASSUME IInv, UNCHANGED vars PROVE IInv'
  BY DEF IInv, TypeOK, FlagsOK, PlaceInv, EventInv, Attempting, vars, conn, delay, ping, thread, writer, env

(* The invariant holds in every reachable state.                             *)
THEOREM Invariance == Spec => []IInv
<1>1. IInv /\ [Next]_vars => IInv'
  <2> SUFFICES ASSUME IInv, [Next]_vars PROVE IInv'
    OBVIOUS
  <2>1. CASE YieldStep
    BY <2>1, LoopSteps, ReadSteps, DisconnectSteps, ReconnectSteps, MainSteps DEF YieldStep
  <2>2. CASE \E t \in Writers : WriteCheck(t) \/ WriteBegin(t) \/ WriteEnd(t)
    BY <2>2, WriterSteps
  <2>3. CASE \/ (\E status \in BOOLEAN : SetLoopStatus(status)) \/ StopLoop \/ StartLoop
             \/ MainYield \/ MainYieldReturns
             \/ (\E l \in {"up", "silent", "down"} : LinkChange(l))
             \/ PingTimer \/ DelayTimer
    BY <2>3, MainSteps
  <2>4. CASE UNCHANGED vars
    BY <2>4, Stutter
  <2> QED
    BY <2>1, <2>2, <2>3, <2>4 DEF Next, AppStep
<1> QED
  BY <1>1, InitInv, PTL DEF Spec

(* Every variable stays in its range: at most MQTT_PING_RETRY_TIMES pings    *)
(* wait for an answer, the back-off never exceeds twice its limit.           *)
THEOREM TypeCorrect == Spec => []TypeOK
<1>1. IInv => TypeOK
  BY DEF IInv
<1> QED
  BY <1>1, Invariance, PTL

(* The last reported event agrees with the connection whenever the yield     *)
(* thread is at the head of its loop, unless a resubscription failed.        *)
THEOREM EventsCorrect == Spec => []EventsAgree
<1>1. IInv => EventsAgree
  BY DEF IInv, EventInv, EventsAgree, AtHead, TypeOK, FlagsOK
<1> QED
  BY <1>1, Invariance, PTL

-----------------------------------------------------------------------------
(* When the loop thread gives up.                                            *)

(* What the provers do not know of powers and cannot derive: the power that  *)
(* counts the attempts doubles with each.                                    *)
PowersOfTwo == \A n \in Nat : 2^n \in Nat /\ 2^(n + 1) = 2 * 2^n

(* The delay after n failed attempts is an initial one doubled n times, and  *)
(* the last attempt was made within the limit.                               *)
Doubled(i) == /\ current_reconnect_wait_interval = i * 2^attempts
              /\ attempts > 0 => i * 2^(attempts - 1) <= MAX_RECONNECT_WAIT_INTERVAL
DelayInv ==
    /\ auto_connect_enable = 0 => current_reconnect_wait_interval = 0
    /\ current_reconnect_wait_interval = 0 \/ \E i \in InitialIntervals : Doubled(i)

(* The error that ends the thread is there only without a connection and     *)
(* with a delay over the limit; nobody disconnects manually.                 *)
TimeoutInv ==
    /\ was_manually_disconnected = 0 /\ rc # "MANUALLY_DISCONNECTED"
    /\ "resub_failed" \notin faults =>
          /\ y_pc = "failed" => ~is_connected
          /\ rc = "RECONNECT_TIMEOUT" =>
                ~is_connected /\ current_reconnect_wait_interval > MAX_RECONNECT_WAIT_INTERVAL

(* The delay is drawn anew, doubled, or left alone.                          *)
LEMMA DelaySteps ==
  ASSUME PowersOfTwo, IInv, DelayInv, [Next]_vars
  PROVE  DelayInv'
<1> USE DEF conn, delay, ping, thread, writer, env, Goto, GotoRc
<1>1. CASE DiscState
  <2>1. CASE auto_connect_enable = 1
    <3>1. PICK i \in InitialIntervals : current_reconnect_wait_interval' = i
      BY <1>1, <2>1 DEF DiscState, BackOff
    <3>2. attempts' = 0 /\ auto_connect_enable' = 1
      BY <1>1, <2>1 DEF DiscState
    <3>3. 2^0 = 1
      OBVIOUS
    <3>4. Doubled(i)'
      BY <3>1, <3>2, <3>3 DEF Doubled
    <3> QED
      BY <3>2, <3>4 DEF DelayInv
  <2>2. CASE auto_connect_enable # 1
    <3>1. auto_connect_enable = 0
      BY <2>2 DEF IInv, TypeOK
    <3> QED
      BY <1>1, <3>1 DEF DiscState, BackOff, DelayInv
  <2> QED
    BY <2>1, <2>2
<1>2. CASE AttemptFailed
  <2>1. /\ current_reconnect_wait_interval' = 2 * current_reconnect_wait_interval
        /\ attempts' = attempts + 1 /\ UNCHANGED auto_connect_enable
        /\ y_pc = "failed"
    BY <1>2 DEF AttemptFailed, DoubleBody
  <2>2. /\ attempts \in Nat /\ current_reconnect_wait_interval \in Nat
        /\ current_reconnect_wait_interval <= MAX_RECONNECT_WAIT_INTERVAL
    BY <2>1 DEF IInv, TypeOK, PlaceInv, Attempting
  <2>3. ASSUME NEW i \in InitialIntervals, Doubled(i) PROVE Doubled(i)'
    <3>1. i \in Nat /\ 2^attempts \in Nat /\ 2^(attempts + 1) = 2 * 2^attempts
      BY <2>2 DEF PowersOfTwo
    <3>2. 2 * (i * 2^attempts) = i * (2 * 2^attempts)
      BY <3>1
    <3>3. current_reconnect_wait_interval' = i * 2^(attempts')
      BY <2>1, <2>3, <3>1, <3>2 DEF Doubled
    <3>4. attempts' - 1 = attempts
      BY <2>1, <2>2
    <3>5. i * 2^(attempts' - 1) <= MAX_RECONNECT_WAIT_INTERVAL
      BY <2>2, <2>3, <3>4 DEF Doubled
    <3> QED
      BY <3>3, <3>5 DEF Doubled
  <2> QED
    BY <2>1, <2>2, <2>3 DEF DelayInv
<1>3. ASSUME ~DiscState, ~AttemptFailed
      PROVE  UNCHANGED <<current_reconnect_wait_interval, attempts, auto_connect_enable>>
  <2>1. CASE YieldStep
    BY <1>3, <2>1 DEF YieldStep, YieldEnter, LoopExpired, LoopGiveUp, LoopWait, LoopAttempt,
       ThreadReturned, ThreadStopped, MainYieldReturns, LoopRead, LoopReadNothing, LoopReadInvalid, LoopReadFails,
       KeepAliveIdle, KeepAliveGiveUp, KeepAlivePing, PingBody, DiscSend, DiscNet,
       Connect, SendConnect, ConnackOk, ConnackFails, ResubOk, ResubFails
  <2>2. CASE \E t \in Writers : WriteCheck(t) \/ WriteBegin(t) \/ WriteEnd(t)
    BY <2>2 DEF WriteCheck, WriteBegin, WriteEnd
  <2>3. CASE \/ (\E status \in BOOLEAN : SetLoopStatus(status)) \/ StopLoop \/ StartLoop
             \/ MainYield
             \/ (\E l \in {"up", "silent", "down"} : LinkChange(l))
             \/ PingTimer \/ DelayTimer
    BY <2>3 DEF SetLoopStatus, StopLoop, StartLoop, MainYield, LinkChange, PingTimer, DelayTimer
  <2>4. CASE UNCHANGED vars
    BY <2>4 DEF vars
  <2> QED
    BY <2>1, <2>2, <2>3, <2>4 DEF Next, AppStep
<1>4. CASE ~DiscState /\ ~AttemptFailed
  BY <1>3, <1>4 DEF DelayInv, Doubled
<1> QED
  BY <1>1, <1>2, <1>4

(* The error code, action by action.                                         *)
LEMMA TimeoutSteps ==
  ASSUME IInv, TimeoutInv, [Next]_vars
  PROVE  TimeoutInv'
<1> USE DEF conn, delay, ping, thread, writer, env, Goto, GotoRc
<1>1. CASE \/ YieldEnter \/ LoopExpired \/ LoopGiveUp \/ LoopWait \/ LoopAttempt
  BY <1>1 DEF YieldEnter, Enter, LoopExpired, LoopGiveUp, LoopWait, LoopAttempt, TimeoutInv
<1>2. CASE ThreadReturned \/ ThreadStopped
  BY <1>2 DEF ThreadReturned, ThreadStopped, EndThread, TimeoutInv
<1>3. CASE LoopRead \/ LoopReadNothing \/ LoopReadInvalid \/ LoopReadFails
  BY <1>3 DEF LoopRead, LoopReadNothing, LoopReadInvalid, LoopReadFails, TimeoutInv
<1>4. CASE KeepAliveIdle \/ KeepAliveGiveUp \/ KeepAlivePing
  BY <1>4 DEF KeepAliveIdle, KeepAliveGiveUp, KeepAlivePing, PingBody, TimeoutInv
<1>5. CASE DiscSend \/ DiscNet
  BY <1>5 DEF DiscSend, DiscNet, TimeoutInv
<1>6. CASE DiscState
  BY <1>6 DEF DiscState, BackOff, TimeoutInv
<1>7. CASE Connect \/ SendConnect \/ ConnackFails
  BY <1>7 DEF Connect, SendConnect, ConnackFails, TimeoutInv, IInv, PlaceInv
<1>8. CASE ConnackOk
  <2>1. ~(current_reconnect_wait_interval > MAX_RECONNECT_WAIT_INTERVAL)
    BY <1>8 DEF ConnackOk, IInv, TypeOK, PlaceInv, Attempting
  <2> QED
    BY <1>8, <2>1 DEF ConnackOk, TimeoutInv
<1>9. CASE ResubOk \/ ResubFails
  BY <1>9 DEF ResubOk, ResubFails, TimeoutInv
<1>10. CASE AttemptFailed
  BY <1>10 DEF AttemptFailed, DoubleBody, TimeoutInv, IInv, TypeOK
<1>11. CASE \E t \in Writers : WriteCheck(t) \/ WriteBegin(t) \/ WriteEnd(t)
  BY <1>11 DEF WriteCheck, WriteBegin, WriteEnd, TimeoutInv
<1>12. CASE \/ (\E status \in BOOLEAN : SetLoopStatus(status)) \/ StopLoop \/ StartLoop
             \/ MainYield \/ MainYieldReturns
  BY <1>12 DEF SetLoopStatus, StopLoop, StartLoop, SecondYield, MainYield, Enter, MainYieldReturns,
     TimeoutInv
<1>13. CASE \/ (\E l \in {"up", "silent", "down"} : LinkChange(l))
            \/ PingTimer \/ DelayTimer \/ UNCHANGED vars
  BY <1>13 DEF LinkChange, PingTimer, DelayTimer, vars, TimeoutInv
<1> QED
  BY <1>1, <1>2, <1>3, <1>4, <1>5, <1>6, <1>7, <1>8, <1>9, <1>10, <1>11, <1>12, <1>13
     DEF Next, AppStep, YieldStep

(* The loop thread ends by itself only without a connection and right after  *)
(* the attempt whose next delay would exceed the limit (_handle_reconnect),  *)
(* unless its last attempt connected and could not resubscribe.              *)
THEOREM GivenUpLate ==
  ASSUME PowersOfTwo
  PROVE  Spec => []GivesUpLate
<1>1. Init => DelayInv /\ TimeoutInv
  BY DEF Init, DelayInv, TimeoutInv
<1>2. IInv /\ DelayInv /\ TimeoutInv /\ [Next]_vars => DelayInv' /\ TimeoutInv'
  BY DelaySteps, TimeoutSteps
<1>3. IInv /\ DelayInv /\ TimeoutInv => GivesUpLate
  <2> SUFFICES ASSUME IInv, DelayInv, TimeoutInv, GaveUp, "resub_failed" \notin faults
               PROVE  /\ ~is_connected
                      /\ \E i \in InitialIntervals :
                            /\ i * 2^(attempts - 1) <= MAX_RECONNECT_WAIT_INTERVAL
                            /\ i * 2^attempts > MAX_RECONNECT_WAIT_INTERVAL
    BY DEF GivesUpLate
  <2>1. ~is_connected /\ current_reconnect_wait_interval > MAX_RECONNECT_WAIT_INTERVAL
    BY DEF GaveUp, TimeoutInv
  <2>2. PICK i \in InitialIntervals : Doubled(i)
    BY <2>1 DEF DelayInv
  <2>3. i \in Nat /\ i <= MAX_RECONNECT_WAIT_INTERVAL
    OBVIOUS
  <2>4. attempts # 0
    <3> SUFFICES ASSUME attempts = 0 PROVE FALSE
      OBVIOUS
    <3>1. 2^attempts = 1
      OBVIOUS
    <3>2. current_reconnect_wait_interval = i
      BY <2>2, <2>3, <3>1 DEF Doubled
    <3> QED
      BY <2>1, <2>3, <3>2
  <2>5. attempts > 0
    BY <2>4 DEF IInv, TypeOK
  <2> QED
    BY <2>1, <2>2, <2>5 DEF Doubled
<1> QED
  BY <1>1, <1>2, <1>3, Invariance, PTL DEF Spec
=============================================================================
