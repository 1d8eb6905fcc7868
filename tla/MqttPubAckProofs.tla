-------------------------- MODULE MqttPubAckProofs --------------------------
(***************************************************************************)
(* Proofs about MqttPubAck, for any number of publishers, any capacity and *)
(* any number of packet ids, and about MqttLocks, for any number of threads.*)
(***************************************************************************)
EXTENDS MqttPubAck, MqttLocks, FiniteSetTheorems, TLAPS

-----------------------------------------------------------------------------
(* The inductive invariant.                                                  *)

(* Ownership of the two mutexes is read off the places of the threads.       *)
LockInv ==
    /\ \A t \in Threads : pc[t] \in {"push", "send", "remove"} <=> lock_write_buf = t
    /\ lock_list_pub = IF y_pc \in {"iter", "cb_timeout"} THEN Yielder ELSE NoThread
    /\ pc[Yielder] # "idle" => y_pc \in {"cb_success", "cb_timeout"}

(* The k-th packet id handed out; ids run round 1 .. MAX_PACKET_ID.          *)
IdOf(k) == IF first_id + k <= MAX_PACKET_ID THEN first_id + k
           ELSE first_id + k - MAX_PACKET_ID

Known == list_pub_wait_ack \cup wire \cup acks \cup succeeded \cup timedout \cup failed

IdInv ==
    /\ next_packet_id = IdOf(ids)
    /\ \A n \in Known : n <= ids /\ msg_id[n] = IdOf(n)

(* A publish in progress owns the newest id; it has no PUBACK yet.           *)
CallInv ==
    \A t \in Threads :
        /\ pc[t] = "push" => ids >= 1 /\ ids \notin Known
        /\ pc[t] \in {"send", "remove"} /\ pub_node[t] # NULL =>
              /\ pub_node[t] = ids /\ msg_id[ids] = IdOf(ids)
              /\ pub_node[t] \notin wire \cup acks \cup succeeded
        /\ pc[t] = "remove" => pub_node[t] # NULL

(* A listed node is marked exactly when its PUBACK was handled.              *)
MarkInv ==
    \A n \in list_pub_wait_ack : node_state[n] = "INVALID" <=> n \in succeeded

(* The iterator of the yield thread.                                         *)
IterInv ==
    /\ y_pc = "window" => /\ y_node # NULL /\ y_temp = NULL
                          /\ y_node <= ids
                          /\ y_node \notin succeeded
                          /\ y_iter < y_node
    /\ y_pc \in {"iter", "window", "cb_timeout"} =>
          /\ y_iter # NULL => y_iter \in list_pub_wait_ack
          /\ y_temp # NULL => /\ y_iter < y_temp /\ y_temp \in Serials
                              /\ y_temp \in succeeded \cup timedout

(* A node whose publish is still sending, or removing it, is in the list or   *)
(* was reported as timed out; the node at hand in the pass is in the list or  *)
(* was removed by its publish.                                               *)
LiveInv ==
    /\ \A n \in timedout : pub_start_time[n] # "running"
    /\ \A t \in Threads : pc[t] \in {"send", "remove"} /\ pub_node[t] # NULL =>
           pub_node[t] \in list_pub_wait_ack \cup timedout
    /\ \A t \in Threads : pc[t] = "remove" => pub_node[t] \in failed
    /\ y_pc = "window" => /\ y_node \in list_pub_wait_ack \cup failed
                          /\ pub_start_time[y_node] # "running"
    /\ y_pc \in {"iter", "cb_timeout"} /\ y_temp # NULL => y_temp \in list_pub_wait_ack

IInv == TypeOK /\ LockInv /\ IdInv /\ CallInv /\ MarkInv /\ IterInv /\ LiveInv

-----------------------------------------------------------------------------
(* What the iterator returns: NULL or a node of the list, below the current  *)
(* one.                                                                      *)
LEMMA TailFact ==
    ASSUME NEW list \in SUBSET Serials
    PROVE  ListTail(list) = NULL \/ ListTail(list) \in list
  BY DEF ListTail

LEMMA PrevFact ==
    ASSUME NEW list \in SUBSET Serials, NEW n \in Serials
    PROVE  \/ ListPrev(list, n) = NULL
           \/ ListPrev(list, n) \in list /\ ListPrev(list, n) < n
  <1> DEFINE below == {m \in list : m < n}
  <1>1. below \in SUBSET Serials
    OBVIOUS
  <1>2. ListPrev(list, n) = ListTail(below)
    BY DEF ListPrev
  <1> HIDE DEF below
  <1>3. ListTail(below) = NULL \/ ListTail(below) \in below
    BY <1>1, TailFact
  <1> QED
    BY <1>2, <1>3 DEF below

(* The k-th and the m-th packet id differ when k and m are different and no  *)
(* more ids were handed out than there are.                                  *)
LEMMA IdFact ==
    ASSUME TypeOK, NEW k \in Serials, NEW m \in Serials
    PROVE  /\ IdOf(k) \in 1 .. MAX_PACKET_ID
           /\ IdOf(k) = IdOf(m) => k = m
  BY SizesAssumption, IdsAssumption DEF TypeOK, IdOf, Serials

LEMMA NextIdFact ==
    ASSUME TypeOK, ids < MaxIds, next_packet_id = IdOf(ids)
    PROVE  NextPacketId(next_packet_id) = IdOf(ids + 1)
  BY SizesAssumption, IdsAssumption DEF TypeOK, IdOf, NextPacketId

LEMMA InitInv == Init => IInv
  <1> SUFFICES ASSUME Init PROVE IInv
    OBVIOUS
  <1> USE SizesAssumption, IdsAssumption, ThreadsAssumption DEF Init, Threads, Serials, Pointers, NULL
  <1>1. TypeOK
    <2>1. /\ is_connected \in BOOLEAN /\ undefined \in BOOLEAN
          /\ lock_write_buf \in Threads \cup {NoThread}
          /\ lock_list_pub \in Threads \cup {NoThread}
      OBVIOUS
    <2>2. /\ first_id \in 0 .. MAX_PACKET_ID /\ next_packet_id \in 0 .. MAX_PACKET_ID
          /\ ids \in 0 .. MaxIds
          /\ msg_id \in [Serials -> 0 .. MAX_PACKET_ID]
      OBVIOUS
    <2>3. /\ node_state \in [Serials -> {"NORMAL", "INVALID"}]
          /\ pub_start_time \in [Serials -> {"running", "expired", "restarted"}]
          /\ pc \in [Threads -> {"idle", "lock0", "lock1", "push", "send", "remove"}]
          /\ pub_node \in [Threads -> Pointers]
      OBVIOUS
    <2> QED
      BY <2>1, <2>2, <2>3 DEF TypeOK
  <1>2. LockInv
    BY DEF LockInv
  <1>3. IdInv
    BY DEF IdInv, IdOf, Known
  <1>4. CallInv /\ MarkInv /\ IterInv /\ LiveInv
    BY DEF CallInv, MarkInv, IterInv, LiveInv
  <1> QED
    BY <1>1, <1>2, <1>3, <1>4 DEF IInv


LEMMA StepInv == IInv /\ [Next]_vars => IInv'
  <1> SUFFICES ASSUME IInv, [Next]_vars PROVE IInv'
    OBVIOUS
  <1> USE SizesAssumption, IdsAssumption, ThreadsAssumption
  <1> USE DEF IInv, locks, nodes, calls, yielder, network, idgen, history
  <1>0. NoThread \notin Threads /\ Yielder \in Threads /\ NULL \notin Serials
    BY DEF Threads, Serials, NULL

  <1>1. ASSUME NEW t \in Threads, Publish(t) PROVE IInv'
    <2>1. TypeOK'
      <3>1. pc' \in [Threads -> {"idle", "lock0", "lock1", "push", "send", "remove"}]
        BY <1>1 DEF TypeOK, Publish
      <3> QED
        BY <1>1, <3>1 DEF TypeOK, Publish
    <2>2. LockInv'
      BY <1>0, <1>1 DEF TypeOK, LockInv, Publish, MayCall, Serials, Pointers, NULL
    <2>3. IdInv'
      BY <1>0, <1>1 DEF TypeOK, IdInv, Publish, MayCall, Known, IdOf, Serials, Pointers, NULL
    <2>4. CallInv'
      BY <1>0, <1>1 DEF TypeOK, CallInv, Publish, MayCall, Known, LockInv, IdOf, Serials, Pointers, NULL
    <2>5. MarkInv'
      BY <1>0, <1>1 DEF TypeOK, MarkInv, Publish, MayCall, IdInv, CallInv, Known, Serials, Pointers, NULL
    <2>6. IterInv'
      BY <1>0, <1>1 DEF TypeOK, IterInv, Publish, MayCall, LockInv, Serials, Pointers, NULL
    <2>7. LiveInv'
      BY <1>0, <1>1 DEF TypeOK, LiveInv, Publish, MayCall, LockInv, CallInv, IterInv, Serials, Pointers, NULL
    <2> QED
      BY <2>1, <2>2, <2>3, <2>4, <2>5, <2>6, <2>7
  <1>2. ASSUME NEW t \in Threads, LockQos0(t) PROVE IInv'
    <2>1. TypeOK'
      BY <1>0, <1>2 DEF TypeOK, LockQos0, Serials, Pointers, NULL
    <2>2. LockInv'
      BY <1>0, <1>2 DEF TypeOK, LockInv, LockQos0, Serials, Pointers, NULL
    <2>3. IdInv'
      BY <1>0, <1>2 DEF TypeOK, IdInv, LockQos0, Known, IdOf, Serials, Pointers, NULL
    <2>4. CallInv'
      BY <1>0, <1>2 DEF TypeOK, CallInv, LockQos0, Known, LockInv, IdOf, Serials, Pointers, NULL
    <2>5. MarkInv'
      BY <1>0, <1>2 DEF TypeOK, MarkInv, LockQos0, IdInv, CallInv, Known, Serials, Pointers, NULL
    <2>6. IterInv'
      BY <1>0, <1>2 DEF TypeOK, IterInv, LockQos0, LockInv, Serials, Pointers, NULL
    <2>7. LiveInv'
      BY <1>0, <1>2 DEF TypeOK, LiveInv, LockQos0, LockInv, CallInv, IterInv, Serials, Pointers, NULL
    <2> QED
      BY <2>1, <2>2, <2>3, <2>4, <2>5, <2>6, <2>7
  <1>3. ASSUME NEW t \in Threads, LockQos1(t) PROVE IInv'
    <2>1. TypeOK'
      <3>1. ids' \in 0 .. MaxIds /\ next_packet_id' \in 0 .. MAX_PACKET_ID
        BY <1>3 DEF TypeOK, LockQos1, NextPacketId
      <3>2. /\ lock_write_buf' \in Threads \cup {NoThread}
            /\ pc' \in [Threads -> {"idle", "lock0", "lock1", "push", "send", "remove"}]
        BY <1>3 DEF TypeOK, LockQos1
      <3> QED
        BY <1>3, <3>1, <3>2 DEF TypeOK, LockQos1
    <2>2. LockInv'
      BY <1>0, <1>3 DEF TypeOK, LockInv, LockQos1, NextPacketId, Serials, Pointers, NULL
    <2>3. IdInv'
      BY <1>0, <1>3 DEF TypeOK, IdInv, LockQos1, NextPacketId, Known, IdOf, Serials, Pointers, NULL
    <2>4. CallInv'
      BY <1>0, <1>3 DEF TypeOK, CallInv, LockQos1, NextPacketId, Known, LockInv, IdOf, IdInv, Serials, Pointers, NULL
    <2>5. MarkInv'
      BY <1>0, <1>3 DEF TypeOK, MarkInv, LockQos1, NextPacketId, IdInv, CallInv, Known, Serials, Pointers, NULL
    <2>6. IterInv'
      BY <1>0, <1>3 DEF TypeOK, IterInv, LockQos1, NextPacketId, LockInv, Serials, Pointers, NULL
    <2>7. LiveInv'
      BY <1>0, <1>3 DEF TypeOK, LiveInv, LockQos1, NextPacketId, LockInv, CallInv, IterInv, Serials, Pointers, NULL
    <2> QED
      BY <2>1, <2>2, <2>3, <2>4, <2>5, <2>6, <2>7
  <1>4. ASSUME NEW t \in Threads, PushPubInfo(t) PROVE IInv'
    <2>a. ids \in Serials /\ ids \notin Known
      BY <1>4 DEF TypeOK, CallInv, PushPubInfo, Serials
    <2>1. TypeOK'
      <3>1. CASE PushFails(t)
        BY <1>0, <1>4, <2>a, <3>1 DEF PushFails, TypeOK, PushPubInfo, Serials, Pointers, NULL, LockInv
      <3>2. CASE PushNode(t)
        BY <1>0, <1>4, <2>a, <3>2 DEF PushNode, ListRpush, TypeOK, PushPubInfo, Serials, Pointers, NULL, LockInv
      <3> QED
        BY <1>4, <3>1, <3>2 DEF PushPubInfo
    <2>2. LockInv'
      <3>1. CASE PushFails(t)
        BY <1>0, <1>4, <2>a, <3>1 DEF PushFails, TypeOK, LockInv, PushPubInfo, Serials, Pointers, NULL
      <3>2. CASE PushNode(t)
        BY <1>0, <1>4, <2>a, <3>2 DEF PushNode, ListRpush, TypeOK, LockInv, PushPubInfo, Serials, Pointers, NULL
      <3> QED
        BY <1>4, <3>1, <3>2 DEF PushPubInfo
    <2>3. IdInv'
      <3>1. CASE PushFails(t)
        BY <1>0, <1>4, <2>a, <3>1 DEF PushFails, TypeOK, IdInv, PushPubInfo, Known, IdOf, CallInv, Serials, Pointers, NULL, LockInv
      <3>2. CASE PushNode(t)
        <4>1. Known' = Known \cup {ids}
          BY <1>4, <3>2 DEF PushNode, ListRpush, PushPubInfo, Known
        <4>2. msg_id'[ids] = IdOf(ids) /\ \A n \in Known : msg_id'[n] = msg_id[n]
          BY <2>a, <3>2 DEF PushNode, ListRpush, TypeOK, IdInv
        <4>3. \A n \in Serials : IdOf(n)' = IdOf(n)
          BY <1>4 DEF PushPubInfo, IdOf
        <4>4. next_packet_id' = IdOf(ids)' /\ ids' = ids
          BY <1>4 DEF PushPubInfo, IdOf, IdInv
        <4> QED
          <5>1. Known \subseteq Serials /\ ids \in Int
            BY DEF TypeOK, Known
          <5>2. \A n \in Known : n <= ids /\ msg_id[n] = IdOf(n)
            BY DEF IdInv
          <5>3. \A n \in Known' : n <= ids' /\ msg_id'[n] = IdOf(n)'
            BY <2>a, <4>1, <4>2, <4>3, <4>4, <5>1, <5>2
          <5> QED
            BY <4>4, <5>3 DEF IdInv
      <3> QED
        BY <1>4, <3>1, <3>2 DEF PushPubInfo
    <2>4. CallInv'
      <3>1. CASE PushFails(t)
        BY <1>0, <1>4, <2>a, <3>1 DEF PushFails, TypeOK, CallInv, PushPubInfo, Known, LockInv, IdOf, IdInv, Serials, Pointers, NULL
      <3>2. CASE PushNode(t)
        BY <1>0, <1>4, <2>a, <3>2 DEF PushNode, ListRpush, TypeOK, CallInv, PushPubInfo, Known, LockInv, IdOf, IdInv, Serials, Pointers, NULL
      <3> QED
        BY <1>4, <3>1, <3>2 DEF PushPubInfo
    <2>5. MarkInv'
      <3>1. CASE PushFails(t)
        BY <1>0, <1>4, <2>a, <3>1 DEF PushFails, TypeOK, MarkInv, PushPubInfo, IdInv, CallInv, Known, Serials, Pointers, NULL, LockInv
      <3>2. CASE PushNode(t)
        BY <1>0, <1>4, <2>a, <3>2 DEF PushNode, ListRpush, TypeOK, MarkInv, PushPubInfo, IdInv, CallInv, Known, Serials, Pointers, NULL, LockInv
      <3> QED
        BY <1>4, <3>1, <3>2 DEF PushPubInfo
    <2>6. IterInv'
      <3>1. CASE PushFails(t)
        BY <1>0, <1>4, <2>a, <3>1 DEF PushFails, TypeOK, IterInv, PushPubInfo, LockInv, Serials, Pointers, NULL
      <3>2. CASE PushNode(t)
        BY <1>0, <1>4, <2>a, <3>2 DEF PushNode, ListRpush, TypeOK, IterInv, PushPubInfo, LockInv, Serials, Pointers, NULL
      <3> QED
        BY <1>4, <3>1, <3>2 DEF PushPubInfo
    <2>7. LiveInv'
      <3>1. CASE PushFails(t)
        BY <1>0, <1>4, <2>a, <3>1 DEF PushFails, TypeOK, LiveInv, PushPubInfo, LockInv, CallInv, IterInv, Serials, Pointers, NULL
      <3>2. CASE PushNode(t)
        <4>1. /\ ids \notin list_pub_wait_ack
              /\ list_pub_wait_ack' = list_pub_wait_ack \cup {ids}
              /\ \A n \in list_pub_wait_ack : pub_start_time'[n] = pub_start_time[n]
          BY <2>a, <3>2 DEF PushNode, ListRpush, TypeOK, Known
        <4>2. \A u \in Threads : u # t => pc'[u] \notin {"send", "remove"}
          BY <1>0, <1>4, <3>2 DEF PushPubInfo, PushNode, ListRpush, TypeOK, LockInv
        <4>3. ids \notin timedout /\ timedout \subseteq Serials
          BY <2>a DEF Known, TypeOK
        <4>4. pc'[t] = "send" /\ pub_node'[t] = ids
          BY <1>4, <3>2 DEF PushPubInfo, PushNode, ListRpush, TypeOK
        <4>5. /\ \A n \in Serials : n # ids => pub_start_time'[n] = pub_start_time[n]
              /\ UNCHANGED <<timedout, failed, y_pc, y_node, y_temp>>
          BY <1>4, <3>2 DEF PushPubInfo, PushNode, ListRpush, TypeOK
        <4>6. y_pc = "window" => y_node # ids /\ y_node \in Serials
          <5>1. ASSUME y_pc = "window", y_node = ids PROVE FALSE
            BY <2>a, <5>1 DEF LiveInv, Known
          <5> QED
            BY <5>1 DEF IterInv, TypeOK, Pointers
        <4> QED
          BY <2>a, <4>1, <4>2, <4>3, <4>4, <4>5, <4>6 DEF LiveInv
      <3> QED
        BY <1>4, <3>1, <3>2 DEF PushPubInfo
    <2> QED
      BY <2>1, <2>2, <2>3, <2>4, <2>5, <2>6, <2>7
  <1>5. ASSUME NEW t \in Threads, SendOk(t) PROVE IInv'
    <2>1. TypeOK'
      BY <1>0, <1>5 DEF TypeOK, SendOk, Serials, Pointers, NULL
    <2>2. LockInv'
      BY <1>0, <1>5 DEF TypeOK, LockInv, SendOk, Serials, Pointers, NULL
    <2>3. IdInv'
      <3>1. /\ Known' \subseteq Known \cup {pub_node[t]}
            /\ pub_node[t] = NULL => Known' = Known
        BY <1>5 DEF SendOk, Known
      <3>2. pub_node[t] # NULL => pub_node[t] = ids /\ msg_id[ids] = IdOf(ids)
        BY <1>5 DEF SendOk, CallInv
      <3>3. /\ \A n \in Serials : IdOf(n)' = IdOf(n)
            /\ IdOf(ids)' = IdOf(ids) /\ msg_id' = msg_id /\ ids' = ids
            /\ next_packet_id' = next_packet_id
        BY <1>5 DEF SendOk, IdOf
      <3>4. Known \subseteq Serials /\ ids \in Int
        BY DEF TypeOK, Known
      <3> QED
        BY <3>1, <3>2, <3>3, <3>4 DEF IdInv
    <2>4. CallInv'
      BY <1>0, <1>5 DEF TypeOK, CallInv, SendOk, Known, LockInv, IdOf, Serials, Pointers, NULL
    <2>5. MarkInv'
      BY <1>0, <1>5 DEF TypeOK, MarkInv, SendOk, IdInv, CallInv, Known, Serials, Pointers, NULL
    <2>6. IterInv'
      BY <1>0, <1>5 DEF TypeOK, IterInv, SendOk, LockInv, Serials, Pointers, NULL
    <2>7. LiveInv'
      BY <1>0, <1>5 DEF TypeOK, LiveInv, SendOk, LockInv, CallInv, IterInv, Serials, Pointers, NULL
    <2> QED
      BY <2>1, <2>2, <2>3, <2>4, <2>5, <2>6, <2>7
  <1>6. ASSUME NEW t \in Threads, SendFail(t) PROVE IInv'
    <2>1. TypeOK'
      <3>1. /\ failed' \subseteq Serials
            /\ lock_write_buf' \in Threads \cup {NoThread}
            /\ pc' \in [Threads -> {"idle", "lock0", "lock1", "push", "send", "remove"}]
        BY <1>0, <1>6 DEF TypeOK, SendFail, Pointers
      <3>2. undefined' \in BOOLEAN /\ is_connected' \in BOOLEAN
        BY <1>6 DEF TypeOK, SendFail
      <3> QED
        BY <1>6, <3>1, <3>2 DEF TypeOK, SendFail
    <2>2. LockInv'
      BY <1>0, <1>6 DEF TypeOK, LockInv, SendFail, Serials, Pointers, NULL
    <2>3. IdInv'
      <3>1. /\ Known' \subseteq Known \cup {pub_node[t]}
            /\ pub_node[t] = NULL => Known' = Known
        BY <1>6 DEF SendFail, Known
      <3>2. pub_node[t] # NULL => pub_node[t] = ids /\ msg_id[ids] = IdOf(ids)
        BY <1>6 DEF SendFail, CallInv
      <3>3. /\ \A n \in Serials : IdOf(n)' = IdOf(n)
            /\ IdOf(ids)' = IdOf(ids) /\ msg_id' = msg_id /\ ids' = ids
            /\ next_packet_id' = next_packet_id
        BY <1>6 DEF SendFail, IdOf
      <3>4. Known \subseteq Serials /\ ids \in Int
        BY DEF TypeOK, Known
      <3> QED
        BY <3>1, <3>2, <3>3, <3>4 DEF IdInv
    <2>4. CallInv'
      BY <1>0, <1>6 DEF TypeOK, CallInv, SendFail, Known, LockInv, IdOf, Serials, Pointers, NULL
    <2>5. MarkInv'
      BY <1>0, <1>6 DEF TypeOK, MarkInv, SendFail, IdInv, CallInv, Known, Serials, Pointers, NULL
    <2>6. IterInv'
      BY <1>0, <1>6 DEF TypeOK, IterInv, SendFail, LockInv, Serials, Pointers, NULL
    <2>7. LiveInv'
      BY <1>0, <1>6 DEF TypeOK, LiveInv, SendFail, LockInv, CallInv, IterInv, Serials, Pointers, NULL
    <2> QED
      BY <2>1, <2>2, <2>3, <2>4, <2>5, <2>6, <2>7
  <1>7. ASSUME NEW t \in Threads, RemoveUnsent(t) PROVE IInv'
    <2>1. TypeOK'
      BY <1>0, <1>7 DEF TypeOK, RemoveUnsent, Serials, Pointers, NULL
    <2>2. LockInv'
      BY <1>0, <1>7 DEF TypeOK, LockInv, RemoveUnsent, Serials, Pointers, NULL
    <2>3. IdInv'
      BY <1>0, <1>7 DEF TypeOK, IdInv, RemoveUnsent, Known, IdOf, Serials, Pointers, NULL
    <2>4. CallInv'
      BY <1>0, <1>7 DEF TypeOK, CallInv, RemoveUnsent, Known, LockInv, IdOf, Serials, Pointers, NULL
    <2>5. MarkInv'
      BY <1>0, <1>7 DEF TypeOK, MarkInv, RemoveUnsent, IdInv, CallInv, Known, Serials, Pointers, NULL
    <2>6. IterInv'
      BY <1>0, <1>7 DEF TypeOK, IterInv, RemoveUnsent, LockInv, CallInv, Serials, Pointers, NULL
    <2>7. LiveInv'
      BY <1>0, <1>7 DEF TypeOK, LiveInv, RemoveUnsent, LockInv, CallInv, IterInv, Serials, Pointers, NULL
    <2> QED
      BY <2>1, <2>2, <2>3, <2>4, <2>5, <2>6, <2>7
  <1>8. CASE ReadOther
    <2>1. TypeOK'
      BY <1>0, <1>8 DEF TypeOK, ReadOther, Serials, Pointers, NULL
    <2>2. LockInv'
      BY <1>0, <1>8 DEF TypeOK, LockInv, ReadOther, Serials, Pointers, NULL
    <2>3. IdInv'
      BY <1>0, <1>8 DEF TypeOK, IdInv, ReadOther, Known, IdOf, Serials, Pointers, NULL
    <2>4. CallInv'
      BY <1>0, <1>8 DEF TypeOK, CallInv, ReadOther, Known, LockInv, IdOf, Serials, Pointers, NULL
    <2>5. MarkInv'
      BY <1>0, <1>8 DEF TypeOK, MarkInv, ReadOther, IdInv, CallInv, Known, Serials, Pointers, NULL
    <2>6. IterInv'
      BY <1>0, <1>8 DEF TypeOK, IterInv, ReadOther, LockInv, Serials, Pointers, NULL
    <2>7. LiveInv'
      BY <1>0, <1>8 DEF TypeOK, LiveInv, ReadOther, LockInv, CallInv, IterInv, Serials, Pointers, NULL
    <2> QED
      BY <2>1, <2>2, <2>3, <2>4, <2>5, <2>6, <2>7
  <1>9. ASSUME NEW s \in Serials, HandlePuback(s) PROVE IInv'
    <2>a. \A n \in list_pub_wait_ack : msg_id[n] = msg_id[s] <=> n = s
      BY <1>9, IdFact DEF TypeOK, HandlePuback, IdInv, Known
    <2>1. TypeOK'
      BY <1>0, <1>9 DEF TypeOK, HandlePuback, MaskPubInfo, Serials, Pointers, NULL
    <2>2. LockInv'
      BY <1>0, <1>9 DEF TypeOK, LockInv, HandlePuback, MaskPubInfo, Serials, Pointers, NULL
    <2>3. IdInv'
      BY <1>0, <1>9 DEF TypeOK, IdInv, HandlePuback, MaskPubInfo, Known, IdOf, Serials, Pointers, NULL
    <2>4. CallInv'
      BY <1>0, <1>9 DEF TypeOK, CallInv, HandlePuback, MaskPubInfo, Known, LockInv, IdOf, Serials, Pointers, NULL
    <2>5. MarkInv'
      BY <1>0, <1>9, <2>a DEF TypeOK, MarkInv, HandlePuback, MaskPubInfo, IdInv, CallInv, Known, Serials, Pointers, NULL
    <2>6. IterInv'
      BY <1>0, <1>9 DEF TypeOK, IterInv, HandlePuback, MaskPubInfo, LockInv, Serials, Pointers, NULL
    <2>7. LiveInv'
      BY <1>0, <1>9, <2>a DEF TypeOK, LiveInv, HandlePuback, MaskPubInfo, LockInv, CallInv, IterInv, Serials, Pointers, NULL, IdInv, Known
    <2> QED
      BY <2>1, <2>2, <2>3, <2>4, <2>5, <2>6, <2>7
  <1>10. CASE HandlerReturns \/ ReadFails \/ YieldAgain
    <2>1. TypeOK'
      BY <1>0, <1>10 DEF TypeOK, HandlerReturns, ReadFails, YieldAgain, Serials, Pointers, NULL
    <2>2. LockInv'
      BY <1>0, <1>10 DEF TypeOK, LockInv, HandlerReturns, ReadFails, YieldAgain, Serials, Pointers, NULL
    <2>3. IdInv'
      <3>1. UNCHANGED <<next_packet_id, first_id, ids, msg_id, Known>>
        BY <1>10 DEF HandlerReturns, ReadFails, YieldAgain, Known
      <3> QED
        BY <3>1 DEF IdInv, IdOf
    <2>4. CallInv'
      BY <1>0, <1>10 DEF TypeOK, CallInv, HandlerReturns, ReadFails, YieldAgain, Known, LockInv, IdOf, Serials, Pointers, NULL
    <2>5. MarkInv'
      BY <1>0, <1>10 DEF TypeOK, MarkInv, HandlerReturns, ReadFails, YieldAgain, IdInv, CallInv, Known, Serials, Pointers, NULL
    <2>6. IterInv'
      BY <1>0, <1>10 DEF TypeOK, IterInv, HandlerReturns, ReadFails, YieldAgain, LockInv, Serials, Pointers, NULL
    <2>7. LiveInv'
      BY <1>0, <1>10 DEF TypeOK, LiveInv, HandlerReturns, ReadFails, YieldAgain, LockInv, CallInv, IterInv, Serials, Pointers, NULL
    <2> QED
      BY <2>1, <2>2, <2>3, <2>4, <2>5, <2>6, <2>7
  <1>11. CASE ProcStart
    <2>a. ListTail(list_pub_wait_ack) = NULL \/ ListTail(list_pub_wait_ack) \in list_pub_wait_ack
      BY TailFact DEF TypeOK
    <2>1. TypeOK'
      BY <1>0, <1>11, <2>a DEF TypeOK, ProcStart, Serials, Pointers, NULL
    <2>2. LockInv'
      BY <1>0, <1>11, <2>a DEF TypeOK, LockInv, ProcStart, Serials, Pointers, NULL
    <2>3. IdInv'
      BY <1>0, <1>11, <2>a DEF TypeOK, IdInv, ProcStart, Known, IdOf, Serials, Pointers, NULL
    <2>4. CallInv'
      BY <1>0, <1>11, <2>a DEF TypeOK, CallInv, ProcStart, Known, LockInv, IdOf, Serials, Pointers, NULL
    <2>5. MarkInv'
      BY <1>0, <1>11, <2>a DEF TypeOK, MarkInv, ProcStart, IdInv, CallInv, Known, Serials, Pointers, NULL
    <2>6. IterInv'
      BY <1>0, <1>11, <2>a DEF TypeOK, IterInv, ProcStart, LockInv, Serials, Pointers, NULL
    <2>7. LiveInv'
      BY <1>0, <1>11, <2>a DEF TypeOK, LiveInv, ProcStart, LockInv, CallInv, IterInv, Serials, Pointers, NULL
    <2> QED
      BY <2>1, <2>2, <2>3, <2>4, <2>5, <2>6, <2>7
  <1>12. CASE ProcNext
    <2>a. y_pc = "iter" /\ y_iter # NULL =>
              \/ ListPrev(list_pub_wait_ack, y_iter) = NULL
              \/ /\ ListPrev(list_pub_wait_ack, y_iter) \in list_pub_wait_ack
                 /\ ListPrev(list_pub_wait_ack, y_iter) < y_iter
      BY PrevFact DEF TypeOK, Pointers
    <2>1. TypeOK'
      BY <1>0, <1>12, <2>a DEF TypeOK, ProcNext, TempNode, Expired, Serials, Pointers, NULL
    <2>2. LockInv'
      BY <1>0, <1>12, <2>a DEF TypeOK, LockInv, ProcNext, TempNode, Expired, Serials, Pointers, NULL
    <2>3. IdInv'
      BY <1>0, <1>12, <2>a DEF TypeOK, IdInv, ProcNext, TempNode, Expired, Known, IdOf, Serials, Pointers, NULL
    <2>4. CallInv'
      BY <1>0, <1>12, <2>a DEF TypeOK, CallInv, ProcNext, TempNode, Expired, Known, LockInv, IdOf, Serials, Pointers, NULL
    <2>5. MarkInv'
      BY <1>0, <1>12, <2>a DEF TypeOK, MarkInv, ProcNext, TempNode, Expired, IdInv, CallInv, Known, Serials, Pointers, NULL
    <2>6. IterInv'
      BY <1>0, <1>12, <2>a DEF TypeOK, IterInv, ProcNext, TempNode, Expired, LockInv, MarkInv, IdInv, Known, Serials, Pointers, NULL
    <2>7. LiveInv'
      BY <1>0, <1>12, <2>a DEF TypeOK, LiveInv, ProcNext, TempNode, Expired, LockInv, CallInv, IterInv, MarkInv, Known, Serials, Pointers, NULL
    <2> QED
      BY <2>1, <2>2, <2>3, <2>4, <2>5, <2>6, <2>7
  <1>13. CASE ProcTimeout
    <2>1. TypeOK'
      BY <1>0, <1>13 DEF TypeOK, ProcTimeout, Serials, Pointers, NULL, IterInv
    <2>2. LockInv'
      BY <1>0, <1>13 DEF TypeOK, LockInv, ProcTimeout, Serials, Pointers, NULL
    <2>3. IdInv'
      BY <1>0, <1>13 DEF TypeOK, IdInv, ProcTimeout, Known, IdOf, Serials, Pointers, NULL
    <2>4. CallInv'
      BY <1>0, <1>13 DEF TypeOK, CallInv, ProcTimeout, Known, LockInv, IdOf, Serials, Pointers, NULL
    <2>5. MarkInv'
      BY <1>0, <1>13 DEF TypeOK, MarkInv, ProcTimeout, IdInv, CallInv, Known, Serials, Pointers, NULL
    <2>6. IterInv'
      BY <1>0, <1>13 DEF TypeOK, IterInv, ProcTimeout, LockInv, Serials, Pointers, NULL
    <2>7. LiveInv'
      BY <1>0, <1>13 DEF TypeOK, LiveInv, ProcTimeout, LockInv, CallInv, IterInv, Serials, Pointers, NULL
    <2> QED
      BY <2>1, <2>2, <2>3, <2>4, <2>5, <2>6, <2>7
  <1>14. CASE Disconnect
    <2>1. TypeOK'
      BY <1>0, <1>14 DEF TypeOK, Disconnect, Serials, Pointers, NULL
    <2>2. LockInv'
      BY <1>0, <1>14 DEF TypeOK, LockInv, Disconnect, Serials, Pointers, NULL
    <2>3. IdInv'
      BY <1>0, <1>14 DEF TypeOK, IdInv, Disconnect, Known, IdOf, Serials, Pointers, NULL
    <2>4. CallInv'
      BY <1>0, <1>14 DEF TypeOK, CallInv, Disconnect, Known, LockInv, IdOf, Serials, Pointers, NULL
    <2>5. MarkInv'
      BY <1>0, <1>14 DEF TypeOK, MarkInv, Disconnect, IdInv, CallInv, Known, Serials, Pointers, NULL
    <2>6. IterInv'
      BY <1>0, <1>14 DEF TypeOK, IterInv, Disconnect, LockInv, Serials, Pointers, NULL
    <2>7. LiveInv'
      BY <1>0, <1>14 DEF TypeOK, LiveInv, Disconnect, LockInv, CallInv, IterInv, Serials, Pointers, NULL
    <2> QED
      BY <2>1, <2>2, <2>3, <2>4, <2>5, <2>6, <2>7
  <1>15. CASE Reconnect
    <2>1. TypeOK'
      BY <1>0, <1>15 DEF TypeOK, Reconnect, Serials, Pointers, NULL
    <2>2. LockInv'
      BY <1>0, <1>15 DEF TypeOK, LockInv, Reconnect, Serials, Pointers, NULL
    <2>3. IdInv'
      BY <1>0, <1>15 DEF TypeOK, IdInv, Reconnect, Known, IdOf, Serials, Pointers, NULL
    <2>4. CallInv'
      BY <1>0, <1>15 DEF TypeOK, CallInv, Reconnect, Known, LockInv, IdOf, Serials, Pointers, NULL
    <2>5. MarkInv'
      BY <1>0, <1>15 DEF TypeOK, MarkInv, Reconnect, IdInv, CallInv, Known, Serials, Pointers, NULL
    <2>6. IterInv'
      BY <1>0, <1>15 DEF TypeOK, IterInv, Reconnect, LockInv, Serials, Pointers, NULL
    <2>7. LiveInv'
      BY <1>0, <1>15 DEF TypeOK, LiveInv, Reconnect, LockInv, CallInv, IterInv, Serials, Pointers, NULL
    <2> QED
      BY <2>1, <2>2, <2>3, <2>4, <2>5, <2>6, <2>7
  <1>16. ASSUME NEW s \in Serials, ServerAck(s) PROVE IInv'
    <2>1. TypeOK'
      <3>1. wire \subseteq Serials /\ acks \subseteq Serials
        BY <1>0 DEF TypeOK
      <3>2. wire' \subseteq Serials /\ acks' \subseteq Serials
        BY <1>16, <3>1 DEF ServerAck
      <3> QED
        BY <1>0, <1>16, <3>2 DEF TypeOK, ServerAck
    <2>2. LockInv'
      BY <1>0, <1>16 DEF TypeOK, LockInv, ServerAck, Serials, Pointers, NULL
    <2>3. IdInv'
      BY <1>0, <1>16 DEF TypeOK, IdInv, ServerAck, Known, IdOf, Serials, Pointers, NULL
    <2>4. CallInv'
      BY <1>0, <1>16 DEF TypeOK, CallInv, ServerAck, Known, LockInv, IdOf, Serials, Pointers, NULL
    <2>5. MarkInv'
      BY <1>0, <1>16 DEF TypeOK, MarkInv, ServerAck, IdInv, CallInv, Known, Serials, Pointers, NULL
    <2>6. IterInv'
      BY <1>0, <1>16 DEF TypeOK, IterInv, ServerAck, LockInv, Serials, Pointers, NULL
    <2>7. LiveInv'
      BY <1>0, <1>16 DEF TypeOK, LiveInv, ServerAck, LockInv, CallInv, IterInv, Serials, Pointers, NULL
    <2> QED
      BY <2>1, <2>2, <2>3, <2>4, <2>5, <2>6, <2>7
  <1>17. ASSUME NEW s \in Serials, Expire(s) PROVE IInv'
    <2>1. TypeOK'
      <3>1. pub_start_time \in [Serials -> {"running", "expired", "restarted"}]
        BY <1>0 DEF TypeOK
      <3>2. pub_start_time' \in [Serials -> {"running", "expired", "restarted"}]
        BY <1>17, <3>1 DEF Expire
      <3> QED
        BY <1>0, <1>17, <3>2 DEF TypeOK, Expire
    <2>2. LockInv'
      BY <1>0, <1>17 DEF TypeOK, LockInv, Expire, Serials, Pointers, NULL
    <2>3. IdInv'
      BY <1>0, <1>17 DEF TypeOK, IdInv, Expire, Known, IdOf, Serials, Pointers, NULL
    <2>4. CallInv'
      BY <1>0, <1>17 DEF TypeOK, CallInv, Expire, Known, LockInv, IdOf, Serials, Pointers, NULL
    <2>5. MarkInv'
      BY <1>0, <1>17 DEF TypeOK, MarkInv, Expire, IdInv, CallInv, Known, Serials, Pointers, NULL
    <2>6. IterInv'
      BY <1>0, <1>17 DEF TypeOK, IterInv, Expire, LockInv, Serials, Pointers, NULL
    <2>7. LiveInv'
      BY <1>0, <1>17 DEF TypeOK, LiveInv, Expire, LockInv, CallInv, IterInv, Serials, Pointers, NULL
    <2> QED
      BY <2>1, <2>2, <2>3, <2>4, <2>5, <2>6, <2>7
  <1>18. CASE UseFreed
    <2>1. TypeOK'
      BY <1>0, <1>18 DEF TypeOK, UseFreed, Serials, Pointers, NULL
    <2>2. LockInv'
      BY <1>0, <1>18 DEF TypeOK, LockInv, UseFreed, Serials, Pointers, NULL
    <2>3. IdInv'
      BY <1>0, <1>18 DEF TypeOK, IdInv, UseFreed, Known, IdOf, Serials, Pointers, NULL
    <2>4. CallInv'
      BY <1>0, <1>18 DEF TypeOK, CallInv, UseFreed, Known, LockInv, IdOf, Serials, Pointers, NULL
    <2>5. MarkInv'
      BY <1>0, <1>18 DEF TypeOK, MarkInv, UseFreed, IdInv, CallInv, Known, Serials, Pointers, NULL
    <2>6. IterInv'
      BY <1>0, <1>18 DEF TypeOK, IterInv, UseFreed, LockInv, Serials, Pointers, NULL
    <2>7. LiveInv'
      BY <1>0, <1>18 DEF TypeOK, LiveInv, UseFreed, LockInv, CallInv, IterInv, Serials, Pointers, NULL
    <2> QED
      BY <2>1, <2>2, <2>3, <2>4, <2>5, <2>6, <2>7
  <1>20. CASE UNCHANGED vars
    BY <1>20 DEF vars, TypeOK, LockInv, IdInv, IdOf, Known, CallInv, MarkInv, IterInv, LiveInv
  <1> QED
    BY <1>1, <1>2, <1>3, <1>4, <1>5, <1>6, <1>7, <1>8, <1>9, <1>10, <1>11, <1>12, <1>13, <1>14, <1>15, <1>16, <1>17, <1>18, <1>20 DEF Next, PublishStep, YieldStep
-----------------------------------------------------------------------------
(* The inductive invariant holds in every reachable state.                   *)
THEOREM Invariance == Spec => []IInv
  <1>1. Init => IInv
    BY InitInv
  <1>2. IInv /\ [Next]_vars => IInv'
    BY StepInv
  <1> QED
    BY <1>1, <1>2, PTL DEF Spec

(* Type correctness: in particular get_next_packet_id never leaves           *)
(* 0 .. MAX_PACKET_ID.                                                       *)
THEOREM TypeCorrect == Spec => []TypeOK
  <1>1. IInv => TypeOK
    BY DEF IInv
  <1> QED
    BY <1>1, Invariance, PTL

(* Two publishes in list_pub_wait_ack never share a packet id, whatever the  *)
(* random first id and however often the ids wrap round.                     *)
THEOREM PendingIdsUnique == Spec => []UniquePendingIds
  <1>1. IInv => UniquePendingIds
    <2> SUFFICES ASSUME IInv PROVE UniquePendingIds
      OBVIOUS
    <2>1. \A n \in list_pub_wait_ack : n \in Serials /\ msg_id[n] = IdOf(n)
      BY DEF IInv, TypeOK, IdInv, Known
    <2> QED
      BY <2>1, IdFact DEF IInv, UniquePendingIds
  <1> QED
    BY <1>1, Invariance, PTL

(* A thread uses a freed node only after the failing send of a publish met   *)
(* the timeout of the same publish; the iterator of the pass never does, for *)
(* any number of publishers that append and remove nodes meanwhile.          *)
THEOREM NodeLifetime == Spec => []NodesLive
  <1>1. IInv => NodesLive
    BY DEF IInv, TypeOK, CallInv, IterInv, LiveInv, FailedLate, NodesLive, Pointers, Serials, NULL
  <1> QED
    BY <1>1, Invariance, PTL

(* After PUBLISH_SUCCESS for a message its node is never reported as timed   *)
(* out, also when the send of another message fails late.                    *)
THEOREM AckIsFinal == Spec => AckedNeverTimesOut
  <1>1. IInv /\ [Next]_vars => [\A n \in timedout' \ timedout : n \notin succeeded]_vars
    <2> SUFFICES ASSUME IInv, Next, NEW n \in timedout' \ timedout
                 PROVE  n \notin succeeded
      OBVIOUS
    <2>1. ProcTimeout
      BY DEF Next, Publish, PublishStep, LockQos0, LockQos1, PushPubInfo, SendOk,
             SendFail, RemoveUnsent, YieldStep, ReadOther, ReadFails, YieldAgain, UseFreed, HandlePuback, HandlerReturns, ProcStart,
             ProcNext, Disconnect, Reconnect, ServerAck, Expire, history
    <2> QED
      BY <2>1 DEF ProcTimeout, IInv, IterInv
  <1> QED
    BY <1>1, Invariance, PTL DEF Spec, AckedNeverTimesOut

(* Every node that leaves list_pub_wait_ack was acknowledged, reported as    *)
(* timed out, or belongs to a publish call that is returning an error.       *)
THEOREM NothingDropped == Spec => RemovedWhenSettled
  <1> DEFINE Settled(n) == \/ n \in succeeded \cup timedout
                           \/ \E t \in Threads : pc[t] = "remove" /\ pub_node[t] = n
  <1>1. IInv /\ [Next]_vars =>
           [\A n \in list_pub_wait_ack \ list_pub_wait_ack' : Settled(n)]_vars
    <2> SUFFICES ASSUME IInv, Next, NEW n \in list_pub_wait_ack \ list_pub_wait_ack'
                 PROVE  Settled(n)
      OBVIOUS
    <2>1. ProcNext \/ \E t \in Threads : RemoveUnsent(t)
      BY DEF Next, Publish, PublishStep, LockQos0, LockQos1, PushPubInfo, PushFails,
             PushNode, ListRpush, SendOk, SendFail, YieldStep, ReadOther, ReadFails, YieldAgain, UseFreed, HandlePuback,
             HandlerReturns, ProcStart, ProcTimeout, Disconnect, Reconnect, ServerAck, Expire, nodes
    <2>2. CASE ProcNext
      BY <2>2 DEF ProcNext, IInv, IterInv, TypeOK, Serials, NULL
    <2>3. CASE \E t \in Threads : RemoveUnsent(t)
      BY <2>3 DEF RemoveUnsent
    <2> QED
      BY <2>1, <2>2, <2>3
  <1> QED
    BY <1>1, Invariance, PTL DEF Spec, RemovedWhenSettled

(* list_pub_wait_ack never outgrows MAX_REPUB_NUM.                           *)
THEOREM Bounded == Spec => []ListBounded
  <1>1. ASSUME TypeOK PROVE IsFiniteSet(list_pub_wait_ack) /\ Cardinality(list_pub_wait_ack) \in Nat
    <2>1. IsFiniteSet(Serials)
      BY IdsAssumption, FS_Interval DEF Serials
    <2>2. IsFiniteSet(list_pub_wait_ack)
      BY <1>1, <2>1, FS_Subset DEF TypeOK
    <2> QED
      BY <2>2, FS_CardinalityType
  <1>2. Init => ListBounded
    BY FS_EmptySet, SizesAssumption DEF Init, ListBounded
  <1>3. IInv /\ ListBounded /\ [Next]_vars => ListBounded'
    <2> SUFFICES ASSUME IInv, ListBounded, [Next]_vars PROVE ListBounded'
      OBVIOUS
    <2>1. IsFiniteSet(list_pub_wait_ack) /\ Cardinality(list_pub_wait_ack) \in Nat
      BY <1>1 DEF IInv
    <2>2. \/ list_pub_wait_ack' \subseteq list_pub_wait_ack
          \/ \E t \in Threads : PushNode(t)
      BY DEF Next, Publish, PublishStep, LockQos0, LockQos1, PushPubInfo, PushFails,
             SendOk, SendFail, RemoveUnsent, YieldStep, ReadOther, ReadFails, YieldAgain, UseFreed, HandlePuback, HandlerReturns,
             ProcStart, ProcNext, ProcTimeout, Disconnect, Reconnect, ServerAck, Expire, nodes, vars
    <2>3. CASE list_pub_wait_ack' \subseteq list_pub_wait_ack
      <3>1. Cardinality(list_pub_wait_ack') <= Cardinality(list_pub_wait_ack)
        BY <2>1, <2>3, FS_Subset
      <3>2. Cardinality(list_pub_wait_ack') \in Nat
        BY <2>1, <2>3, FS_Subset, FS_CardinalityType
      <3> QED
        BY <2>1, <3>1, <3>2, SizesAssumption DEF ListBounded
    <2>4. ASSUME NEW t \in Threads, PushNode(t) PROVE ListBounded'
      <3>1. list_pub_wait_ack' = list_pub_wait_ack \cup {ids}
        BY <2>4 DEF PushNode, ListRpush
      <3>2. Cardinality(list_pub_wait_ack') \in {Cardinality(list_pub_wait_ack),
                                                 Cardinality(list_pub_wait_ack) + 1}
        BY <2>1, <3>1, FS_AddElement
      <3> QED
        BY <2>1, <2>4, <3>2, SizesAssumption DEF PushNode, ListBounded
    <2> QED
      BY <2>2, <2>3, <2>4
  <1> QED
    BY <1>2, <1>3, Invariance, PTL DEF Spec

-----------------------------------------------------------------------------
(* MqttLocks: the places where a thread holds a mutex.                       *)

WriteHeld == {"p_id", "p_id_taken", "p_push", "p_pushed", "p_send", "p_remove", "p_removed",
              "p_end", "s_id", "s_id_taken", "s_push", "s_pushed", "s_send", "s_remove",
              "s_removed", "s_end", "d_sent", "puback_sent", "ping_sent", "lost_sent",
              "connect_sent"}
GenericHeld == {"p_state_read", "p_id_taken", "s_state_read", "s_id_taken", "u_handler",
                "q_state_read", "d_state_read", "d_downed", "top_read", "suback_find",
                "suback_mark", "suback_install", "ack_unsub_handler", "deliver_find",
                "pong_reset", "ping_counted", "lost_read", "lost_downed", "connect_upped"}
SubHeld == {"s_pushed", "s_removed", "suback_mark", "ack_unsub_mark", "pass_sub", "sub_handler"}
PubHeld == {"p_pushed", "p_removed", "ack_pub_mark", "pass_pub", "pub_handler"}
Held(m) == IF m = "write_buf" THEN WriteHeld
           ELSE IF m = "generic" THEN GenericHeld
           ELSE IF m = "list_sub" THEN SubHeld ELSE PubHeld

(* The order of the mutexes: lock_write_buf, lock_generic, the lists.        *)
Rank(m) == IF m = "write_buf" THEN 1 ELSE IF m = "generic" THEN 2 ELSE 3

(* What a row of the tables must do: a mutex is taken where only mutexes of  *)
(* a lower rank are held, and released where it is held.                     *)
TakeOk(from, m, to) ==
  /\ m \in Mutexes
  /\ \A h \in Mutexes : from \in Held(h) => Rank(h) < Rank(m)
  /\ \A h \in Mutexes : to \in Held(h) <=> from \in Held(h) \/ h = m
GiveOk(from, m, to) ==
  /\ m \in Mutexes /\ from \in Held(m)
  /\ \A h \in Mutexes : to \in Held(h) <=> from \in Held(h) /\ h # m
MoveOk(from, to) == \A h \in Mutexes : to \in Held(h) <=> from \in Held(h)

(* Every row of every table does.                                            *)
LEMMA TakesFact == \A r \in Takes : TakeOk(r[1], r[2], r[3])
<1>1. \A r \in PublishTakes : TakeOk(r[1], r[2], r[3])
  BY DEF PublishTakes, TakeOk, Mutexes, Held, WriteHeld, GenericHeld, SubHeld, PubHeld, Rank
<1>2. \A r \in SubscribeTakes : TakeOk(r[1], r[2], r[3])
  BY DEF SubscribeTakes, TakeOk, Mutexes, Held, WriteHeld, GenericHeld, SubHeld, PubHeld, Rank
<1>3. \A r \in UnsubscribeTakes : TakeOk(r[1], r[2], r[3])
  BY DEF UnsubscribeTakes, TakeOk, Mutexes, Held, WriteHeld, GenericHeld, SubHeld, PubHeld, Rank
<1>4. \A r \in QueryTakes : TakeOk(r[1], r[2], r[3])
  BY DEF QueryTakes, TakeOk, Mutexes, Held, WriteHeld, GenericHeld, SubHeld, PubHeld, Rank
<1>5. \A r \in DisconnectTakes : TakeOk(r[1], r[2], r[3])
  BY DEF DisconnectTakes, TakeOk, Mutexes, Held, WriteHeld, GenericHeld, SubHeld, PubHeld, Rank
<1>6. \A r \in LoopTakes : TakeOk(r[1], r[2], r[3])
  BY DEF LoopTakes, TakeOk, Mutexes, Held, WriteHeld, GenericHeld, SubHeld, PubHeld, Rank
<1>7. \A r \in PubackTakes : TakeOk(r[1], r[2], r[3])
  BY DEF PubackTakes, TakeOk, Mutexes, Held, WriteHeld, GenericHeld, SubHeld, PubHeld, Rank
<1>8. \A r \in SubackTakes : TakeOk(r[1], r[2], r[3])
  BY DEF SubackTakes, TakeOk, Mutexes, Held, WriteHeld, GenericHeld, SubHeld, PubHeld, Rank
<1>9. \A r \in UnsubackTakes : TakeOk(r[1], r[2], r[3])
  BY DEF UnsubackTakes, TakeOk, Mutexes, Held, WriteHeld, GenericHeld, SubHeld, PubHeld, Rank
<1>10. \A r \in DeliverTakes : TakeOk(r[1], r[2], r[3])
  BY DEF DeliverTakes, TakeOk, Mutexes, Held, WriteHeld, GenericHeld, SubHeld, PubHeld, Rank
<1>11. \A r \in PongTakes : TakeOk(r[1], r[2], r[3])
  BY DEF PongTakes, TakeOk, Mutexes, Held, WriteHeld, GenericHeld, SubHeld, PubHeld, Rank
<1>12. \A r \in PubPassTakes : TakeOk(r[1], r[2], r[3])
  BY DEF PubPassTakes, TakeOk, Mutexes, Held, WriteHeld, GenericHeld, SubHeld, PubHeld, Rank
<1>13. \A r \in SubPassTakes : TakeOk(r[1], r[2], r[3])
  BY DEF SubPassTakes, TakeOk, Mutexes, Held, WriteHeld, GenericHeld, SubHeld, PubHeld, Rank
<1>14. \A r \in PingTakes : TakeOk(r[1], r[2], r[3])
  BY DEF PingTakes, TakeOk, Mutexes, Held, WriteHeld, GenericHeld, SubHeld, PubHeld, Rank
<1>15. \A r \in LostTakes : TakeOk(r[1], r[2], r[3])
  BY DEF LostTakes, TakeOk, Mutexes, Held, WriteHeld, GenericHeld, SubHeld, PubHeld, Rank
<1>16. \A r \in ConnectTakes : TakeOk(r[1], r[2], r[3])
  BY DEF ConnectTakes, TakeOk, Mutexes, Held, WriteHeld, GenericHeld, SubHeld, PubHeld, Rank
<1> QED
  BY <1>1, <1>2, <1>3, <1>4, <1>5, <1>6, <1>7, <1>8, <1>9, <1>10, <1>11,
     <1>12, <1>13, <1>14, <1>15, <1>16 DEF Takes

LEMMA GivesFact == \A r \in Gives : GiveOk(r[1], r[2], r[3])
<1>1. \A r \in PublishGives : GiveOk(r[1], r[2], r[3])
  BY DEF PublishGives, GiveOk, Mutexes, Held, WriteHeld, GenericHeld, SubHeld, PubHeld
<1>2. \A r \in SubscribeGives : GiveOk(r[1], r[2], r[3])
  BY DEF SubscribeGives, GiveOk, Mutexes, Held, WriteHeld, GenericHeld, SubHeld, PubHeld
<1>3. \A r \in UnsubscribeGives : GiveOk(r[1], r[2], r[3])
  BY DEF UnsubscribeGives, GiveOk, Mutexes, Held, WriteHeld, GenericHeld, SubHeld, PubHeld
<1>4. \A r \in QueryGives : GiveOk(r[1], r[2], r[3])
  BY DEF QueryGives, GiveOk, Mutexes, Held, WriteHeld, GenericHeld, SubHeld, PubHeld
<1>5. \A r \in DisconnectGives : GiveOk(r[1], r[2], r[3])
  BY DEF DisconnectGives, GiveOk, Mutexes, Held, WriteHeld, GenericHeld, SubHeld, PubHeld
<1>6. \A r \in LoopGives : GiveOk(r[1], r[2], r[3])
  BY DEF LoopGives, GiveOk, Mutexes, Held, WriteHeld, GenericHeld, SubHeld, PubHeld
<1>7. \A r \in PubackGives : GiveOk(r[1], r[2], r[3])
  BY DEF PubackGives, GiveOk, Mutexes, Held, WriteHeld, GenericHeld, SubHeld, PubHeld
<1>8. \A r \in SubackGives : GiveOk(r[1], r[2], r[3])
  BY DEF SubackGives, GiveOk, Mutexes, Held, WriteHeld, GenericHeld, SubHeld, PubHeld
<1>9. \A r \in UnsubackGives : GiveOk(r[1], r[2], r[3])
  BY DEF UnsubackGives, GiveOk, Mutexes, Held, WriteHeld, GenericHeld, SubHeld, PubHeld
<1>10. \A r \in DeliverGives : GiveOk(r[1], r[2], r[3])
  BY DEF DeliverGives, GiveOk, Mutexes, Held, WriteHeld, GenericHeld, SubHeld, PubHeld
<1>11. \A r \in PongGives : GiveOk(r[1], r[2], r[3])
  BY DEF PongGives, GiveOk, Mutexes, Held, WriteHeld, GenericHeld, SubHeld, PubHeld
<1>12. \A r \in PubPassGives : GiveOk(r[1], r[2], r[3])
  BY DEF PubPassGives, GiveOk, Mutexes, Held, WriteHeld, GenericHeld, SubHeld, PubHeld
<1>13. \A r \in SubPassGives : GiveOk(r[1], r[2], r[3])
  BY DEF SubPassGives, GiveOk, Mutexes, Held, WriteHeld, GenericHeld, SubHeld, PubHeld
<1>14. \A r \in PingGives : GiveOk(r[1], r[2], r[3])
  BY DEF PingGives, GiveOk, Mutexes, Held, WriteHeld, GenericHeld, SubHeld, PubHeld
<1>15. \A r \in LostGives : GiveOk(r[1], r[2], r[3])
  BY DEF LostGives, GiveOk, Mutexes, Held, WriteHeld, GenericHeld, SubHeld, PubHeld
<1>16. \A r \in ConnectGives : GiveOk(r[1], r[2], r[3])
  BY DEF ConnectGives, GiveOk, Mutexes, Held, WriteHeld, GenericHeld, SubHeld, PubHeld
<1> QED
  BY <1>1, <1>2, <1>3, <1>4, <1>5, <1>6, <1>7, <1>8, <1>9, <1>10, <1>11,
     <1>12, <1>13, <1>14, <1>15, <1>16 DEF Gives

LEMMA MovesFact == \A r \in Moves : MoveOk(r[1], r[2])
<1>1. \A r \in PublishMoves : MoveOk(r[1], r[2])
  BY DEF PublishMoves, MoveOk, Mutexes, Held, WriteHeld, GenericHeld, SubHeld, PubHeld
<1>2. \A r \in SubscribeMoves : MoveOk(r[1], r[2])
  BY DEF SubscribeMoves, MoveOk, Mutexes, Held, WriteHeld, GenericHeld, SubHeld, PubHeld
<1>3. \A r \in ReadMoves : MoveOk(r[1], r[2])
  BY DEF ReadMoves, MoveOk, Mutexes, Held, WriteHeld, GenericHeld, SubHeld, PubHeld
<1>4. \A r \in PubackMoves : MoveOk(r[1], r[2])
  BY DEF PubackMoves, MoveOk, Mutexes, Held, WriteHeld, GenericHeld, SubHeld, PubHeld
<1>5. \A r \in SubackMoves : MoveOk(r[1], r[2])
  BY DEF SubackMoves, MoveOk, Mutexes, Held, WriteHeld, GenericHeld, SubHeld, PubHeld
<1>6. \A r \in DeliverMoves : MoveOk(r[1], r[2])
  BY DEF DeliverMoves, MoveOk, Mutexes, Held, WriteHeld, GenericHeld, SubHeld, PubHeld
<1>7. \A r \in PubPassMoves : MoveOk(r[1], r[2])
  BY DEF PubPassMoves, MoveOk, Mutexes, Held, WriteHeld, GenericHeld, SubHeld, PubHeld
<1>8. \A r \in SubPassMoves : MoveOk(r[1], r[2])
  BY DEF SubPassMoves, MoveOk, Mutexes, Held, WriteHeld, GenericHeld, SubHeld, PubHeld
<1>9. \A r \in PingMoves : MoveOk(r[1], r[2])
  BY DEF PingMoves, MoveOk, Mutexes, Held, WriteHeld, GenericHeld, SubHeld, PubHeld
<1>10. \A r \in LostMoves : MoveOk(r[1], r[2])
  BY DEF LostMoves, MoveOk, Mutexes, Held, WriteHeld, GenericHeld, SubHeld, PubHeld
<1>11. \A r \in ConnectMoves : MoveOk(r[1], r[2])
  BY DEF ConnectMoves, MoveOk, Mutexes, Held, WriteHeld, GenericHeld, SubHeld, PubHeld
<1> QED
  BY <1>1, <1>2, <1>3, <1>4, <1>5, <1>6, <1>7, <1>8, <1>9, <1>10, <1>11 DEF
     Moves

(* No mutex is held outside of the client, where a request starts and where  *)
(* the other handlers run.                                                   *)
LEMMA PlacesFact ==
  /\ \A m \in Mutexes : "out" \notin Held(m) /\ "top" \notin Held(m)
  /\ \A e \in RequestEntries, m \in Mutexes : e \notin Held(m) /\ e # "out"
  /\ \A p \in HandlerPlaces, m \in Mutexes : p \in Held(m) => p \in HandlersUnderMutex
<1>1. \A m \in Mutexes : "out" \notin Held(m) /\ "top" \notin Held(m)
  BY DEF Mutexes, Held, WriteHeld, GenericHeld, SubHeld, PubHeld
<1>2. \A e \in RequestEntries, m \in Mutexes : e \notin Held(m) /\ e # "out"
  BY DEF RequestEntries, Mutexes, Held, WriteHeld, GenericHeld, SubHeld, PubHeld
<1>3. \A p \in HandlerPlaces, m \in Mutexes : p \in Held(m) => p \in HandlersUnderMutex
  BY DEF HandlerPlaces, HandlersUnderMutex, Mutexes, Held, WriteHeld, GenericHeld, SubHeld, PubHeld
<1> QED
  BY <1>1, <1>2, <1>3

(* A thread owns what it holds at its places; it makes a request of its own  *)
(* only in a handler, and holds no mutex twice.                              *)
Places(f) == DOMAIN f = Users /\ f = [t \in Users |-> f[t]]
LocksInv ==
  /\ owner \in [Mutexes -> Users \cup {Nobody}]
  /\ Places(place) /\ Places(call)
  /\ \A t \in Users, m \in Mutexes :
       /\ owner[m] = t <=> place[t] \in Held(m) \/ call[t] \in Held(m)
       /\ ~(place[t] \in Held(m) /\ call[t] \in Held(m))
  /\ \A t \in Users : call[t] # "out" => place[t] \in HandlerPlaces

LEMMA LocksInitInv == LocksInit => LocksInv
<1> SUFFICES ASSUME LocksInit PROVE LocksInv
  OBVIOUS
<1>1. Places(place) /\ Places(call)
  BY DEF LocksInit, Places
<1>2. /\ owner \in [Mutexes -> Users \cup {Nobody}]
      /\ \A m \in Mutexes : owner[m] = Nobody
  BY DEF LocksInit
<1>3. \A t \in Users : place[t] \in {"top", "out"} /\ call[t] = "out" /\ t # Nobody
  BY LocksAssumption DEF LocksInit, Users
<1>4. \A t \in Users, m \in Mutexes : place[t] \notin Held(m) /\ call[t] \notin Held(m)
  BY <1>3, PlacesFact
<1> QED
  BY <1>1, <1>2, <1>3, <1>4 DEF LocksInv

(* A step of one thread moves it in the request of its handler, or in the    *)
(* function itself when there is none.                                       *)
LEMMA GoesFact ==
  ASSUME LocksInv, NEW t \in Users, NEW from, NEW to, Goes(t, from, to)
  PROVE  /\ Places(place)' /\ Places(call)'
         /\ \A u \in Users : u # t => place'[u] = place[u] /\ call'[u] = call[u]
         /\ call'[t] # "out" => place'[t] \in HandlerPlaces
         /\ \/ place[t] = from /\ place'[t] = to /\ call'[t] = "out" /\ call[t] = "out"
            \/ call[t] = from /\ call'[t] = to /\ place'[t] = place[t] /\ call[t] # "out"
<1>1. CASE call[t] # "out" /\ call[t] = from /\ call' = [call EXCEPT ![t] = to] /\ UNCHANGED place
  <2>1. Places(call)' /\ call'[t] = to /\ \A u \in Users : u # t => call'[u] = call[u]
    BY <1>1 DEF LocksInv, Places
  <2> QED
    BY <1>1, <2>1 DEF LocksInv, Places
<1>2. CASE call[t] = "out" /\ place[t] = from /\ place' = [place EXCEPT ![t] = to] /\ UNCHANGED call
  <2>1. Places(place)' /\ place'[t] = to /\ \A u \in Users : u # t => place'[u] = place[u]
    BY <1>2 DEF LocksInv, Places
  <2> QED
    BY <1>2, <2>1 DEF LocksInv, Places
<1> QED
  BY <1>1, <1>2 DEF Goes

LEMMA LocksStepInv == LocksInv /\ [LocksNext]_locksVars => LocksInv'
<1> SUFFICES ASSUME LocksInv, [LocksNext]_locksVars PROVE LocksInv'
  OBVIOUS
<1>1. ASSUME NEW t \in Users, Enter(t) PROVE LocksInv'
  <2>1. PICK e \in RequestEntries : place' = [place EXCEPT ![t] = e] /\ UNCHANGED <<owner, call>>
    BY <1>1 DEF Enter
  <2>2. Places(place)' /\ place'[t] = e /\ \A u \in Users : u # t => place'[u] = place[u]
    BY <2>1 DEF LocksInv, Places
  <2>3. call[t] = "out" \/ place[t] \in HandlerPlaces
    BY DEF LocksInv
  <2>4. place[t] = "out" /\ "out" \notin HandlerPlaces
    BY <1>1 DEF Enter, HandlerPlaces
  <2>5. call[t] = "out" /\ \A m \in Mutexes : owner[m] # t
    BY <2>3, <2>4, PlacesFact DEF LocksInv
  <2>6. \A m \in Mutexes : e \notin Held(m) /\ "out" \notin Held(m)
    BY PlacesFact
  <2> QED
    BY <2>1, <2>2, <2>5, <2>6 DEF LocksInv, Places
<1>2. ASSUME NEW t \in Users, Nest(t) PROVE LocksInv'
  <2>1. PICK e \in RequestEntries : call' = [call EXCEPT ![t] = e] /\ UNCHANGED <<owner, place>>
    BY <1>2 DEF Nest
  <2>2. Places(call)' /\ call'[t] = e /\ \A u \in Users : u # t => call'[u] = call[u]
    BY <2>1 DEF LocksInv, Places
  <2>3. place[t] \in HandlerPlaces /\ call[t] = "out"
    BY <1>2 DEF Nest
  <2>4. \A m \in Mutexes : e \notin Held(m) /\ "out" \notin Held(m)
    BY PlacesFact
  <2> QED
    BY <2>1, <2>2, <2>3, <2>4 DEF LocksInv, Places
<1>3. ASSUME NEW t \in Users, Take(t) PROVE LocksInv'
  <2>1. PICK r \in Takes : /\ owner[r[2]] = Nobody
                           /\ Goes(t, r[1], r[3])
                           /\ owner' = [owner EXCEPT ![r[2]] = t]
    BY <1>3 DEF Take
  <2>2. PICK from, m, to : from = r[1] /\ m = r[2] /\ to = r[3]
    OBVIOUS
  <2>3. /\ m \in Mutexes
        /\ \A h \in Mutexes : to \in Held(h) <=> from \in Held(h) \/ h = m
    BY <2>2, TakesFact DEF TakeOk
  <2>4. owner[m] = Nobody /\ owner' = [owner EXCEPT ![m] = t] /\ Goes(t, from, to)
    BY <2>1, <2>2
  <2>5. /\ owner' \in [Mutexes -> Users \cup {Nobody}] /\ owner'[m] = t
        /\ \A h \in Mutexes : h # m => owner'[h] = owner[h]
    BY <2>3, <2>4 DEF LocksInv
  <2>6. \A u \in Users : u # Nobody /\ place[u] \notin Held(m) /\ call[u] \notin Held(m)
    BY <2>3, <2>4, LocksAssumption DEF LocksInv, Users
  <2>7. \A h \in Mutexes : "out" \notin Held(h)
    BY PlacesFact
  <2>8. /\ Places(place)' /\ Places(call)'
        /\ \A u \in Users : u # t => place'[u] = place[u] /\ call'[u] = call[u]
        /\ call'[t] # "out" => place'[t] \in HandlerPlaces
        /\ \/ place[t] = from /\ place'[t] = to /\ call'[t] = "out" /\ call[t] = "out"
           \/ call[t] = from /\ call'[t] = to /\ place'[t] = place[t] /\ call[t] # "out"
    BY <2>4, GoesFact
  <2>9. ASSUME NEW u \in Users, NEW h \in Mutexes
        PROVE  /\ owner'[h] = u <=> place'[u] \in Held(h) \/ call'[u] \in Held(h)
               /\ ~(place'[u] \in Held(h) /\ call'[u] \in Held(h))
    <3>1. /\ owner[h] = u <=> place[u] \in Held(h) \/ call[u] \in Held(h)
          /\ ~(place[u] \in Held(h) /\ call[u] \in Held(h))
      BY DEF LocksInv
    <3>2. CASE u = t
      BY <2>3, <2>5, <2>6, <2>7, <2>8, <3>1, <3>2
    <3>3. CASE u # t
      BY <2>3, <2>5, <2>6, <2>8, <3>1, <3>3
    <3> QED
      BY <3>2, <3>3
  <2>10. \A u \in Users : call'[u] # "out" => place'[u] \in HandlerPlaces
    BY <2>8 DEF LocksInv
  <2> QED
    BY <2>5, <2>8, <2>9, <2>10 DEF LocksInv
<1>4. ASSUME NEW t \in Users, Give(t) PROVE LocksInv'
  <2>1. PICK r \in Gives : /\ Goes(t, r[1], r[3])
                           /\ owner' = [owner EXCEPT ![r[2]] = Nobody]
    BY <1>4 DEF Give
  <2>2. PICK from, m, to : from = r[1] /\ m = r[2] /\ to = r[3]
    OBVIOUS
  <2>3. /\ m \in Mutexes /\ from \in Held(m)
        /\ \A h \in Mutexes : to \in Held(h) <=> from \in Held(h) /\ h # m
    BY <2>2, GivesFact DEF GiveOk
  <2>4. owner' = [owner EXCEPT ![m] = Nobody] /\ Goes(t, from, to)
    BY <2>1, <2>2
  <2>5. /\ owner' \in [Mutexes -> Users \cup {Nobody}] /\ owner'[m] = Nobody
        /\ \A h \in Mutexes : h # m => owner'[h] = owner[h]
    BY <2>3, <2>4 DEF LocksInv
  <2>6. \A u \in Users : u # Nobody
    BY LocksAssumption DEF Users
  <2>7. \A h \in Mutexes : "out" \notin Held(h)
    BY PlacesFact
  <2>8. /\ Places(place)' /\ Places(call)'
        /\ \A u \in Users : u # t => place'[u] = place[u] /\ call'[u] = call[u]
        /\ call'[t] # "out" => place'[t] \in HandlerPlaces
        /\ \/ place[t] = from /\ place'[t] = to /\ call'[t] = "out" /\ call[t] = "out"
           \/ call[t] = from /\ call'[t] = to /\ place'[t] = place[t] /\ call[t] # "out"
    BY <2>4, GoesFact
  <2>9. ASSUME NEW u \in Users, NEW h \in Mutexes
        PROVE  /\ owner'[h] = u <=> place'[u] \in Held(h) \/ call'[u] \in Held(h)
               /\ ~(place'[u] \in Held(h) /\ call'[u] \in Held(h))
    <3>1. /\ \A k \in Mutexes : owner[k] = u <=> place[u] \in Held(k) \/ call[u] \in Held(k)
          /\ \A k \in Mutexes : ~(place[u] \in Held(k) /\ call[u] \in Held(k))
          /\ owner[m] = t
      BY <2>3, <2>8 DEF LocksInv
    <3>2. CASE u = t
      BY <2>3, <2>5, <2>6, <2>7, <2>8, <3>1, <3>2
    <3>3. CASE u # t
      BY <2>3, <2>5, <2>6, <2>8, <3>1, <3>3
    <3> QED
      BY <3>2, <3>3
  <2>10. \A u \in Users : call'[u] # "out" => place'[u] \in HandlerPlaces
    BY <2>8 DEF LocksInv
  <2> QED
    BY <2>5, <2>8, <2>9, <2>10 DEF LocksInv
<1>5. ASSUME NEW t \in Users, Move(t) PROVE LocksInv'
  <2>1. PICK r \in Moves : Goes(t, r[1], r[2]) /\ UNCHANGED owner
    BY <1>5 DEF Move
  <2>2. PICK from, to : from = r[1] /\ to = r[2]
    OBVIOUS
  <2>3. \A h \in Mutexes : to \in Held(h) <=> from \in Held(h)
    BY <2>2, MovesFact DEF MoveOk
  <2>4. Goes(t, from, to)
    BY <2>1, <2>2
  <2>8. /\ Places(place)' /\ Places(call)'
        /\ \A u \in Users : u # t => place'[u] = place[u] /\ call'[u] = call[u]
        /\ call'[t] # "out" => place'[t] \in HandlerPlaces
        /\ \/ place[t] = from /\ place'[t] = to /\ call'[t] = "out" /\ call[t] = "out"
           \/ call[t] = from /\ call'[t] = to /\ place'[t] = place[t] /\ call[t] # "out"
    BY <2>4, GoesFact
  <2>9. ASSUME NEW u \in Users, NEW h \in Mutexes
        PROVE  /\ owner'[h] = u <=> place'[u] \in Held(h) \/ call'[u] \in Held(h)
               /\ ~(place'[u] \in Held(h) /\ call'[u] \in Held(h))
    <3>1. /\ owner[h] = u <=> place[u] \in Held(h) \/ call[u] \in Held(h)
          /\ ~(place[u] \in Held(h) /\ call[u] \in Held(h))
          /\ owner' = owner
      BY <2>1 DEF LocksInv
    <3> QED
      BY <2>3, <2>8, <3>1
  <2>10. \A u \in Users : call'[u] # "out" => place'[u] \in HandlerPlaces
    BY <2>8 DEF LocksInv
  <2> QED
    BY <2>1, <2>8, <2>9, <2>10 DEF LocksInv
<1>6. CASE UNCHANGED locksVars
  BY <1>6 DEF locksVars, LocksInv, Places
<1> QED
  BY <1>1, <1>2, <1>3, <1>4, <1>5, <1>6 DEF LocksNext

(* No deadlock on the four mutexes among any number of threads, unless a     *)
(* handler makes a request under a mutex its caller holds.                   *)
THEOREM LockOrder == LocksSpec => []NoLockCycle
<1>1. LocksInv => NoLockCycle
  <2> SUFFICES ASSUME LocksInv, NEW D \in SUBSET Users, D # {},
                      \A t \in D : WaitsIn(t, D), \A t \in D : ~Reenters(t)
               PROVE  FALSE
    BY DEF NoLockCycle
  <2> DEFINE Waited(m) == m \in Mutexes /\ owner[m] \in D
  <2>1. ASSUME NEW t \in D
        PROVE  \E m \in Mutexes :
                 Waited(m) /\ \A h \in Mutexes : owner[h] = t => Rank(h) < Rank(m)
    <3>1. PICK r \in Takes : r[1] = At(t) /\ owner[r[2]] \in D
      BY DEF WaitsIn
    <3>2. TakeOk(r[1], r[2], r[3])
      BY TakesFact
    <3>3. \A h \in Mutexes : owner[h] = t => At(t) \in Held(h)
      BY PlacesFact DEF LocksInv, At, Reenters
    <3> QED
      BY <3>1, <3>2, <3>3 DEF TakeOk
  <2>2. \A h \in Mutexes : Waited(h) => \E m \in Mutexes : Waited(m) /\ Rank(h) < Rank(m)
    BY <2>1
  <2>3. \A m \in Mutexes : Rank(m) \in 1..3
    BY DEF Rank
  <2>4. \E m \in Mutexes : Waited(m)
    BY <2>1
  <2> HIDE DEF Waited
  <2>5. \A m \in Mutexes : Waited(m) => Rank(m) # 3
    BY <2>2, <2>3
  <2>6. \A m \in Mutexes : Waited(m) => Rank(m) # 2
    BY <2>2, <2>3, <2>5
  <2> QED
    BY <2>2, <2>3, <2>4, <2>5, <2>6
<1>2. LocksSpec => []LocksInv
  BY LocksInitInv, LocksStepInv, PTL DEF LocksSpec
<1> QED
  BY <1>1, <1>2, PTL
=============================================================================
