--------------------------- MODULE ServiceProofs ---------------------------
(* Safety of two services that share no state: the device shadow and the log *)
(* uploader. Each theorem speaks of the specification of one of them.        *)
(*                                                                           *)
(* Shadow, for any number of application threads, requests, registered       *)
(* properties and deltas, with a mutex that is recursive or not, and with    *)
(* callbacks that make requests. CallInv: a request in the list was not      *)
(* called back yet, so whoever takes it out (a reply, a reply with the same  *)
(* token, the pass over expired requests) may call it. SendInv: a request    *)
(* its thread is still working on is listed by nobody else. WaiterSettled:   *)
(* a request its thread waits for is in the list until it was called back.   *)
(* A callback that made its thread lock itself up leaves its request in the  *)
(* list; nobody takes the mutex any more, so nothing is called back again.   *)
(*                                                                           *)
(* LogUpload, for any buffer, POST and storage sizes, records, failures and  *)
(* restarts. The buffer is a header, the records still to be posted, a gap   *)
(* and the records appended meanwhile (Layout, with the bounds Lo and Hi);   *)
(* Filled says that a range consists of whole records, each once.            *)
(* BufferInv, StorageInv and CopyInv say that of the buffer, of the saved    *)
(* log and of the copy of it that is posted, UploadInv fixes the locals,     *)
(* FreshInv and KeptInv relate what they hold to what the server received.   *)
(* All of this holds until a message on the log topic empties the buffer     *)
(* under an upload that has read its size (disturbed).                       *)
EXTENDS Shadow, LogUpload, FiniteSetTheorems, SequenceTheorems, TLAPS

-----------------------------------------------------------------------------
(* The device shadow.                                                        *)

Made == 1..made

TypeOK ==
    /\ mutex \in Apps \cup {Reader, NoThread}
    /\ request_list \subseteq Requests
    /\ pc \in [Apps -> {"idle", "token", "publish", "add", "wait"}]
    /\ req \in [Apps -> Requests \cup {None}]
    /\ made \in 0..MaxRequests
    /\ ack \in [Requests -> {"ACK_NONE", "ACK_ACCEPTED", "ACK_REJECTED", "ACK_TIMEOUT"}]
    /\ calls \in [Requests -> Nat]

(* Nothing still to be made was called back, and nothing listed that can     *)
(* still be reached.                                                         *)
CallInv ==
    /\ \A r \in Requests : calls[r] <= 1
    /\ mutex = NoThread => \A r \in request_list : calls[r] = 0
    /\ \A r \in Requests \ Made : calls[r] = 0

Sending(t) == pc[t] \in {"token", "publish", "add"}

(* A request on its way into the list belongs to one thread.                 *)
SendInv ==
    /\ request_list \subseteq Made
    /\ \A t \in Apps : pc[t] # "idle" => req[t] \in Made
    /\ \A t \in Apps : Sending(t) =>
          /\ req[t] \notin request_list
          /\ calls[req[t]] = 0
          /\ \A u \in Apps : Sending(u) /\ req[u] = req[t] => u = t

IInv == TypeOK /\ CallInv /\ SendInv /\ WaiterSettled

USE ShadowAssumption

(* A new request takes a token that may be another one's.                     *)
LEMMA ReadTokenStep ==
  ASSUME NEW t \in Apps, IInv, ReadToken(t) PROVE IInv'
<1> USE DEF IInv, lists, callers, reader, net, result, Free
<1>1. TypeOK'
  BY DEF ReadToken, TypeOK, Requests, None, SendInv, Made
<1>2. CallInv'
  BY DEF ReadToken, TypeOK, CallInv, SendInv, Sending, Made, Requests
<1>3. SendInv'
  BY DEF ReadToken, TypeOK, SendInv, CallInv, Sending, Made, Requests
<1>4. WaiterSettled'
  BY DEF ReadToken, TypeOK, WaiterSettled, SendInv
<1> QED
  BY <1>1, <1>2, <1>3, <1>4

(* The token is counted up.                                                  *)
LEMMA WriteTokenStep ==
  ASSUME NEW t \in Apps, IInv, WriteToken(t) PROVE IInv'
<1> USE DEF IInv, lists, callers, reader, net, result, Free
<1>1. TypeOK'
  BY DEF WriteToken, TypeOK, Requests, None, SendInv, Made
<1>2. CallInv'
  BY DEF WriteToken, TypeOK, CallInv, SendInv, Sending, Made, Requests
<1>3. SendInv'
  BY DEF WriteToken, TypeOK, SendInv, CallInv, Sending, Made, Requests
<1>4. WaiterSettled'
  BY DEF WriteToken, TypeOK, WaiterSettled, SendInv
<1> QED
  BY <1>1, <1>2, <1>3, <1>4

(* The request goes out, or the call returns.                                *)
LEMMA PublishStep ==
  ASSUME NEW t \in Apps, IInv, Publish(t) PROVE IInv'
<1> USE DEF IInv, lists, callers, reader, net, result, Free
<1>1. TypeOK'
  BY DEF Publish, Resubscribe, TypeOK, Requests, None, SendInv, Made
<1>2. CallInv'
  BY DEF Publish, Resubscribe, TypeOK, CallInv, SendInv, Sending, Made, Requests
<1>3. SendInv'
  BY DEF Publish, Resubscribe, TypeOK, SendInv, CallInv, Sending, Made, Requests
<1>4. WaiterSettled'
  BY DEF Publish, Resubscribe, TypeOK, WaiterSettled, SendInv
<1> QED
  BY <1>1, <1>2, <1>3, <1>4

(* The request is listed, waited for or not, or refused.                     *)
LEMMA AddRequestStep ==
  ASSUME NEW t \in Apps, IInv, AddRequest(t) PROVE IInv'
<1> USE DEF IInv, lists, callers, reader, net, result, Free
<1>1. /\ pc[t] = "add" /\ mutex = NoThread
      /\ UNCHANGED <<mutex, made, ack, calls, unparsed>>
  BY DEF AddRequest
<1>2. /\ req[t] \in Made /\ req[t] \in Requests /\ calls[req[t]] = 0
      /\ \A u \in Apps : Sending(u) /\ req[u] = req[t] => u = t
  BY <1>1 DEF TypeOK, SendInv, Sending, Made, Requests
<1>3. \/ /\ request_list' = request_list \cup {req[t]}
         /\ pc' = [pc EXCEPT ![t] = "wait"] /\ UNCHANGED req
      \/ /\ request_list' \subseteq request_list \cup {req[t]} /\ request_list \subseteq request_list'
         /\ pc' = [pc EXCEPT ![t] = "idle"] /\ req' = [req EXCEPT ![t] = None]
  BY DEF AddRequest
<1>4. /\ request_list \subseteq request_list' /\ request_list' \subseteq request_list \cup {req[t]}
      /\ pc' \in [Apps -> {"idle", "token", "publish", "add", "wait"}]
      /\ req' \in [Apps -> Requests \cup {None}]
      /\ pc'[t] \in {"idle", "wait"}
      /\ pc'[t] = "wait" => req'[t] = req[t] /\ req[t] \in request_list'
      /\ \A u \in Apps \ {t} : pc'[u] = pc[u] /\ req'[u] = req[u]
  BY <1>1, <1>3 DEF TypeOK
<1>5. TypeOK'
  BY <1>1, <1>2, <1>4 DEF TypeOK
<1>6. CallInv'
  BY <1>1, <1>2, <1>4 DEF CallInv, Made
<1>7. SendInv'
  BY <1>1, <1>2, <1>4 DEF TypeOK, SendInv, Sending, Made
<1>8. WaiterSettled'
  BY <1>1, <1>2, <1>4 DEF WaiterSettled
<1> QED
  BY <1>5, <1>6, <1>7, <1>8

(* A synchronous call returns.                                               *)
LEMMA SyncReturnStep ==
  ASSUME NEW t \in Apps, IInv, SyncReturn(t) PROVE IInv'
<1> USE DEF IInv, lists, callers, reader, net, result, Free
<1>1. TypeOK'
  BY DEF SyncReturn, TypeOK, Requests, None, SendInv, Made
<1>2. CallInv'
  BY DEF SyncReturn, TypeOK, CallInv, SendInv, Sending, Made, Requests
<1>3. SendInv'
  BY DEF SyncReturn, TypeOK, SendInv, CallInv, Sending, Made, Requests
<1>4. WaiterSettled'
  BY DEF SyncReturn, TypeOK, WaiterSettled, SendInv
<1> QED
  BY <1>1, <1>2, <1>3, <1>4

(* Registrations do not touch requests.                                      *)
LEMMA RegisterStep ==
  ASSUME NEW t \in Apps, NEW p \in Properties, IInv, RegisterProperty(t, p) \/ UnRegisterProperty(t, p) PROVE IInv'
<1> USE DEF IInv, lists, callers, reader, net, result, Free
<1>1. TypeOK'
  BY DEF RegisterProperty, UnRegisterProperty, TypeOK, Requests, None, SendInv, Made
<1>2. CallInv'
  BY DEF RegisterProperty, UnRegisterProperty, TypeOK, CallInv, SendInv, Sending, Made, Requests
<1>3. SendInv'
  BY DEF RegisterProperty, UnRegisterProperty, TypeOK, SendInv, CallInv, Sending, Made, Requests
<1>4. WaiterSettled'
  BY DEF RegisterProperty, UnRegisterProperty, TypeOK, WaiterSettled, SendInv
<1> QED
  BY <1>1, <1>2, <1>3, <1>4

(* A reply is taken.                                                         *)
LEMMA ReadReplyStep ==
  ASSUME IInv, ReadReply PROVE IInv'
<1> USE DEF IInv, lists, callers, reader, net, result, Free
<1>1. TypeOK'
  BY DEF ReadReply, TypeOK, Requests, None, SendInv, Made
<1>2. CallInv'
  BY DEF ReadReply, TypeOK, CallInv, SendInv, Sending, Made, Requests
<1>3. SendInv'
  BY DEF ReadReply, TypeOK, SendInv, CallInv, Sending, Made, Requests
<1>4. WaiterSettled'
  BY DEF ReadReply, TypeOK, WaiterSettled, SendInv
<1> QED
  BY <1>1, <1>2, <1>3, <1>4

(* The server answers.                                                       *)
LEMMA ReplyStep ==
  ASSUME NEW r \in Requests, IInv, Reply(r) PROVE IInv'
<1> USE DEF IInv, lists, callers, reader, net, result, Free
<1>1. TypeOK'
  BY DEF Reply, TypeOK, Requests, None, SendInv, Made
<1>2. CallInv'
  BY DEF Reply, TypeOK, CallInv, SendInv, Sending, Made, Requests
<1>3. SendInv'
  BY DEF Reply, TypeOK, SendInv, CallInv, Sending, Made, Requests
<1>4. WaiterSettled'
  BY DEF Reply, TypeOK, WaiterSettled, SendInv
<1> QED
  BY <1>1, <1>2, <1>3, <1>4

(* The timer of a listed request ends.                                       *)
LEMMA ExpireStep ==
  ASSUME NEW r \in Requests, IInv, Expire(r) PROVE IInv'
<1> USE DEF IInv, lists, callers, reader, net, result, Free
<1>1. TypeOK'
  BY DEF Expire, TypeOK, Requests, None, SendInv, Made
<1>2. CallInv'
  BY DEF Expire, TypeOK, CallInv, SendInv, Sending, Made, Requests
<1>3. SendInv'
  BY DEF Expire, TypeOK, SendInv, CallInv, Sending, Made, Requests
<1>4. WaiterSettled'
  BY DEF Expire, TypeOK, WaiterSettled, SendInv
<1> QED
  BY <1>1, <1>2, <1>3, <1>4

(* A callback makes no request, or a new one.                                *)
LEMMA CallbackEffect ==
  ASSUME IInv, NoCallbackRequest \/ CallbackRequests
  PROVE  /\ made' \in 0..MaxRequests /\ made <= made' /\ made \in 0..MaxRequests
         /\ Made \subseteq Made' /\ Made' \subseteq Requests
         /\ CallbackRequests => {made + 1} \subseteq Made' \ Made
<1>1. made \in 0..MaxRequests
  BY DEF IInv, TypeOK
<1>2. made' = made \/ (made' = made + 1 /\ made < MaxRequests)
  BY DEF NoCallbackRequest, CallbackRequests
<1>3. CallbackRequests => made' = made + 1
  BY DEF CallbackRequests
<1> QED
  BY <1>1, <1>2, <1>3 DEF Made, Requests

(* What a traversal of the list may do to the requests: take some out, call  *)
(* some back, list a new one. Whatever is called back is taken out, and      *)
(* whatever is taken out is called back or answered unreadably, unless the   *)
(* thread locks itself up.                                                   *)
Settles(out, told) ==
    /\ mutex = NoThread /\ mutex' \in Apps \cup {Reader, NoThread}
    /\ out \subseteq request_list /\ told \subseteq request_list
    /\ request_list' \subseteq (request_list \ out) \cup (Made' \ Made)
    /\ request_list \ out \subseteq request_list'
    /\ ack' \in [Requests -> {"ACK_NONE", "ACK_ACCEPTED", "ACK_REJECTED", "ACK_TIMEOUT"}]
    /\ calls' = [r \in Requests |-> IF r \in told THEN calls[r] + 1 ELSE calls[r]]
    /\ \A r \in Requests : ack'[r] = "ACK_NONE" => ack[r] = "ACK_NONE" /\ r \notin told
    /\ unparsed \subseteq unparsed'
    /\ mutex' = NoThread => told \subseteq out /\ out \subseteq told \cup unparsed'
    /\ UNCHANGED <<pc, req>>
    /\ NoCallbackRequest \/ CallbackRequests

(* Such a step keeps the invariant.                                          *)
LEMMA SettleStep ==
  ASSUME IInv, NEW out, NEW told, Settles(out, told)
  PROVE  IInv'
<1> USE DEF IInv
<1>1. /\ made' \in 0..MaxRequests
      /\ Made \subseteq Made' /\ Made' \subseteq Requests /\ Made \subseteq Requests
  BY CallbackEffect DEF Settles, Made, Requests
<1>2. /\ request_list' \subseteq (request_list \ out) \cup (Made' \ Made)
      /\ request_list' \subseteq Made' /\ request_list \subseteq Made
      /\ \A r \in Made : r \in request_list' => r \in request_list \ out
  BY <1>1 DEF Settles, SendInv
<1>3. /\ \A r \in Requests : calls'[r] = IF r \in told THEN calls[r] + 1 ELSE calls[r]
      /\ told \subseteq request_list
      /\ \A r \in request_list : calls[r] = 0
  BY DEF Settles, CallInv
<1>4. TypeOK'
  <2>1. calls' \in [Requests -> Nat]
    BY DEF Settles, TypeOK
  <2> QED
    BY <1>1, <1>2, <2>1 DEF Settles, TypeOK
<1>5. CallInv'
  <2>1. ASSUME NEW r \in Requests PROVE calls'[r] <= 1
    BY <1>3 DEF CallInv, TypeOK
  <2>2. ASSUME mutex' = NoThread, NEW r \in request_list' PROVE calls'[r] = 0
    <3>1. r \in Requests /\ told \subseteq out
      BY <1>1, <1>2, <2>2 DEF Settles
    <3>2. CASE r \in Made
      BY <1>2, <1>3, <3>1, <3>2
    <3>3. CASE r \notin Made
      BY <1>2, <1>3, <3>1, <3>3 DEF CallInv
    <3> QED
      BY <3>2, <3>3
  <2>3. ASSUME NEW r \in Requests \ Made' PROVE calls'[r] = 0
    BY <1>1, <1>2, <1>3, <2>3 DEF CallInv
  <2> QED
    BY <2>1, <2>2, <2>3 DEF CallInv
<1>6. SendInv'
  <2>1. ASSUME NEW t \in Apps, Sending(t)
        PROVE  req[t] \notin request_list' /\ calls'[req[t]] = 0
    <3>1. req[t] \in Made /\ req[t] \notin request_list /\ calls[req[t]] = 0
      BY <2>1 DEF SendInv, Sending
    <3> QED
      BY <1>1, <1>2, <1>3, <3>1
  <2>2. UNCHANGED <<pc, req>>
    BY DEF Settles
  <2> QED
    BY <1>1, <1>2, <2>1, <2>2 DEF SendInv, Sending
<1>7. WaiterSettled'
  <2> SUFFICES ASSUME NEW t \in Apps, pc[t] = "wait", mutex' = NoThread, ack'[req[t]] = "ACK_NONE"
               PROVE  req[t] \in request_list' \cup unparsed'
    BY DEF WaiterSettled, Settles
  <2>1. req[t] \in Requests
    BY <1>1 DEF SendInv
  <2>2. ack[req[t]] = "ACK_NONE" /\ req[t] \notin told
    BY <2>1 DEF Settles
  <2>3. req[t] \in request_list \cup unparsed
    BY <2>2 DEF WaiterSettled, Settles
  <2> QED
    BY <2>2, <2>3 DEF Settles
<1> QED
  BY <1>4, <1>5, <1>6, <1>7

(* A callback tells an outcome.                                              *)
LEMMA CallbackTells ==
  ASSUME IInv, NEW told, NEW status \in {"ACK_ACCEPTED", "ACK_REJECTED", "ACK_TIMEOUT"},
         Callback(told, status)
  PROVE  /\ ack' \in [Requests -> {"ACK_NONE", "ACK_ACCEPTED", "ACK_REJECTED", "ACK_TIMEOUT"}]
         /\ calls' = [r \in Requests |-> IF r \in told THEN calls[r] + 1 ELSE calls[r]]
         /\ \A r \in Requests : ack'[r] = "ACK_NONE" => ack[r] = "ACK_NONE" /\ r \notin told
  BY DEF IInv, TypeOK, Callback

(* All requests rs are taken out, and a callback may list one more.          *)
LEMMA AllTaken ==
  ASSUME IInv, NEW rs, NEW rq, SettleAll(rs, rq)
  PROVE  /\ request_list' \subseteq (request_list \ rs) \cup (Made' \ Made)
         /\ request_list \ rs \subseteq request_list'
         /\ NoCallbackRequest \/ CallbackRequests
         /\ mutex' = mutex
<1>1. /\ NoCallbackRequest \/ CallbackRequests
      /\ \/ request_list' = request_list \ rs
         \/ /\ CallbackRequests
            /\ \E new \in SUBSET {made + 1} : request_list' = (request_list \ rs) \cup new
      /\ mutex' = mutex
  BY DEF SettleAll, Nested
<1> QED
  BY <1>1, CallbackEffect

(* The requests done are taken out before a thread locks itself up.          *)
LEMMA SomeTaken ==
  ASSUME IInv, NEW thread \in Apps \cup {Reader}, NEW rs \in SUBSET request_list, NEW rq,
         NEW status \in {"ACK_ACCEPTED", "ACK_REJECTED", "ACK_TIMEOUT"},
         mutex = NoThread, SettleSome(thread, rs, rq, status),
         UNCHANGED <<pc, req, unparsed>>
  PROVE  IInv'
<1>1. PICK r \in rs, done \in SUBSET rs :
         /\ request_list' = request_list \ done
         /\ Callback(done \cup {r}, status) \/ Callback(done, status)
  BY DEF SettleSome
<1>2. PICK told \in SUBSET rs : Callback(told, status)
  BY <1>1
<1>3. mutex' \in Apps \cup {Reader} /\ mutex' # NoThread
  BY DEF SettleSome
<1>4. CallbackRequests
  BY DEF SettleSome
<1>5. Settles(done, told)
  BY <1>1, <1>2, <1>3, <1>4, CallbackTells DEF Settles
<1> QED
  BY <1>5, SettleStep

(* The pass of IOT_Shadow_Yield reports what expired and removes it.         *)
LEMMA HandleExpiredStep ==
  ASSUME NEW t \in Apps, IInv, HandleExpired(t) PROVE IInv'
<1> DEFINE rs == request_list \cap expired_timers
<1>1. mutex = NoThread /\ UNCHANGED <<pc, req, unparsed>>
  BY DEF HandleExpired, Free
<1>2. \/ SettleAll(rs, rs \ Waited) /\ Callback(rs, "ACK_TIMEOUT")
      \/ SettleSome(t, rs, rs \ Waited, "ACK_TIMEOUT")
  BY DEF HandleExpired
<1> HIDE DEF rs
<1>3. rs \subseteq request_list
  BY DEF rs
<1>4. ASSUME SettleAll(rs, rs \ Waited), Callback(rs, "ACK_TIMEOUT") PROVE IInv'
  <2>1. Settles(rs, rs)
    BY <1>1, <1>3, <1>4, AllTaken, CallbackTells DEF Settles
  <2> QED
    BY <2>1, SettleStep
<1>5. ASSUME SettleSome(t, rs, rs \ Waited, "ACK_TIMEOUT") PROVE IInv'
  BY <1>1, <1>3, <1>5, SomeTaken
<1> QED
  BY <1>2, <1>4, <1>5

(* A reply settles what has its token.                                       *)
LEMMA HandleReplyStep ==
  ASSUME IInv, HandleReply PROVE IInv'
<1> DEFINE status == IF y_reply.kind = "ok" THEN "ACK_ACCEPTED" ELSE "ACK_REJECTED"
<1>1. mutex = NoThread /\ UNCHANGED <<pc, req>> /\ Matching \subseteq request_list
  BY DEF HandleReply, Free, Matching
<1>2. \/ /\ SettleAll(Matching, {}) /\ unparsed' = unparsed \cup Matching /\ UNCHANGED <<ack, calls>>
      \/ SettleAll(Matching, Requesters) /\ Callback(Matching, status) /\ UNCHANGED unparsed
      \/ SettleSome(Reader, Matching, Requesters, status) /\ UNCHANGED unparsed
  BY DEF HandleReply
<1> HIDE DEF status
<1>3. status \in {"ACK_ACCEPTED", "ACK_REJECTED", "ACK_TIMEOUT"}
  BY DEF status
<1>4. ASSUME SettleAll(Matching, {}), unparsed' = unparsed \cup Matching, UNCHANGED <<ack, calls>>
      PROVE  IInv'
  <2>1. /\ ack' \in [Requests -> {"ACK_NONE", "ACK_ACCEPTED", "ACK_REJECTED", "ACK_TIMEOUT"}]
        /\ calls' = [r \in Requests |-> IF r \in {} THEN calls[r] + 1 ELSE calls[r]]
    BY <1>4 DEF IInv, TypeOK
  <2>2. Settles(Matching, {})
    BY <1>1, <1>4, <2>1, AllTaken DEF Settles
  <2> QED
    BY <2>2, SettleStep
<1>5. ASSUME SettleAll(Matching, Requesters), Callback(Matching, status), UNCHANGED unparsed
      PROVE  IInv'
  <2>1. Settles(Matching, Matching)
    BY <1>1, <1>3, <1>5, AllTaken, CallbackTells DEF Settles
  <2> QED
    BY <2>1, SettleStep
<1>6. ASSUME SettleSome(Reader, Matching, Requesters, status), UNCHANGED unparsed
      PROVE  IInv'
  BY <1>1, <1>3, <1>6, SomeTaken
<1> QED
  BY <1>2, <1>4, <1>5, <1>6

(* A delta runs callbacks of properties.                                     *)
LEMMA HandleDeltaStep ==
  ASSUME IInv, HandleDelta PROVE IInv'
<1>1. /\ mutex = NoThread /\ mutex' \in {Reader, NoThread}
      /\ UNCHANGED <<pc, req, ack, calls, unparsed>>
  BY DEF HandleDelta, Free, result
<1>2. NoCallbackRequest \/ CallbackRequests
  BY DEF HandleDelta
<1>3. \/ request_list' = request_list
      \/ CallbackRequests /\ \E new \in SUBSET {made + 1} : request_list' = request_list \cup new
  BY DEF HandleDelta, Nested
<1>4. request_list' \subseteq request_list \cup (Made' \ Made) /\ request_list \subseteq request_list'
  BY <1>2, <1>3, CallbackEffect
<1>5. /\ ack' \in [Requests -> {"ACK_NONE", "ACK_ACCEPTED", "ACK_REJECTED", "ACK_TIMEOUT"}]
      /\ calls' = [r \in Requests |-> IF r \in {} THEN calls[r] + 1 ELSE calls[r]]
  BY <1>1 DEF IInv, TypeOK
<1>6. Settles({}, {})
  BY <1>1, <1>2, <1>4, <1>5 DEF Settles
<1> QED
  BY <1>6, SettleStep

(* Init establishes the invariant.                                           *)
LEMMA InitInv == Init => IInv
<1> SUFFICES ASSUME Init PROVE IInv
  OBVIOUS
<1>1. TypeOK
  BY DEF Init, TypeOK, Requests, None
<1>2. CallInv /\ SendInv /\ WaiterSettled
  BY DEF Init, CallInv, SendInv, WaiterSettled, Sending, Made, Requests, None
<1> QED
  BY <1>1, <1>2 DEF IInv

(* A step that changes nothing keeps the invariant.                          *)
LEMMA Stutter == ASSUME IInv, UNCHANGED vars PROVE IInv'
  BY DEF IInv, TypeOK, CallInv, SendInv, WaiterSettled, Sending, Made,
         vars, lists, callers, reader, net, result

(* The invariant holds in every reachable state.                             *)
THEOREM Invariance == Spec => []IInv
<1>1. IInv /\ [Next]_vars => IInv'
  <2> SUFFICES ASSUME IInv, [Next]_vars PROVE IInv'
    OBVIOUS
  <2>1. ASSUME NEW t \in Apps, AppStep(t) PROVE IInv'
    BY <2>1, ReadTokenStep, WriteTokenStep, PublishStep, AddRequestStep, SyncReturnStep,
       HandleExpiredStep, RegisterStep DEF AppStep
  <2>2. CASE ReadReply \/ HandleReply \/ HandleDelta
    BY <2>2, ReadReplyStep, HandleReplyStep, HandleDeltaStep
  <2>3. ASSUME NEW r \in Requests, Reply(r) \/ Expire(r) PROVE IInv'
    BY <2>3, ReplyStep, ExpireStep
  <2>4. CASE UNCHANGED vars
    BY <2>4, Stutter
  <2> QED
    BY <2>1, <2>2, <2>3, <2>4 DEF Next
<1> QED
  BY <1>1, InitInv, PTL DEF Spec

(* The callback of a shadow request is called at most once: its reply, a     *)
(* reply with the same token and its timeout never both report it.           *)
THEOREM CalledBackOnce == Spec => []CallbackOnce
<1>1. IInv => CallbackOnce
  BY DEF IInv, CallInv, CallbackOnce
<1> QED
  BY <1>1, Invariance, PTL

(* Whoever waits in a synchronous call was told the outcome already, or its  *)
(* request is still in the list, where its timeout will report it.           *)
THEOREM WaiterListed == Spec => []WaiterSettled
<1>1. IInv => WaiterSettled
  BY DEF IInv
<1> QED
  BY <1>1, Invariance, PTL

HIDE ShadowAssumption
-----------------------------------------------------------------------------
(* The log uploader: cells, records and ranges of them.                      *)

(* The cell at i belongs to a record of sizes z that lies in a..b-1 as a     *)
(* whole.                                                                    *)
InRecord(f, a, b, z, i) ==
  LET n   == f[i][1]
      end == i + f[i][2]
  IN /\ f[i] \in Nat \X Nat /\ n \in DOMAIN z
     /\ end < b /\ a <= end + 1 - z[n] /\ f[i][2] < z[n]
     /\ \A j \in (end + 1 - z[n])..end : f[j] = <<n, end - j>>

(* Whole records, each once.                                                 *)
Filled(f, a, b, z) ==
  /\ \A i \in a..(b - 1) : InRecord(f, a, b, z, i)
  /\ \A i, j \in a..(b - 1) : f[i][1] = f[j][1] => i + f[i][2] = j + f[j][2]

Cleared(f, a, b) == \A i \in a..(b - 1) : f[i] = Zero
Headed(f) == \A i \in 0..(HDR - 1) : f[i] = Header

(* Record n has a cell there.                                                *)
Has(f, a, b, n) == \E i \in a..(b - 1) : f[i][1] = n

(* No record has cells in both places.                                       *)
Apart(f, a, b, g, c, d) == \A i \in a..(b - 1), j \in c..(d - 1) : f[i][1] # g[j][1]

-----------------------------------------------------------------------------
(* The inductive invariant.                                                  *)

CellSet == Nat \X Nat
BUF == LOG_UPLOAD_BUFFER_SIZE

Posting   == up.pc \in {"post", "send"}
Uploading == Posting /\ ~up.saved
Resending == Posting /\ up.saved

(* The records to be kept in the buffer are in HDR..Lo-1, what an upload has *)
(* not posted, and in Hi..sg_write_index-1, what was appended meanwhile.     *)
Lo == IF up.pc = "final" THEN HDR
      ELSE IF Uploading THEN up.post_size
      ELSE IF up.pc = "adjust" THEN up.upload_log_size - up.actual_post_payload
      ELSE IF up.pc = "save" THEN up.upload_log_size
      ELSE sg_write_index
Hi == IF Uploading \/ up.pc \in {"adjust", "save", "final"} THEN up.upload_log_size
      ELSE sg_write_index

UploadSet ==
  [pc : {"idle", "saved", "check", "snapshot", "post", "send", "delete", "adjust", "save", "final"},
   saved : BOOLEAN, fragments : BOOLEAN,
   post_size : Nat, orig_post_size : Nat, upload_size : Nat,
   actual_post_payload : Nat, upload_log_size : Nat,
   rc : {"success", "failure", "inval"}]

LogTypeOK ==
  /\ sg_log_buffer \in [0..(BUF - 1) -> CellSet] /\ sg_write_index \in Nat
  /\ storage \in Seq(CellSet)
  /\ up \in UploadSet
  /\ sizes \in Seq(Nat \ {0}) /\ Len(sizes) <= MaxLogs
  /\ posted \in [1..MaxLogs -> 0..2]

(* Header, records, a gap, records, cleared bytes.                           *)
Layout(f, lo, hi, w, z) ==
  /\ HDR <= lo /\ lo <= hi /\ hi <= w /\ w < BUF
  /\ Headed(f)
  /\ Filled(f, HDR, lo, z)
  /\ Filled(f, hi, w, z)
  /\ Apart(f, HDR, lo, f, hi, w)
  /\ Cleared(f, w, BUF)

(* The buffer holds record n, the storage does, the copy being posted does.  *)
HeldIn(f, lo, hi, w, n) == Has(f, HDR, lo, n) \/ Has(f, hi, w, n)
Held(n)   == HeldIn(sg_log_buffer, Lo, Hi, sg_write_index, n)
Stored(n) == Has(storage, 1, Len(storage) + 1, n)
InCopy(n) == Has(log_buf, HDR, up.post_size, n)

BufferInv ==
  /\ Layout(sg_log_buffer, Lo, Hi, sg_write_index, sizes)
  /\ up.pc # "final" => Cleared(sg_log_buffer, Lo, Hi)

(* The storage holds whole records and none of the buffer's.                 *)
StorageInv ==
  /\ Filled(storage, 1, Len(storage) + 1, sizes)
  /\ \A n \in Records : Stored(n) => ~Held(n)

(* The locals of an upload.                                                  *)
UploadInv ==
  /\ up.pc \in {"adjust", "save", "final"} => ~up.saved
  /\ up.pc = "delete" => up.saved
  /\ Uploading =>
       /\ up.orig_post_size = up.upload_log_size
       /\ up.post_size + up.actual_post_payload = up.orig_post_size
       /\ up.actual_post_payload = 0 =>
            (up.fragments => MAX_HTTP_LOG_POST_SIZE <= up.post_size)
  /\ up.pc = "send" =>
       /\ HDR <= up.upload_size /\ up.upload_size <= up.post_size
       /\ up.upload_size = up.post_size \/ PostBuf[up.upload_size - 1][2] = 0
       /\ up.fragments => HDR < up.upload_size
       /\ ~up.fragments => up.upload_size = up.post_size
  /\ Posting /\ ~up.fragments => up.post_size = up.orig_post_size

(* The copy of the saved log that is being posted.                           *)
CopyInv ==
  Resending =>
    /\ log_buf \in [0..up.orig_post_size -> CellSet]
    /\ Headed(log_buf)
    /\ HDR <= up.post_size /\ up.post_size <= up.orig_post_size
    /\ Filled(log_buf, HDR, up.post_size, sizes)
    /\ Cleared(log_buf, up.post_size, up.orig_post_size + 1)
    /\ \A n \in Records : InCopy(n) => Stored(n)

(* What is to be posted was not received before, or there is a reason.       *)
Fresh(n) == posted[n] = 0 \/ n \in twice
FreshInv ==
  /\ \A n \in DOMAIN posted : n > Len(sizes) => posted[n] = 0
  /\ \A n \in Records :
       /\ Held(n) => Fresh(n)
       /\ Stored(n) => Fresh(n) \/ (up.saved /\ up.pc \in {"post", "send", "delete"})
       /\ Resending /\ InCopy(n) => Fresh(n)

(* Every record is somewhere.                                                *)
KeptInv == \A n \in Records : posted[n] > 0 \/ n \in dropped \/ Stored(n) \/ Held(n)

(* The counts and the shape of what was received.                            *)
OnceInv  == \A n \in Records : posted[n] > 1 => n \in twice
WholeInv == ~torn

(* While no message on the log topic disturbed an upload.                    *)
LogInv ==
  /\ LogTypeOK /\ BufferInv /\ StorageInv /\ UploadInv /\ CopyInv /\ FreshInv
  /\ KeptInv /\ OnceInv /\ WholeInv
-----------------------------------------------------------------------------
(* Whole records: moved, cut and joined.                                     *)

(* InRecord in the terms of the record, its last cell and its size.          *)
LEMMA InRecordIs ==
  ASSUME NEW f, NEW a, NEW b, NEW z, NEW i, NEW n \in DOMAIN z, NEW e, NEW s,
         f[i] \in Nat \X Nat, f[i][1] = n, i + f[i][2] = e, z[n] = s,
         e < b, a <= e + 1 - s, f[i][2] < s,
         \A j \in (e + 1 - s)..e : f[j] = <<n, e - j>>
  PROVE  InRecord(f, a, b, z, i)
  BY DEF InRecord

(* The record at i: its number, its last cell and its size.                  *)
RecordAt(f, a, b, z, i, n, e, s) ==
  /\ n \in DOMAIN z /\ z[n] = s /\ f[i] \in Nat \X Nat /\ f[i][1] = n
  /\ f[i][2] \in Nat /\ i + f[i][2] = e
  /\ e < b /\ a <= e + 1 - s /\ f[i][2] < s
  /\ \A j \in (e + 1 - s)..e : f[j] = <<n, e - j>>

(* Every cell of whole records has such a record.                            *)
LEMMA FilledHas ==
  ASSUME NEW f, NEW a \in Int, NEW b \in Int, NEW z, Filled(f, a, b, z), NEW i \in a..(b - 1),
         \A n \in DOMAIN z : z[n] \in Int
  PROVE  \E n \in DOMAIN z, e \in Int, s \in Int : RecordAt(f, a, b, z, i, n, e, s)
<1>1. InRecord(f, a, b, z, i)
  BY DEF Filled
<1>2. f[i] \in Nat \X Nat /\ f[i][1] \in DOMAIN z
  BY <1>1 DEF InRecord
<1>3. f[i][2] \in Nat /\ i + f[i][2] \in Int /\ z[f[i][1]] \in Int
  BY <1>2
<1>4. RecordAt(f, a, b, z, i, f[i][1], i + f[i][2], z[f[i][1]])
  BY <1>1, <1>2, <1>3 DEF InRecord, RecordAt
<1> QED
  BY <1>2, <1>3, <1>4

(* A record in these terms is one in the terms of InRecord.                  *)
LEMMA RecordIn ==
  ASSUME NEW f, NEW a, NEW b, NEW z, NEW i, NEW n, NEW e, NEW s, RecordAt(f, a, b, z, i, n, e, s)
  PROVE  InRecord(f, a, b, z, i)
  BY InRecordIs DEF RecordAt

(* g repeats f, d places on; y repeats the sizes z and may have more.        *)
Copied(f, g, a, b, d) == \A i \in a..(b - 1) : g[i + d] = f[i]
Extended(z, y) == DOMAIN z \subseteq DOMAIN y /\ \A n \in DOMAIN z : z[n] \in Int /\ y[n] = z[n]

(* A copy of whole records, d places on.                                     *)
LEMMA FilledCopy ==
  ASSUME NEW f, NEW g, NEW z, NEW a \in Int, NEW b \in Int, NEW d \in Int,
         NEW y, Extended(z, y), Filled(f, a, b, z), Copied(f, g, a, b, d)
  PROVE  Filled(g, a + d, b + d, y)
<1>a. DOMAIN z \subseteq DOMAIN y /\ \A n \in DOMAIN z : z[n] \in Int /\ y[n] = z[n]
  BY DEF Extended
<1>b. \A i \in a..(b - 1) : g[i + d] = f[i]
  BY DEF Copied
<1>1. ASSUME NEW k \in (a + d)..(b + d - 1)
      PROVE  /\ k - d \in a..(b - 1) /\ g[k] = f[k - d] /\ f[k - d] \in Nat \X Nat
             /\ f[k - d][2] \in Nat
             /\ InRecord(g, a + d, b + d, y, k)
  <2>1. PICK i \in Int : i = k - d
    BY DEF Filled
  <2>2. k \in Int /\ i \in a..(b - 1) /\ i + d = k /\ g[k] = f[i]
    BY <1>b, <2>1
  <2>3. PICK n \in DOMAIN z, e \in Int, s \in Int : RecordAt(f, a, b, z, i, n, e, s)
    BY <1>a, <2>2, FilledHas
  <2>4. /\ f[i] \in Nat \X Nat /\ z[n] = s /\ f[i][1] = n /\ f[i][2] \in Nat /\ i + f[i][2] = e
        /\ e < b /\ a <= e + 1 - s /\ f[i][2] < s
    BY <2>3 DEF RecordAt
  <2>5. \A j \in (e + 1 - s)..e : f[j] = <<n, e - j>>
    BY <2>3 DEF RecordAt
  <2>6. ASSUME NEW j \in (e + d + 1 - s)..(e + d) PROVE g[j] = <<n, e + d - j>>
    <3>1. j - d \in (e + 1 - s)..e /\ j - d \in a..(b - 1) /\ (j - d) + d = j
      BY <2>4
    <3>2. f[j - d] = <<n, e - (j - d)>>
      BY <2>5, <3>1
    <3>3. g[j] = f[j - d]
      BY <1>b, <3>1
    <3>4. e - (j - d) = e + d - j
      BY <2>4
    <3> QED
      BY <3>2, <3>3, <3>4
  <2>7. y[n] = s /\ n \in DOMAIN y
    BY <1>a, <2>4
  <2>8. e + d < b + d /\ a + d <= e + d + 1 - s /\ k + g[k][2] = e + d
    BY <2>2, <2>4
  <2>9. RecordAt(g, a + d, b + d, y, k, n, e + d, s)
    BY <2>2, <2>4, <2>6, <2>7, <2>8 DEF RecordAt
  <2>10. InRecord(g, a + d, b + d, y, k)
    BY <2>9, RecordIn
  <2> QED
    BY <2>1, <2>2, <2>4, <2>10
<1>2. ASSUME NEW k \in (a + d)..(b + d - 1), NEW l \in (a + d)..(b + d - 1), g[k][1] = g[l][1]
      PROVE  k + g[k][2] = l + g[l][2]
  <2>1. /\ k - d \in a..(b - 1) /\ g[k] = f[k - d] /\ f[k - d][2] \in Nat
        /\ l - d \in a..(b - 1) /\ g[l] = f[l - d] /\ f[l - d][2] \in Nat
    BY <1>1
  <2>2. (k - d) + f[k - d][2] = (l - d) + f[l - d][2]
    BY <1>2, <2>1 DEF Filled
  <2> QED
    BY <2>1, <2>2
<1> QED
  BY <1>1, <1>2 DEF Filled

(* What a cell of whole records is.                                          *)
LEMMA FilledCell ==
  ASSUME NEW f, NEW z \in Seq(Nat \ {0}), NEW a \in Int, NEW b \in Int, Filled(f, a, b, z),
         NEW i \in a..(b - 1)
  PROVE  /\ i \in Int /\ f[i] \in Nat \X Nat /\ f[i][1] \in Nat /\ f[i][2] \in Nat
         /\ f[i] = <<f[i][1], f[i][2]>>
         /\ f[i][1] \in 1..Len(z) /\ f[i] # Zero /\ f[i][1] # 0
         /\ z[f[i][1]] \in Nat /\ z[f[i][1]] > 0 /\ f[i][2] < z[f[i][1]]
         /\ i + f[i][2] \in Int /\ i <= i + f[i][2] /\ i + f[i][2] < b
         /\ a <= i + f[i][2] + 1 - z[f[i][1]]
<1>1. InRecord(f, a, b, z, i)
  BY DEF Filled
<1>2. /\ f[i] \in Nat \X Nat /\ f[i][1] \in DOMAIN z
      /\ i + f[i][2] < b /\ a <= i + f[i][2] + 1 - z[f[i][1]] /\ f[i][2] < z[f[i][1]]
  BY <1>1 DEF InRecord
<1>3. /\ f[i][1] \in Nat /\ f[i][2] \in Nat /\ f[i][1] \in 1..Len(z) /\ z[f[i][1]] \in Nat \ {0}
      /\ f[i] = <<f[i][1], f[i][2]>>
  <2>1. PICK x : x = f[i]
    OBVIOUS
  <2>2. x \in Nat \X Nat
    BY <1>2, <2>1
  <2>3. x = <<x[1], x[2]>> /\ x[1] \in Nat /\ x[2] \in Nat
    BY <2>2
  <2>4. PICK n : n = x[1]
    OBVIOUS
  <2>5. n \in DOMAIN z
    BY <1>2, <2>1, <2>4
  <2>6. n \in 1..Len(z) /\ z[n] \in Nat \ {0}
    BY <2>5
  <2> QED
    BY <2>1, <2>3, <2>4, <2>6
<1>4. f[i][1] # 0
  BY <1>3
<1>5. f[i] # Zero
  BY <1>3, <1>4 DEF Zero
<1>6. i \in Int /\ i + f[i][2] \in Int /\ i <= i + f[i][2]
  BY <1>3
<1>7. z[f[i][1]] \in Nat /\ z[f[i][1]] > 0
  BY <1>3
<1> QED
  BY <1>2, <1>3, <1>4, <1>5, <1>6, <1>7

(* Cut after the last cell of a record.                                      *)
LEMMA FilledCut ==
  ASSUME NEW f, NEW z \in Seq(Nat \ {0}), NEW a \in Int, NEW b \in Int, NEW c \in Int,
         Filled(f, a, b, z), a <= c, c <= b, c = b \/ c = a \/ f[c - 1][2] = 0
  PROVE  Filled(f, a, c, z) /\ Filled(f, c, b, z) /\ Apart(f, a, c, f, c, b)
<1>1. ASSUME NEW i \in a..(b - 1)
      PROVE  /\ i < c => i + f[i][2] < c
             /\ c <= i => c <= i + f[i][2] + 1 - z[f[i][1]]
  <2>c. \A n \in DOMAIN z : z[n] \in Int
    OBVIOUS
  <2>0. PICK n \in DOMAIN z, e \in Int, size \in Int : RecordAt(f, a, b, z, i, n, e, size)
    BY <2>c, FilledHas
  <2>1. /\ f[i][1] = n /\ f[i][2] \in Nat /\ z[n] = size
        /\ e = i + f[i][2] /\ e < b /\ a <= e + 1 - size /\ f[i][2] < size /\ i \in Int
    BY <2>0 DEF RecordAt
  <2>2. PICK s \in Int : s = e + 1 - size
    OBVIOUS
  <2>a. \A j \in s..e : f[j] = <<n, e - j>>
    BY <2>0, <2>2 DEF RecordAt
  <2>b. s <= i /\ i <= e /\ e < b /\ a <= s
    <3>1. PICK left \in Nat : left = f[i][2]
      BY <2>1
    <3>2. e = i + left /\ e < b /\ a <= e + 1 - size /\ left < size /\ i \in Int
      BY <2>1, <3>1
    <3> QED
      BY <2>2, <3>2
  <2>3. ASSUME s < c, c <= e PROVE FALSE
    <3>1. c - 1 \in s..e
      BY <2>b, <2>3
    <3>2. f[c - 1] = <<n, e - (c - 1)>>
      BY <2>a, <3>1
    <3>3. f[c - 1][2] = e - (c - 1)
      BY <3>2
    <3>4. e - (c - 1) > 0
      BY <2>3
    <3>5. c # b /\ c # a
      BY <2>b, <2>3
    <3>6. f[c - 1][2] # 0
      BY <3>3, <3>4
    <3> QED
      BY <3>5, <3>6
  <2>4. /\ i < c => e < c
        /\ c <= i => c <= s
    BY <2>b, <2>3
  <2> QED
    BY <2>1, <2>2, <2>4
<1>2. ASSUME NEW i \in a..(c - 1) PROVE InRecord(f, a, c, z, i)
  <2>1. i \in a..(b - 1) /\ i < c
    OBVIOUS
  <2>2. InRecord(f, a, b, z, i)
    BY <2>1 DEF Filled
  <2>3. i + f[i][2] < c
    BY <1>1, <2>1
  <2> QED
    BY <2>2, <2>3 DEF InRecord
<1>3. ASSUME NEW i \in c..(b - 1) PROVE InRecord(f, c, b, z, i)
  <2>1. i \in a..(b - 1) /\ c <= i
    OBVIOUS
  <2>2. InRecord(f, a, b, z, i)
    BY <2>1 DEF Filled
  <2>3. c <= i + f[i][2] + 1 - z[f[i][1]]
    BY <1>1, <2>1
  <2> QED
    BY <2>2, <2>3 DEF InRecord
<1>4. ASSUME NEW i \in a..(c - 1), NEW j \in c..(b - 1), f[i][1] = f[j][1] PROVE FALSE
  <2>1. i \in a..(b - 1) /\ j \in a..(b - 1) /\ i < c /\ c <= j
    OBVIOUS
  <2>2. i + f[i][2] = j + f[j][2]
    BY <1>4, <2>1 DEF Filled
  <2>3. f[j][2] \in Nat /\ f[i][2] \in Nat
    BY <2>1, FilledCell
  <2>4. i + f[i][2] < c
    BY <1>1, <2>1
  <2>5. PICK left \in Nat, rest \in Nat : left = f[i][2] /\ rest = f[j][2]
    BY <2>3
  <2>6. i + left = j + rest /\ i + left < c
    BY <2>2, <2>4, <2>5
  <2> QED
    BY <2>1, <2>6
<1>5. Filled(f, a, c, z)
  BY <1>2 DEF Filled
<1>6. Filled(f, c, b, z)
  BY <1>3 DEF Filled
<1>7. Apart(f, a, c, f, c, b)
  BY <1>4 DEF Apart
<1> QED
  BY <1>5, <1>6, <1>7

(* Two runs of records, one behind the other.                                *)
LEMMA FilledJoin ==
  ASSUME NEW f, NEW z \in Seq(Nat \ {0}), NEW a \in Int, NEW b \in Int, NEW c \in Int,
         a <= c, c <= b,
         Filled(f, a, c, z), Filled(f, c, b, z), Apart(f, a, c, f, c, b)
  PROVE  Filled(f, a, b, z)
<1>1. ASSUME NEW i \in a..(b - 1) PROVE InRecord(f, a, b, z, i)
  <2>1. CASE i < c
    <3>1. i \in a..(c - 1)
      BY <2>1
    <3>2. InRecord(f, a, c, z, i) /\ i + f[i][2] \in Int /\ i + f[i][2] < c
      BY <3>1, FilledCell DEF Filled
    <3>3. i + f[i][2] < b
      BY <3>2
    <3> QED
      BY <3>2, <3>3 DEF InRecord
  <2>2. CASE c <= i
    <3>1. i \in c..(b - 1)
      BY <2>2
    <3>2. /\ InRecord(f, c, b, z, i) /\ i + f[i][2] \in Int /\ z[f[i][1]] \in Nat
          /\ c <= i + f[i][2] + 1 - z[f[i][1]]
      BY <3>1, FilledCell DEF Filled
    <3>3. a <= i + f[i][2] + 1 - z[f[i][1]]
      <4>1. PICK e \in Int, s \in Nat : e = i + f[i][2] /\ s = z[f[i][1]]
        BY <3>2
      <4>2. c <= e + 1 - s
        BY <3>2, <4>1
      <4>3. a <= e + 1 - s
        BY <4>2
      <4> QED
        BY <4>1, <4>3
    <3> QED
      BY <3>2, <3>3 DEF InRecord
  <2> QED
    BY <2>1, <2>2
<1>2. ASSUME NEW i \in a..(b - 1), NEW j \in a..(b - 1), f[i][1] = f[j][1]
      PROVE  i + f[i][2] = j + f[j][2]
  <2>1. CASE i < c /\ j < c
    BY <1>2, <2>1 DEF Filled
  <2>2. CASE c <= i /\ c <= j
    BY <1>2, <2>2 DEF Filled
  <2>3. CASE i < c /\ c <= j
    <3>1. i \in a..(c - 1) /\ j \in c..(b - 1)
      BY <2>3
    <3> QED
      BY <1>2, <3>1 DEF Apart
  <2>4. CASE c <= i /\ j < c
    <3>1. j \in a..(c - 1) /\ i \in c..(b - 1)
      BY <2>4
    <3> QED
      BY <1>2, <3>1 DEF Apart
  <2> QED
    BY <2>1, <2>2, <2>3, <2>4
<1> QED
  BY <1>1, <1>2 DEF Filled

(* No records at all.                                                        *)
LEMMA FilledEmpty ==
  ASSUME NEW f, NEW z, NEW a \in Int, NEW b \in Int, b <= a
  PROVE  Filled(f, a, b, z)
  BY DEF Filled

(* One record.                                                               *)
LEMMA FilledOne ==
  ASSUME NEW f, NEW z \in Seq(Nat \ {0}), NEW n \in 1..Len(z), NEW a \in Int,
         \A i \in a..(a + z[n] - 1) : f[i] = <<n, a + z[n] - 1 - i>>
  PROVE  Filled(f, a, a + z[n], z)
<1>1. PICK s \in Nat : s = z[n] /\ s > 0
  OBVIOUS
<1>2. PICK e \in Int, b \in Int : e = a + s - 1 /\ b = a + s
  OBVIOUS
<1>3. \A i \in a..e : f[i] = <<n, e - i>>
  <2>1. \A i \in a..(a + s - 1) : f[i] = <<n, a + s - 1 - i>>
    BY <1>1
  <2>2. a + s - 1 = e
    BY <1>2
  <2> QED
    BY <2>1, <2>2
<1>4. ASSUME NEW i \in a..(b - 1)
      PROVE  f[i][1] = n /\ i + f[i][2] = e /\ RecordAt(f, a, b, z, i, n, e, s)
  <2>1. PICK left \in Nat : left = e - i
    BY <1>2
  <2>2. i \in a..e /\ i + left = e /\ left < s
    BY <1>2, <2>1
  <2>3. f[i] = <<n, left>>
    BY <1>3, <2>1, <2>2
  <2>4. f[i][1] = n /\ f[i][2] = left /\ n \in Nat
    BY <2>3
  <2>5. e < b /\ a <= e + 1 - s /\ a = e + 1 - s
    BY <1>2
  <2>6. \A j \in (e + 1 - s)..e : f[j] = <<n, e - j>>
    BY <1>3, <2>5
  <2>7. f[i] \in Nat \X Nat /\ i + f[i][2] = e /\ f[i][2] < s /\ f[i][2] \in Nat
    BY <2>2, <2>3, <2>4
  <2>8. n \in DOMAIN z
    OBVIOUS
  <2> QED
    BY <1>1, <2>4, <2>5, <2>6, <2>7, <2>8 DEF RecordAt
<1>5. Filled(f, a, b, z)
  BY <1>4, RecordIn DEF Filled
<1> QED
  BY <1>1, <1>2, <1>5

-----------------------------------------------------------------------------
(* Where records are.                                                        *)

(* A copy has cells of the same records.                                     *)
LEMMA HasCopy ==
  ASSUME NEW f, NEW g, NEW a \in Int, NEW b \in Int, NEW d \in Int, NEW n,
         Copied(f, g, a, b, d)
  PROVE  Has(g, a + d, b + d, n) <=> Has(f, a, b, n)
<1>a. \A i \in a..(b - 1) : g[i + d] = f[i]
  BY DEF Copied
<1>1. ASSUME NEW i \in a..(b - 1), f[i][1] = n PROVE Has(g, a + d, b + d, n)
  <2>1. i + d \in (a + d)..(b + d - 1) /\ g[i + d][1] = n
    BY <1>a, <1>1
  <2> QED
    BY <2>1 DEF Has
<1>2. ASSUME NEW k \in (a + d)..(b + d - 1), g[k][1] = n PROVE Has(f, a, b, n)
  <2>1. k - d \in a..(b - 1) /\ (k - d) + d = k
    OBVIOUS
  <2>2. f[k - d][1] = n
    BY <1>a, <1>2, <2>1
  <2> QED
    BY <2>1, <2>2 DEF Has
<1> QED
  BY <1>1, <1>2 DEF Has

(* A range has a record's cell when one of its two parts has.                *)
LEMMA HasSplit ==
  ASSUME NEW f, NEW a \in Int, NEW b \in Int, NEW c \in Int, NEW n, a <= c, c <= b
  PROVE  Has(f, a, b, n) <=> Has(f, a, c, n) \/ Has(f, c, b, n)
<1>1. \A i : i \in a..(b - 1) <=> i \in a..(c - 1) \/ i \in c..(b - 1)
  OBVIOUS
<1> QED
  BY <1>1 DEF Has

(* An empty range has no record's cell.                                      *)
LEMMA HasEmpty ==
  ASSUME NEW f, NEW a \in Int, NEW b \in Int, NEW n, b <= a
  PROVE  ~Has(f, a, b, n)
  BY DEF Has

(* Whole records are records that were appended, so not number 0.            *)
LEMMA HasRecord ==
  ASSUME NEW f, NEW a \in Int, NEW b \in Int, NEW z \in Seq(Nat \ {0}), NEW n,
         Filled(f, a, b, z), Has(f, a, b, n)
  PROVE  n \in 1..Len(z) /\ n # 0
  BY FilledCell DEF Has

(* Two ranges are apart when no record has cells in both.                    *)
LEMMA ApartHas ==
  ASSUME NEW f, NEW a, NEW b, NEW g, NEW c, NEW d
  PROVE  Apart(f, a, b, g, c, d) <=> \A n : ~(Has(f, a, b, n) /\ Has(g, c, d, n))
  BY DEF Apart, Has

(* The positions of a buffer that Cells takes, as a sequence.                *)
LEMMA CellsIs ==
  ASSUME NEW f, NEW a \in Int, NEW b \in Int, a <= b
  PROVE  /\ Len(Cells(f, a, b)) = b - a
         /\ \A i \in a..(b - 1) : Cells(f, a, b)[i + (1 - a)] = f[i]
         /\ \A k \in 1..(b - a) : Cells(f, a, b)[k] = f[a + k - 1]
<1>1. b - a \in Nat
  OBVIOUS
<1>2. DOMAIN Cells(f, a, b) = 1..(b - a)
  BY DEF Cells
<1>3. Len(Cells(f, a, b)) = b - a
  BY <1>1 DEF Cells
<1>4. \A k \in 1..(b - a) : Cells(f, a, b)[k] = f[a + k - 1]
  BY DEF Cells
<1>5. ASSUME NEW i \in a..(b - 1) PROVE Cells(f, a, b)[i + (1 - a)] = f[i]
  <2>1. i + (1 - a) \in 1..(b - a) /\ a + (i + (1 - a)) - 1 = i
    OBVIOUS
  <2> QED
    BY <1>4, <2>1
<1> QED
  BY <1>3, <1>4, <1>5

(* The records of a sequence of cells.                                       *)
LEMMA IdsIs ==
  ASSUME NEW q, Len(q) \in Nat, NEW n
  PROVE  n \in Ids(q) <=> n # 0 /\ Has(q, 1, Len(q) + 1, n)
<1>1. 1..(Len(q) + 1 - 1) = 1..Len(q)
  OBVIOUS
<1> QED
  BY <1>1 DEF Ids, Has

(* The records of the cells taken from a range.                              *)
LEMMA IdsOfCells ==
  ASSUME NEW f, NEW a \in Int, NEW b \in Int, a <= b, NEW n
  PROVE  n \in Ids(Cells(f, a, b)) <=> n # 0 /\ Has(f, a, b, n)
<1> DEFINE q == Cells(f, a, b)
<1>1. Len(q) = b - a /\ \A i \in a..(b - 1) : q[i + (1 - a)] = f[i]
  BY CellsIs
<1> HIDE DEF q
<1>d. PICK d \in Int : d = 1 - a
  OBVIOUS
<1>2. Has(q, a + d, b + d, n) <=> Has(f, a, b, n)
  <2>1. Copied(f, q, a, b, d)
    BY <1>1, <1>d DEF Copied
  <2> QED
    BY <2>1, HasCopy
<1>3. a + d = 1 /\ b + d = Len(q) + 1 /\ Len(q) \in Nat
  BY <1>1, <1>d
<1>4. n \in Ids(q) <=> n # 0 /\ Has(q, 1, Len(q) + 1, n)
  BY <1>3, IdsIs
<1> QED
  BY <1>2, <1>3, <1>4 DEF q

(* A POST of whole records is whole.                                         *)
LEMMA FilledWhole ==
  ASSUME NEW f, NEW a \in Int, NEW b \in Int, a <= b, sizes \in Seq(Nat \ {0}),
         Filled(f, a, b, sizes)
  PROVE  Whole(Cells(f, a, b))
<1>0. PICK q : q = Cells(f, a, b)
  OBVIOUS
<1>a. Len(q) = b - a /\ \A k \in 1..(b - a) : q[k] = f[a + k - 1]
  BY <1>0, CellsIs
<1>1. Len(q) = b - a /\ Len(q) \in Nat /\ \A k \in 1..(b - a) : q[k] = f[a + k - 1]
  BY <1>a
<1>2. \A n \in DOMAIN sizes : sizes[n] \in Int
  OBVIOUS
<1>3. ASSUME NEW k \in 1..Len(q)
      PROVE  /\ q[k] # Zero
             /\ q[k][2] > 0 => k < Len(q) /\ q[k + 1] = <<q[k][1], q[k][2] - 1>>
             /\ q[k][2] < sizes[q[k][1]] - 1 => k > 1 /\ q[k - 1] = <<q[k][1], q[k][2] + 1>>
  <2>1. PICK i \in Int : i = a + k - 1
    OBVIOUS
  <2>2. i \in a..(b - 1) /\ q[k] = f[i] /\ k \in Int
    BY <1>1, <2>1
  <2>3. PICK n \in DOMAIN sizes, e \in Int, s \in Int : RecordAt(f, a, b, sizes, i, n, e, s)
    BY <1>2, <2>2, FilledHas
  <2>4. PICK left \in Nat : left = f[i][2]
    BY <2>3 DEF RecordAt
  <2>5. /\ f[i][1] = n /\ sizes[n] = s /\ i + left = e /\ e < b /\ a <= e + 1 - s /\ left < s
    BY <2>3, <2>4 DEF RecordAt
  <2>6. \A j \in (e + 1 - s)..e : f[j] = <<n, e - j>>
    BY <2>3 DEF RecordAt
  <2>7. q[k] # Zero
    BY <2>2, FilledCell
  <2>8. ASSUME left > 0 PROVE k < Len(q) /\ q[k + 1] = <<n, left - 1>>
    <3>0. i + left = e /\ left < s
      BY <2>5
    <3>1. i + 1 \in (e + 1 - s)..e /\ e - (i + 1) = left - 1
      BY <2>8, <3>0
    <3>2. f[i + 1] = <<n, left - 1>>
      BY <2>6, <3>1
    <3>3. k + 1 \in 1..(b - a) /\ a + (k + 1) - 1 = i + 1 /\ k < Len(q)
      BY <1>1, <2>1, <2>5, <3>1
    <3>4. q[k + 1] = f[i + 1]
      BY <1>1, <3>3
    <3> QED
      BY <3>2, <3>3, <3>4
  <2>9. ASSUME left < s - 1 PROVE k > 1 /\ q[k - 1] = <<n, left + 1>>
    <3>0. i + left = e /\ left < s
      BY <2>5
    <3>1. i - 1 \in (e + 1 - s)..e /\ e - (i - 1) = left + 1
      BY <2>9, <3>0
    <3>2. f[i - 1] = <<n, left + 1>>
      BY <2>6, <3>1
    <3>3. k - 1 \in 1..(b - a) /\ a + (k - 1) - 1 = i - 1 /\ k > 1
      BY <2>1, <2>2, <2>5, <3>1
    <3>4. q[k - 1] = f[i - 1]
      BY <1>1, <3>3
    <3> QED
      BY <3>2, <3>3, <3>4
  <2> QED
    BY <2>2, <2>4, <2>5, <2>7, <2>8, <2>9
<1> QED
  BY <1>0, <1>3 DEF Whole

(* Nothing between a and b changes.                                          *)
LEMMA SameRecords ==
  ASSUME NEW f, NEW g, NEW z, NEW a \in Int, NEW b \in Int, NEW y, Extended(z, y),
         Filled(f, a, b, z), \A i \in a..(b - 1) : g[i] = f[i]
  PROVE  Filled(g, a, b, y) /\ \A n : Has(g, a, b, n) <=> Has(f, a, b, n)
<1>1. PICK d \in Int : d = 0
  OBVIOUS
<1>2. a + d = a /\ b + d = b
  BY <1>1
<1>3. Copied(f, g, a, b, d)
  BY <1>1 DEF Copied
<1>4. Filled(g, a + d, b + d, y)
  BY <1>3, FilledCopy
<1>5. ASSUME NEW n PROVE Has(g, a + d, b + d, n) <=> Has(f, a, b, n)
  BY <1>3, HasCopy
<1> QED
  BY <1>2, <1>4, <1>5
-----------------------------------------------------------------------------
(* What the operations on the buffer do to its layout.                       *)

(* The buffer holds only records that were appended.                         *)
LEMMA LayoutHeld ==
  ASSUME SizesAssumption, NEW f, NEW z \in Seq(Nat \ {0}), NEW lo \in Int, NEW hi \in Int, NEW w \in Int,
         Layout(f, lo, hi, w, z), NEW n, HeldIn(f, lo, hi, w, n)
  PROVE  n \in 1..Len(z) /\ n # 0
<1>1. HDR \in Int
  BY DEF SizesAssumption
<1> QED
  BY <1>1, HasRecord DEF Layout, HeldIn

(* With no gap between them the two runs of records are one.                 *)
LEMMA LayoutJoin ==
  ASSUME SizesAssumption, NEW f, NEW z \in Seq(Nat \ {0}), NEW lo \in Int, NEW w \in Int,
         Layout(f, lo, lo, w, z)
  PROVE  /\ Layout(f, w, w, w, z) /\ Cleared(f, w, w)
         /\ \A n : HeldIn(f, w, w, w, n) <=> HeldIn(f, lo, lo, w, n)
<1>1. HDR \in Int /\ HDR <= lo /\ lo <= w /\ HDR <= w /\ w < BUF
  BY DEF SizesAssumption, Layout
<1>2. Filled(f, HDR, w, z)
  BY <1>1, FilledJoin DEF Layout
<1>3. Filled(f, w, w, z) /\ \A n : ~Has(f, w, w, n)
  BY FilledEmpty, HasEmpty
<1>4. Apart(f, HDR, w, f, w, w) /\ Cleared(f, w, w)
  BY DEF Apart, Cleared
<1>5. \A n : Has(f, HDR, w, n) <=> Has(f, HDR, lo, n) \/ Has(f, lo, w, n)
  BY <1>1, HasSplit
<1> QED
  BY <1>1, <1>2, <1>3, <1>4, <1>5 DEF Layout, HeldIn

(* _reset_log_buffer, and the buffer at the start.                           *)
LEMMA LayoutEmpty ==
  ASSUME SizesAssumption, NEW f, NEW z, Headed(f), Cleared(f, HDR, BUF)
  PROVE  /\ Layout(f, HDR, HDR, HDR, z) /\ Cleared(f, HDR, HDR)
         /\ \A n : ~HeldIn(f, HDR, HDR, HDR, n)
<1>1. HDR \in Int /\ HDR < BUF
  BY DEF SizesAssumption, BUF
<1>2. Filled(f, HDR, HDR, z) /\ \A n : ~Has(f, HDR, HDR, n)
  BY <1>1, FilledEmpty, HasEmpty
<1>3. Apart(f, HDR, HDR, f, HDR, HDR) /\ Cleared(f, HDR, HDR)
  BY <1>1 DEF Apart, Cleared
<1> QED
  BY <1>1, <1>2, <1>3 DEF Layout, HeldIn

(* _reset_log_buffer clears all that follows the header.                     *)
LEMMA Reset ==
  ASSUME SizesAssumption, NEW f \in [0..(BUF - 1) -> CellSet], Headed(f)
  PROVE  /\ memzero(f, HDR, BUF - HDR) \in [0..(BUF - 1) -> CellSet]
         /\ Headed(memzero(f, HDR, BUF - HDR))
         /\ Cleared(memzero(f, HDR, BUF - HDR), HDR, BUF)
<1>1. HDR \in Nat /\ BUF \in Nat /\ HDR > 0
  BY DEF SizesAssumption, BUF
<1>2. Zero \in CellSet
  BY DEF Zero, CellSet
<1>3. PICK g : g = memzero(f, HDR, BUF - HDR)
  OBVIOUS
<1>4. /\ g \in [0..(BUF - 1) -> CellSet]
      /\ \A i \in 0..(BUF - 1) : g[i] = IF i \in HDR..(HDR + (BUF - HDR) - 1) THEN Zero ELSE f[i]
  BY <1>2, <1>3 DEF memzero
<1>5. Cleared(g, HDR, BUF)
  BY <1>1, <1>4 DEF Cleared
<1>6. Headed(g)
  <2> SUFFICES ASSUME NEW i \in 0..(HDR - 1) PROVE g[i] = Header
    BY DEF Headed
  <2>1. f[i] = Header
    BY DEF Headed
  <2>2. CASE i \in 0..(BUF - 1)
    BY <1>1, <1>4, <2>1, <2>2
  <2>3. CASE i \notin 0..(BUF - 1)
    BY <1>1, <1>4, <2>1, <2>3
  <2> QED
    BY <2>2, <2>3
<1> QED
  BY <1>3, <1>4, <1>5, <1>6

(* append_to_upload_buffer: one more record behind the others.               *)
Appended(f, g, w, s, m) ==
  g = [i \in DOMAIN f |-> IF i \in w..(w + s - 1) THEN <<m, w + s - 1 - i>> ELSE f[i]]

AppendedTo(f, g, lo, hi, w, s, m, z) ==
  /\ g \in [0..(BUF - 1) -> CellSet]
  /\ Layout(g, lo, hi, w + s, Append(z, s))
  /\ Cleared(f, lo, hi) => Cleared(g, lo, hi)
  /\ \A n : HeldIn(g, lo, hi, w + s, n) <=> HeldIn(f, lo, hi, w, n) \/ n = m

(* Appending a record behind w leaves the rest of the layout alone.          *)
LEMMA LayoutAppend ==
  ASSUME SizesAssumption, NEW f \in [0..(BUF - 1) -> CellSet], NEW g, NEW z \in Seq(Nat \ {0}),
         NEW lo \in Int, NEW hi \in Int, NEW w \in Int, NEW s \in Nat \ {0}, NEW m, m = Len(z) + 1,
         Layout(f, lo, hi, w, z), w + s < BUF, Appended(f, g, w, s, m)
  PROVE  AppendedTo(f, g, lo, hi, w, s, m, z)
<1>1. HDR \in Nat /\ BUF \in Nat /\ m \in Nat
  BY DEF SizesAssumption, BUF
<1>2. HDR <= lo /\ lo <= hi /\ hi <= w /\ w < BUF
  BY DEF Layout
<1> DEFINE y == Append(z, s)
<1>3. y \in Seq(Nat \ {0}) /\ Len(y) = m /\ y[m] = s /\ \A n \in 1..Len(z) : y[n] = z[n]
  OBVIOUS
<1>4. DOMAIN z = 1..Len(z) /\ DOMAIN y = 1..Len(y) /\ Len(z) \in Nat /\ m \in 1..Len(y)
  BY <1>3
<1>5. Extended(z, y)
  BY <1>3, <1>4 DEF Extended
<1> HIDE DEF y
<1>6. /\ DOMAIN g = 0..(BUF - 1)
      /\ \A i \in 0..(BUF - 1) :
           g[i] = IF i \in w..(w + s - 1) THEN <<m, w + s - 1 - i>> ELSE f[i]
  BY DEF Appended
<1>7. g \in [0..(BUF - 1) -> CellSet]
  <2> SUFFICES ASSUME NEW i \in 0..(BUF - 1) PROVE g[i] \in CellSet
    BY DEF Appended
  <2>1. CASE i \in w..(w + s - 1)
    <3>1. PICK left \in Nat : left = w + s - 1 - i
      BY <2>1
    <3>2. g[i] = <<m, left>>
      BY <1>6, <2>1, <3>1
    <3> QED
      BY <1>1, <3>2 DEF CellSet
  <2>2. CASE i \notin w..(w + s - 1)
    BY <1>6, <2>2
  <2> QED
    BY <2>1, <2>2
<1>8. \A i \in Int : 0 <= i /\ i < w => g[i] = f[i]
  BY <1>1, <1>2, <1>6
<1>9. \A i \in HDR..(lo - 1) : g[i] = f[i]
  BY <1>1, <1>2, <1>8
<1>10. \A i \in hi..(w - 1) : g[i] = f[i]
  BY <1>1, <1>2, <1>8
<1>11. Filled(g, HDR, lo, y) /\ \A n : Has(g, HDR, lo, n) <=> Has(f, HDR, lo, n)
  <2>1. Filled(f, HDR, lo, z) /\ HDR \in Int
    BY <1>1 DEF Layout
  <2> QED
    BY <1>5, <1>9, <2>1, SameRecords
<1>12. Filled(g, hi, w, y) /\ \A n : Has(g, hi, w, n) <=> Has(f, hi, w, n)
  <2>1. Filled(f, hi, w, z)
    BY DEF Layout
  <2> QED
    BY <1>1, <1>10, <1>5, <2>1, SameRecords
<1>13. \A i \in w..(w + y[m] - 1) : g[i] = <<m, w + y[m] - 1 - i>>
  <2>1. ASSUME NEW i \in w..(w + s - 1) PROVE g[i] = <<m, w + s - 1 - i>>
    <3>1. i \in 0..(BUF - 1)
      BY <1>1, <1>2
    <3> QED
      BY <1>6, <3>1
  <2> QED
    BY <1>3, <2>1
<1>14. Filled(g, w, w + s, y)
  BY <1>3, <1>4, <1>13, FilledOne
<1>15. \A n : Has(g, w, w + s, n) <=> n = m
  <2>1. ASSUME NEW i \in w..(w + s - 1) PROVE g[i][1] = m
    <3>1. g[i] = <<m, w + s - 1 - i>>
      BY <1>3, <1>13
    <3> QED
      BY <3>1
  <2>2. w \in w..(w + s - 1)
    OBVIOUS
  <2>3. Has(g, w, w + s, m)
    BY <2>1, <2>2 DEF Has
  <2>4. ASSUME NEW n, Has(g, w, w + s, n) PROVE n = m
    BY <2>1, <2>4 DEF Has
  <2> QED
    BY <2>3, <2>4
<1>16. \A n : HeldIn(f, lo, hi, w, n) => n # m
  BY <1>1, <1>4, LayoutHeld
<1>17. Apart(g, hi, w, g, w, w + s)
  BY <1>12, <1>15, <1>16, ApartHas DEF HeldIn
<1>18. Filled(g, hi, w + s, y)
  BY <1>2, <1>3, <1>12, <1>14, <1>17, FilledJoin
<1>19. \A n : Has(g, hi, w + s, n) <=> Has(f, hi, w, n) \/ n = m
  <2>1. \A n : Has(g, hi, w + s, n) <=> Has(g, hi, w, n) \/ Has(g, w, w + s, n)
    BY <1>2, HasSplit
  <2> QED
    BY <1>12, <1>15, <2>1
<1>20. Apart(g, HDR, lo, g, hi, w + s)
  <2>1. \A n : ~(Has(f, HDR, lo, n) /\ Has(f, hi, w, n))
    BY ApartHas DEF Layout
  <2> QED
    BY <1>11, <1>16, <1>19, <2>1, ApartHas DEF HeldIn
<1>21. Cleared(g, w + s, BUF)
  BY <1>1, <1>2, <1>6 DEF Layout, Cleared
<1>22. Headed(g)
  <2>1. \A i \in 0..(HDR - 1) : g[i] = f[i]
    BY <1>1, <1>2, <1>8
  <2> QED
    BY <2>1 DEF Layout, Headed
<1>23. Cleared(f, lo, hi) => Cleared(g, lo, hi)
  <2>1. \A i \in lo..(hi - 1) : g[i] = f[i]
    BY <1>1, <1>2, <1>8
  <2> QED
    BY <2>1 DEF Cleared
<1>24. hi <= w + s
  BY <1>2
<1>25. Layout(g, lo, hi, w + s, y)
  BY <1>2, <1>11, <1>18, <1>20, <1>21, <1>22, <1>24 DEF Layout
<1> QED
  BY <1>7, <1>11, <1>19, <1>23, <1>25 DEF y, HeldIn, AppendedTo

(* The records from hi on are moved to lo, and the bytes behind are cleared. *)
Closed(f, g, lo, hi, w, end) ==
  /\ end = lo + w - hi
  /\ g = memzero(memmove(f, lo, hi, w - hi), end, BUF - end)

ClosedUp(f, g, lo, hi, w, end, z) ==
  /\ g \in [0..(BUF - 1) -> CellSet]
  /\ Layout(g, end, end, end, z) /\ Cleared(g, end, end)
  /\ \A n : HeldIn(g, end, end, end, n) <=> HeldIn(f, lo, hi, w, n)

(* Closing the gap joins the two runs of records.                            *)
LEMMA LayoutClose ==
  ASSUME SizesAssumption, NEW f \in [0..(BUF - 1) -> CellSet], NEW g, NEW z \in Seq(Nat \ {0}),
         NEW lo \in Int, NEW hi \in Int, NEW w \in Int, NEW end,
         Layout(f, lo, hi, w, z), Closed(f, g, lo, hi, w, end)
  PROVE  ClosedUp(f, g, lo, hi, w, end, z)
<1>1. HDR \in Nat /\ BUF \in Nat
  BY DEF SizesAssumption, BUF
<1>a. HDR <= lo /\ lo <= hi /\ hi <= w /\ w < BUF
  BY DEF Layout
<1>b. end \in Int /\ end = lo + w - hi
  BY DEF Closed
<1>2. /\ HDR <= lo /\ lo <= hi /\ hi <= w /\ w < BUF
      /\ end \in Int /\ lo <= end /\ end <= w /\ end < BUF
  BY <1>1, <1>a, <1>b
<1>3. Zero \in CellSet
  BY DEF Zero, CellSet
<1>4. PICK h : h = memmove(f, lo, hi, w - hi)
  OBVIOUS
<1>5. /\ DOMAIN h = 0..(BUF - 1)
      /\ \A i \in 0..(BUF - 1) :
           h[i] = IF i \in lo..(lo + (w - hi) - 1) THEN f[i - lo + hi] ELSE f[i]
  BY <1>4 DEF memmove
<1>6. /\ DOMAIN g = 0..(BUF - 1)
      /\ \A i \in 0..(BUF - 1) :
           g[i] = IF i \in end..(end + (BUF - end) - 1) THEN Zero ELSE h[i]
  BY <1>4, <1>5 DEF memzero, Closed
<1>7. \A i \in Int : 0 <= i /\ i < lo => g[i] = f[i]
  BY <1>1, <1>2, <1>5, <1>6
<1>8. \A i \in lo..(end - 1) : g[i] = f[i - lo + hi] /\ i - lo + hi \in 0..(BUF - 1)
  BY <1>1, <1>2, <1>b, <1>5, <1>6
<1>9. \A i \in end..(BUF - 1) : g[i] = Zero
  BY <1>1, <1>2, <1>6
<1>10. g \in [0..(BUF - 1) -> CellSet]
  <2>0. g = [i \in 0..(BUF - 1) |-> g[i]]
    BY <1>4, <1>5 DEF memzero, Closed
  <2> SUFFICES ASSUME NEW i \in 0..(BUF - 1) PROVE g[i] \in CellSet
    BY <2>0
  <2>1. CASE i < lo
    BY <1>7, <2>1
  <2>2. CASE lo <= i /\ i < end
    BY <1>1, <1>2, <1>8, <2>2
  <2>3. CASE end <= i
    BY <1>2, <1>3, <1>9, <2>3
  <2> QED
    BY <1>2, <2>1, <2>2, <2>3
<1>11. Extended(z, z)
  BY DEF Extended
<1>12. Filled(g, HDR, lo, z) /\ \A n : Has(g, HDR, lo, n) <=> Has(f, HDR, lo, n)
  <2>1. Filled(f, HDR, lo, z) /\ HDR \in Int
    BY <1>1 DEF Layout
  <2>2. \A i \in HDR..(lo - 1) : g[i] = f[i]
    BY <1>1, <1>2, <1>7
  <2> QED
    BY <1>11, <2>1, <2>2, SameRecords
<1>13. Filled(g, lo, end, z) /\ \A n : Has(g, lo, end, n) <=> Has(f, hi, w, n)
  <2>0. PICK d \in Int : d = lo - hi
    OBVIOUS
  <2>1. Copied(f, g, hi, w, d)
    <3> SUFFICES ASSUME NEW i \in hi..(w - 1) PROVE g[i + d] = f[i]
      BY DEF Copied
    <3>1. i + d \in lo..(end - 1) /\ (i + d) - lo + hi = i
      BY <1>2, <1>b, <2>0
    <3>2. g[i + d] = f[(i + d) - lo + hi]
      BY <1>8, <3>1
    <3> QED
      BY <3>1, <3>2
  <2>2. hi + d = lo /\ w + d = end
    BY <1>2, <1>b, <2>0
  <2>3. Filled(f, hi, w, z)
    BY DEF Layout
  <2>4. Filled(g, hi + d, w + d, z)
    BY <1>11, <2>1, <2>3, FilledCopy
  <2>5. ASSUME NEW n PROVE Has(g, hi + d, w + d, n) <=> Has(f, hi, w, n)
    BY <2>1, HasCopy
  <2> QED
    BY <2>2, <2>4, <2>5
<1>14. Apart(g, HDR, lo, g, lo, end)
  <2>1. \A n : ~(Has(f, HDR, lo, n) /\ Has(f, hi, w, n))
    BY ApartHas DEF Layout
  <2> QED
    BY <1>12, <1>13, <2>1, ApartHas
<1>15. Headed(g)
  <2>1. \A i \in 0..(HDR - 1) : g[i] = f[i]
    BY <1>1, <1>2, <1>7
  <2> QED
    BY <2>1 DEF Layout, Headed
<1>16. Cleared(g, end, BUF)
  BY <1>9 DEF Cleared
<1>17. Layout(g, lo, lo, end, z)
  BY <1>2, <1>12, <1>13, <1>14, <1>15, <1>16 DEF Layout
<1>18. \A n : HeldIn(g, lo, lo, end, n) <=> HeldIn(f, lo, hi, w, n)
  BY <1>12, <1>13 DEF HeldIn
<1>19. /\ Layout(g, end, end, end, z) /\ Cleared(g, end, end)
       /\ \A n : HeldIn(g, end, end, end, n) <=> HeldIn(g, lo, lo, end, n)
  BY <1>2, <1>17, LayoutJoin
<1> QED
  BY <1>10, <1>18, <1>19 DEF ClosedUp

(* g is f after a confirmed fragment.                                        *)
Advanced(f, g, u, p, o, left) ==
  /\ left = p - (u - HDR)
  /\ g = memzero(memmove(f, HDR, u, p - u), left, o - left)

MovedUp(N, f, g, u, p, o, left, z) ==
  /\ g \in [0..N -> CellSet] /\ Headed(g) /\ HDR <= left /\ left <= p
  /\ Filled(g, HDR, left, z) /\ Cleared(g, left, o)
  /\ \A n : Has(g, HDR, left, n) <=> Has(f, u, p, n)
  /\ \A i \in o..N : g[i] = f[i]

(* A confirmed fragment: HDR..u-1 was posted, the rest up to p moves to the  *)
(* front and the bytes up to o are cleared.                                  *)
LEMMA AdvanceIs ==
  ASSUME SizesAssumption, NEW N \in Int, NEW f \in [0..N -> CellSet], NEW g, NEW z \in Seq(Nat \ {0}),
         NEW u \in Int, NEW p \in Int, NEW o \in Int, NEW left \in Int, Advanced(f, g, u, p, o, left),
         HDR <= u, u <= p, p <= o, o - 1 <= N, Headed(f), Filled(f, u, p, z)
  PROVE  MovedUp(N, f, g, u, p, o, left, z)
<1>1. HDR \in Nat /\ left = p - (u - HDR) /\ o <= N + 1
  BY DEF SizesAssumption, Advanced
<1>2. HDR <= left /\ left <= p
  BY <1>1
<1>3. Zero \in CellSet
  BY DEF Zero, CellSet
<1>4. PICK h : h = memmove(f, HDR, u, p - u)
  OBVIOUS
<1>5. /\ DOMAIN h = 0..N
      /\ \A i \in 0..N :
           h[i] = IF i \in HDR..(HDR + (p - u) - 1) THEN f[i - HDR + u] ELSE f[i]
  BY <1>4 DEF memmove
<1>6. \A i \in 0..N :
        g[i] = IF i \in left..(left + (o - left) - 1) THEN Zero ELSE h[i]
  BY <1>4, <1>5 DEF memzero, Advanced
<1>a. ASSUME NEW i \in 0..N
      PROVE  /\ HDR <= i /\ i < left => h[i] = f[i - HDR + u] /\ i - HDR + u \in 0..N
             /\ i < HDR \/ left <= i => h[i] = f[i]
  <2>1. i \in HDR..(HDR + (p - u) - 1) <=> HDR <= i /\ i < left
    BY <1>1
  <2>2. HDR <= i /\ i < left => i - HDR + u \in 0..N
    BY <1>1
  <2> QED
    BY <1>1, <1>5, <2>1, <2>2
<1>b. ASSUME NEW i \in 0..N
      PROVE  /\ left <= i /\ i < o => g[i] = Zero
             /\ i < left \/ o <= i => g[i] = h[i]
  <2>1. i \in left..(left + (o - left) - 1) <=> left <= i /\ i < o
    BY <1>1
  <2> QED
    BY <1>1, <1>6, <2>1
<1>c. left <= o
  BY <1>2
<1>d. HDR - 1 <= N /\ left - 1 <= N /\ o - 1 <= N /\ 0 <= HDR /\ 0 <= left /\ 0 <= o
  BY <1>1, <1>2
<1>7. ASSUME NEW i \in 0..(HDR - 1) PROVE g[i] = f[i]
  <2>1. i \in 0..N /\ i < HDR /\ i < left
    BY <1>1, <1>2, <1>d
  <2> QED
    BY <1>a, <1>b, <2>1
<1>8. ASSUME NEW i \in HDR..(left - 1) PROVE g[i] = f[i - HDR + u] /\ i - HDR + u \in 0..N
  <2>1. i \in 0..N /\ HDR <= i /\ i < left
    BY <1>1, <1>2, <1>d
  <2> QED
    BY <1>a, <1>b, <2>1
<1>9. ASSUME NEW i \in left..(o - 1) PROVE g[i] = Zero
  <2>1. i \in 0..N /\ left <= i /\ i < o
    BY <1>1, <1>2, <1>d
  <2> QED
    BY <1>b, <2>1
<1>10. ASSUME NEW i \in o..N PROVE g[i] = f[i]
  <2>1. i \in 0..N /\ left <= i /\ o <= i
    BY <1>1, <1>2, <1>c, <1>d
  <2> QED
    BY <1>a, <1>b, <2>1
<1>11. g \in [0..N -> CellSet]
  <2>0. g = [i \in 0..N |-> g[i]]
    BY <1>4, <1>5 DEF memzero, Advanced
  <2> SUFFICES ASSUME NEW i \in 0..N PROVE g[i] \in CellSet
    BY <2>0
  <2>1. CASE i < HDR
    BY <1>1, <1>7, <2>1
  <2>2. CASE HDR <= i /\ i < left
    BY <1>1, <1>2, <1>8, <2>2
  <2>3. CASE left <= i /\ i < o
    BY <1>2, <1>3, <1>9, <2>3
  <2>4. CASE o <= i
    BY <1>10, <2>4
  <2> QED
    BY <1>1, <1>2, <2>1, <2>2, <2>3, <2>4
<1>12. Headed(g)
  BY <1>7 DEF Headed
<1>13. PICK d \in Int : d = HDR - u
  BY <1>1
<1>14. Copied(f, g, u, p, d)
  <2> SUFFICES ASSUME NEW i \in u..(p - 1) PROVE g[i + d] = f[i]
    BY DEF Copied
  <2>1. i + d \in HDR..(left - 1) /\ (i + d) - HDR + u = i
    BY <1>1, <1>13
  <2>2. g[i + d] = f[(i + d) - HDR + u]
    BY <1>8, <2>1
  <2> QED
    BY <2>1, <2>2
<1>15. u + d = HDR /\ p + d = left
  BY <1>1, <1>13
<1>16. Extended(z, z)
  BY DEF Extended
<1>17. Filled(g, u + d, p + d, z)
  BY <1>14, <1>16, FilledCopy
<1>18. ASSUME NEW n PROVE Has(g, u + d, p + d, n) <=> Has(f, u, p, n)
  BY <1>14, HasCopy
<1> QED
  BY <1>2, <1>9, <1>10, <1>11, <1>12, <1>15, <1>17, <1>18 DEF Cleared, MovedUp

(* g is the buffer f after its first fragment, below u, was moved off.       *)
MovedOff(f, g, lo, hi, w, u, left, z) ==
  /\ g \in [0..(BUF - 1) -> CellSet]
  /\ Layout(g, left, hi, w, z) /\ Cleared(g, left, hi)
  /\ \A n : HeldIn(g, left, hi, w, n) <=> Has(f, u, lo, n) \/ Has(f, hi, w, n)

(* The part of the buffer that is being posted is cut at u; the records      *)
(* behind the gap stay where they are.                                       *)
LEMMA LayoutAdvance ==
  ASSUME SizesAssumption, NEW f \in [0..(BUF - 1) -> CellSet], NEW g, NEW z \in Seq(Nat \ {0}),
         NEW lo \in Int, NEW hi \in Int, NEW w \in Int, NEW u \in Int, NEW left \in Int,
         Advanced(f, g, u, lo, hi, left), HDR <= u, u <= lo, u = lo \/ f[u - 1][2] = 0,
         Layout(f, lo, hi, w, z)
  PROVE  MovedOff(f, g, lo, hi, w, u, left, z)
<1>1. HDR \in Int /\ BUF \in Int /\ BUF - 1 \in Int
  BY DEF SizesAssumption, BUF
<1>2. HDR <= lo /\ lo <= hi /\ hi <= w /\ w < BUF /\ hi <= (BUF - 1) + 1
  BY <1>1 DEF Layout
<1>3. /\ Headed(f) /\ Filled(f, HDR, lo, z) /\ Filled(f, hi, w, z)
      /\ Apart(f, HDR, lo, f, hi, w) /\ Cleared(f, w, BUF)
  BY DEF Layout
<1>4. Filled(f, HDR, u, z) /\ Filled(f, u, lo, z) /\ Apart(f, HDR, u, f, u, lo)
  BY <1>1, <1>3, FilledCut
<1>5. /\ g \in [0..(BUF - 1) -> CellSet] /\ Headed(g) /\ HDR <= left /\ left <= lo
      /\ Filled(g, HDR, left, z) /\ Cleared(g, left, hi)
      /\ \A n : Has(g, HDR, left, n) <=> Has(f, u, lo, n)
      /\ \A i \in hi..(BUF - 1) : g[i] = f[i]
  <2>1. PICK N \in Int : N = BUF - 1
    BY <1>1
  <2>2. f \in [0..N -> CellSet] /\ hi <= N + 1
    BY <1>2, <2>1
  <2>3. HDR <= u /\ u <= lo /\ lo <= hi /\ hi - 1 <= N
    BY <1>2, <2>2
  <2>4. MovedUp(N, f, g, u, lo, hi, left, z)
    BY <1>3, <1>4, <2>2, <2>3, AdvanceIs
  <2> QED
    BY <2>1, <2>4 DEF MovedUp
<1>6. Filled(g, hi, w, z) /\ \A n : Has(g, hi, w, n) <=> Has(f, hi, w, n)
  <2>1. \A i \in hi..(w - 1) : g[i] = f[i]
    BY <1>1, <1>2, <1>5
  <2>2. Extended(z, z)
    BY DEF Extended
  <2> QED
    BY <1>3, <2>1, <2>2, SameRecords
<1>7. Cleared(g, w, BUF)
  <2>1. \A i \in w..(BUF - 1) : g[i] = f[i]
    BY <1>1, <1>2, <1>5
  <2> QED
    BY <1>3, <2>1 DEF Cleared
<1>8. \A n : Has(f, HDR, lo, n) <=> Has(f, HDR, u, n) \/ Has(f, u, lo, n)
  BY <1>1, HasSplit
<1>9. \A n : ~(Has(f, HDR, lo, n) /\ Has(f, hi, w, n)) /\ ~(Has(f, HDR, u, n) /\ Has(f, u, lo, n))
  BY <1>3, <1>4, ApartHas
<1>10. Apart(g, HDR, left, g, hi, w)
  BY <1>5, <1>6, <1>8, <1>9, ApartHas
<1>11. left <= hi
  BY <1>2, <1>5
<1>12. Layout(g, left, hi, w, z)
  BY <1>2, <1>5, <1>6, <1>7, <1>10, <1>11 DEF Layout
<1> QED
  BY <1>5, <1>6, <1>12 DEF HeldIn, MovedOff

-----------------------------------------------------------------------------
(* Fragments.                                                                *)

(* Some of the numbers 0 to N have a greatest one.                           *)
LEMMA LargestIs ==
  ASSUME NEW N \in Nat, NEW S \in SUBSET (0..N), S # {}
  PROVE  Max(S) \in S /\ \A j \in S : j <= Max(S)
<1> DEFINE Above == {i..N : i \in S}
<1>1. IsFiniteSet(0..N)
  BY FS_Interval
<1>2. Above \subseteq FiniteSubsetsOf(0..N) /\ Above # {}
  <2>1. FiniteSubsetsOf(0..N) = SUBSET (0..N)
    BY <1>1, FS_FiniteSubsetsOfFinite
  <2>2. \A i \in S : i..N \in SUBSET (0..N)
    OBVIOUS
  <2>3. PICK i \in S : TRUE
    OBVIOUS
  <2>4. i..N \in Above
    BY Zenon
  <2>5. \A b \in Above : b \in SUBSET (0..N)
    BY <2>2
  <2> QED
    BY <2>1, <2>4, <2>5
<1>3. PICK b \in Above : \A c \in Above : ~(<<c, b>> \in StrictSubsetOrdering(0..N))
  BY <1>2, FS_StrictSubsetOrderingWellFounded, WFMin
<1>4. PICK i \in S : b = i..N
  OBVIOUS
<1>5. ASSUME NEW j \in S, i < j PROVE FALSE
  <2>1. j..N \in Above /\ j..N \subseteq b /\ i \in b /\ i \notin j..N /\ b \subseteq 0..N
    BY <1>4, <1>5
  <2> QED
    BY <1>3, <2>1 DEF StrictSubsetOrdering
<1>6. \A j \in S : j <= i
  BY <1>5
<1> QED
  BY <1>6 DEF Max

(* The counter of receptions stops at 2.                                     *)
LEMMA CountIs ==
  ASSUME NEW c \in 0..2
  PROVE  /\ Min({2, c + 1}) \in 0..2 /\ Min({2, c + 1}) > 0
         /\ Min({2, c + 1}) > 1 <=> c > 0
<1>1. c = 0 \/ c = 1 \/ c = 2
  OBVIOUS
<1>2. CASE c = 0
  <2>1. Min({2, c + 1}) = 1
    BY <1>2 DEF Min
  <2> QED
    BY <1>2, <2>1
<1>3. CASE c = 1 \/ c = 2
  <2>1. Min({2, c + 1}) = 2
    BY <1>3 DEF Min
  <2> QED
    BY <1>3, <2>1
<1> QED
  BY <1>1, <1>2, <1>3

(* What the loop of _post_log_to_server finds is the end of a record, behind *)
(* the header and before the first cleared byte.                             *)
LEMMA FragmentIs ==
  ASSUME SizesAssumption, NEW N \in Int, NEW f \in [0..N -> CellSet], Headed(f),
         NEW p \in Int, HDR <= p, p <= N, f[p] = Zero \/ MAX_HTTP_LOG_POST_SIZE <= p,
         NEW u, u = FragmentSize(f), u > 0
  PROVE  u \in Int /\ HDR < u /\ u <= p /\ f[u - 1][2] = 0
<1>1. HDR \in Nat /\ HDR > 0 /\ MAX_HTTP_LOG_POST_SIZE \in Nat
  BY DEF SizesAssumption
<1> DEFINE ends == RecordEnds(f)
           fits == {e \in ends : e < MAX_HTTP_LOG_POST_SIZE}
<1>2. ASSUME NEW e \in ends
      PROVE  /\ e \in Nat /\ HDR < e /\ e <= N + 1 /\ f[e - 1][2] = 0
             /\ f[p] = Zero => e <= p
  <2>1. PICK i \in 0..N : /\ f[i] # Zero /\ f[i][2] = 0 /\ e = i + 1
                          /\ \A k \in 0..i : f[k] # Zero
    BY DEF RecordEnds
  <2>2. i >= HDR
    <3>1. ASSUME i < HDR PROVE FALSE
      <4>1. f[i] = Header
        BY <1>1, <3>1 DEF Headed
      <4>2. Header[2] = 1
        BY DEF Header
      <4> QED
        BY <2>1, <4>1, <4>2
    <3> QED
      BY <1>1, <3>1
  <2>3. f[p] = Zero => i < p
    <3>1. ASSUME f[p] = Zero, p <= i PROVE FALSE
      <4>1. p \in 0..i
        BY <1>1, <3>1
      <4> QED
        BY <2>1, <3>1, <4>1
    <3> QED
      BY <3>1
  <2> QED
    BY <1>1, <2>1, <2>2, <2>3
<1>3. u = Max(fits) /\ fits # {}
  <2> HIDE DEF ends
  <2>1. u = CASE ends = {} -> -1
              [] ends # {} /\ fits = {} -> 0
              [] OTHER -> IF fits = ends /\ f[Max(fits)] # Zero THEN -1 ELSE Max(fits)
    BY DEF FragmentSize, ends
  <2>2. ends # {} /\ fits # {}
    BY <2>1
  <2> HIDE DEF fits
  <2>3. u = IF fits = ends /\ f[Max(fits)] # Zero THEN -1 ELSE Max(fits)
    BY <2>1, <2>2
  <2> QED
    BY <2>2, <2>3
<1>4. fits \in SUBSET (0..(N + 1)) /\ N + 1 \in Nat
  <2>1. \A e \in fits : e \in 0..(N + 1)
    BY <1>2
  <2> QED
    BY <1>1, <2>1
<1>5. u \in fits
  <2> HIDE DEF fits
  <2> QED
    BY <1>3, <1>4, LargestIs
<1>6. u \in ends /\ u < MAX_HTTP_LOG_POST_SIZE
  BY <1>5
<1> HIDE DEF ends, fits
<1>7. u \in Int /\ HDR < u /\ f[u - 1][2] = 0 /\ (f[p] = Zero => u <= p)
  BY <1>2, <1>6
<1> QED
  BY <1>1, <1>6, <1>7

-----------------------------------------------------------------------------
(* Steps that move no record.                                                *)

(* Where no upload posts from the buffer, nothing in it is set apart.        *)
LEMMA AtRest ==
  (up.pc \in {"idle", "saved", "check", "snapshot", "delete"} \/ Resending) =>
    Lo = sg_write_index /\ Hi = sg_write_index
  BY DEF Lo, Hi, Uploading, Resending, Posting

(* The same after a step.                                                    *)
LEMMA AtRestNext ==
  (up'.pc \in {"idle", "saved", "check", "snapshot", "delete"} \/ Resending') =>
    Lo' = sg_write_index' /\ Hi' = sg_write_index'
  BY DEF Lo, Hi, Uploading, Resending, Posting

(* The bounds are numbers.                                                   *)
LEMMA BoundsAre ==
  ASSUME SizesAssumption, LogInv
  PROVE  /\ HDR \in Int /\ HDR > 0 /\ BUF \in Int /\ BUF - 1 \in Int
         /\ Lo \in Int /\ Hi \in Int /\ sg_write_index \in Int
         /\ HDR <= Lo /\ Lo <= Hi /\ Hi <= sg_write_index /\ sg_write_index < BUF
<1>1. HDR \in Nat \ {0} /\ BUF \in Nat
  BY DEF SizesAssumption, BUF
<1>2. HDR <= Lo /\ Lo <= Hi /\ Hi <= sg_write_index /\ sg_write_index < BUF
  BY DEF LogInv, BufferInv, Layout
<1>3. /\ sg_write_index \in Nat /\ up.post_size \in Nat /\ up.upload_log_size \in Nat
      /\ up.actual_post_payload \in Nat
  BY DEF LogInv, LogTypeOK, UploadSet
<1>4. Lo \in Int /\ Hi \in Int
  BY <1>1, <1>3 DEF Lo, Hi
<1> QED
  BY <1>1, <1>2, <1>3, <1>4

(* The buffer, the storage and the counts of receptions stay; only the       *)
(* locals of the upload, and the copy of the saved log, change.              *)
LEMMA Quiet ==
  ASSUME LogInv, UNCHANGED <<sg_log_buffer, sg_write_index, storage, sizes, posted, torn, twice>>,
         up' \in UploadSet,
         dropped \subseteq dropped',
         Lo' = Lo, Hi' = Hi, up.pc # "final",
         up.saved /\ up.pc \in {"post", "send", "delete"} =>
           up'.saved /\ up'.pc \in {"post", "send", "delete"},
         UploadInv', CopyInv',
         \A n \in Records : Resending' /\ InCopy(n)' => Fresh(n)
  PROVE  LogInv'
<1>1. LogTypeOK'
  BY DEF LogInv, LogTypeOK
<1>2. BufferInv'
  BY DEF LogInv, BufferInv
<1>3. Records' = Records /\ \A n : (Held(n)' <=> Held(n)) /\ (Stored(n)' <=> Stored(n)) /\ (Fresh(n)' <=> Fresh(n))
  BY DEF Records, Held, Stored, Fresh
<1>4. StorageInv'
  BY <1>3 DEF LogInv, StorageInv
<1>5. FreshInv'
  BY <1>3 DEF LogInv, FreshInv
<1>6. KeptInv'
  BY <1>3 DEF LogInv, KeptInv
<1>7. OnceInv' /\ WholeInv'
  BY <1>3 DEF LogInv, OnceInv, WholeInv
<1> QED
  BY <1>1, <1>2, <1>4, <1>5, <1>6, <1>7 DEF LogInv

(* A step that leaves all that LogInv speaks of.                             *)
LEMMA SameKeeps ==
  ASSUME LogInv,
         UNCHANGED <<sg_log_buffer, sg_write_index, storage, log_buf, up, sizes, posted, torn,
                     dropped, twice>>
  PROVE  LogInv'
<1>1. LogTypeOK' /\ BufferInv'
  BY DEF LogInv, LogTypeOK, BufferInv, Lo, Hi, Uploading, Posting
<1>2. StorageInv' /\ CopyInv' /\ FreshInv' /\ KeptInv'
  BY DEF LogInv, StorageInv, CopyInv, FreshInv, KeptInv, Records, Stored, Held, InCopy,
         Fresh, Lo, Hi, Resending, Uploading, Posting
<1>3. UploadInv' /\ OnceInv' /\ WholeInv'
  BY DEF LogInv, UploadInv, OnceInv, WholeInv, Records, PostBuf, Uploading, Posting
<1> QED
  BY <1>1, <1>2, <1>3 DEF LogInv

(* An upload begins (_check_force_upload).                                   *)
LEMMA BeginUploadKeeps ==
  ASSUME LogInv, NEW force, BeginUpload(force)
  PROVE  LogInv'
<1>1. up.pc = "idle" /\ up' = [NoUpload EXCEPT !.pc = "saved"]
  BY DEF BeginUpload
<1>2. UNCHANGED <<sg_log_buffer, sg_write_index, storage, sizes, posted, torn, twice, dropped>>
  BY DEF BeginUpload, buffers, ghosts
<1>3. up'.pc = "saved"
  BY <1>1 DEF NoUpload
<1>4. Lo' = Lo /\ Hi' = Hi
  BY <1>1, <1>2, <1>3, AtRest, AtRestNext
<1>5. UploadInv' /\ CopyInv' /\ ~Resending'
  BY <1>3 DEF UploadInv, CopyInv, Resending, Uploading, Posting
<1>6. up' \in UploadSet
  BY <1>1 DEF NoUpload, UploadSet
<1> QED
  BY <1>1, <1>2, <1>3, <1>4, <1>5, <1>6, Quiet

(* _handle_saved_log has nothing to post.                                    *)
LEMMA NoSavedLogKeeps ==
  ASSUME LogInv, NoSavedLog
  PROVE  LogInv'
<1>1. up.pc = "saved" /\ up' = [up EXCEPT !.pc = "check"]
  BY DEF NoSavedLog
<1>2. UNCHANGED <<sg_log_buffer, sg_write_index, storage, sizes, posted, torn, twice, dropped>>
  BY DEF NoSavedLog, buffers, ghosts
<1>6. up' \in UploadSet
  BY <1>1 DEF LogInv, LogTypeOK, UploadSet
<1>3. up'.pc = "check"
  BY <1>1 DEF LogInv, LogTypeOK, UploadSet
<1>4. Lo' = Lo /\ Hi' = Hi
  BY <1>1, <1>2, <1>3, AtRest, AtRestNext
<1>5. UploadInv' /\ CopyInv' /\ ~Resending'
  BY <1>3 DEF UploadInv, CopyInv, Resending, Uploading, Posting
<1> QED
  BY <1>1, <1>2, <1>3, <1>4, <1>5, <1>6, Quiet

(* The test for an empty buffer, without the lock.                           *)
LEMMA CheckEmptyKeeps ==
  ASSUME LogInv, CheckEmpty
  PROVE  LogInv'
<1>1. up.pc = "check" /\ (up' = NoUpload \/ up' = [up EXCEPT !.pc = "snapshot"])
  BY DEF CheckEmpty
<1>2. UNCHANGED <<sg_log_buffer, sg_write_index, storage, sizes, posted, torn, twice, dropped>>
  BY DEF CheckEmpty, buffers, ghosts
<1>6. up' \in UploadSet
  <2>1. NoUpload \in UploadSet
    BY DEF NoUpload, UploadSet
  <2>2. [up EXCEPT !.pc = "snapshot"] \in UploadSet
    BY DEF LogInv, LogTypeOK, UploadSet
  <2> QED
    BY <1>1, <2>1, <2>2
<1>3. up'.pc \in {"idle", "snapshot"}
  BY <1>1 DEF LogInv, LogTypeOK, NoUpload, UploadSet
<1>4. Lo' = Lo /\ Hi' = Hi
  BY <1>1, <1>2, <1>3, AtRest, AtRestNext
<1>5. UploadInv' /\ CopyInv' /\ ~Resending'
  BY <1>3 DEF UploadInv, CopyInv, Resending, Uploading, Posting
<1> QED
  BY <1>1, <1>2, <1>3, <1>4, <1>5, <1>6, Quiet

(* The records to upload are all there are.                                  *)
LEMMA SnapshotKeeps ==
  ASSUME SizesAssumption, LogInv, Snapshot
  PROVE  LogInv'
<1>1. /\ up.pc = "snapshot" /\ up' = [PostLog(sg_write_index, FALSE) EXCEPT !.upload_log_size = sg_write_index]
  BY DEF Snapshot
<1>2. UNCHANGED <<sg_log_buffer, sg_write_index, storage, sizes, posted, torn, twice, dropped>>
  BY DEF Snapshot, buffers, ghosts
<1>7. sg_write_index \in Nat
  BY DEF LogInv, LogTypeOK
<1>8. MAX_HTTP_LOG_POST_SIZE \in Nat
  BY DEF SizesAssumption
<1>6. up' \in UploadSet
  BY <1>1, <1>7 DEF LogInv, LogTypeOK, PostLog, UploadSet
<1>3. /\ up'.pc = "post" /\ ~up'.saved /\ up'.post_size = sg_write_index
      /\ up'.orig_post_size = sg_write_index /\ up'.upload_log_size = sg_write_index
      /\ up'.actual_post_payload = 0
      /\ up'.fragments <=> ~(sg_write_index < MAX_HTTP_LOG_POST_SIZE)
  BY <1>1 DEF LogInv, LogTypeOK, PostLog, UploadSet
<1>4. Lo' = Lo /\ Hi' = Hi
  <2>1. Lo = sg_write_index /\ Hi = sg_write_index
    BY <1>1, AtRest
  <2>2. Lo' = sg_write_index /\ Hi' = sg_write_index
    BY <1>3 DEF Lo, Hi, Uploading, Posting
  <2> QED
    BY <2>1, <2>2
<1>5. UploadInv' /\ CopyInv' /\ ~Resending'
  BY <1>3, <1>7, <1>8 DEF UploadInv, CopyInv, Resending, Uploading, Posting
<1> QED
  BY <1>1, <1>2, <1>3, <1>4, <1>5, <1>6, Quiet

(* The saved log is read into a buffer of its own.                           *)
LEMMA HandleSavedLogKeeps ==
  ASSUME SizesAssumption, LogInv, _handle_saved_log
  PROVE  LogInv'
<1>1. /\ up.pc = "saved"
      /\ log_buf' = [i \in 0..(HDR + Len(storage)) |->
                       IF i < HDR THEN Header
                       ELSE IF i = HDR + Len(storage) THEN Zero
                       ELSE storage[i - HDR + 1]]
      /\ up' = PostLog(HDR + Len(storage), TRUE)
  BY DEF _handle_saved_log
<1>2. UNCHANGED <<sg_log_buffer, sg_write_index, storage, sizes, posted, torn, twice, dropped>>
  BY DEF _handle_saved_log, buffers, ghosts
<1>3. HDR \in Nat /\ HDR > 0 /\ storage \in Seq(CellSet) /\ sizes \in Seq(Nat \ {0})
  BY DEF SizesAssumption, LogInv, LogTypeOK
<1>4. PICK len \in Nat : len = Len(storage)
  BY <1>3
<1>5. up' \in UploadSet
  <2>1. PICK size \in Nat : size = HDR + len
    BY <1>3
  <2>2. up' = PostLog(size, TRUE)
    BY <1>1, <1>4, <2>1
  <2>3. PICK fragments \in BOOLEAN : fragments = ~(size < MAX_HTTP_LOG_POST_SIZE)
    OBVIOUS
  <2> QED
    BY <2>1, <2>2, <2>3 DEF LogInv, LogTypeOK, UploadSet, PostLog
<1>6. /\ up'.pc = "post" /\ up'.saved /\ up'.post_size = HDR + len /\ up'.orig_post_size = HDR + len
      /\ up'.fragments \in BOOLEAN
  BY <1>1, <1>3, <1>4 DEF LogInv, LogTypeOK, UploadSet, PostLog
<1>7. Lo' = Lo /\ Hi' = Hi
  BY <1>1, <1>2, <1>6, AtRest, AtRestNext DEF Resending, Posting
<1>8. UploadInv'
  BY <1>6 DEF UploadInv, Uploading, Posting
<1>9. /\ DOMAIN log_buf' = 0..(HDR + len)
      /\ \A i \in 0..(HDR - 1) : log_buf'[i] = Header
      /\ log_buf'[HDR + len] = Zero
      /\ \A i \in HDR..(HDR + len - 1) : log_buf'[i] = storage[i - HDR + 1]
  BY <1>1, <1>3, <1>4
<1>10. log_buf' \in [0..(HDR + len) -> CellSet]
  <2>1. log_buf' = [i \in 0..(HDR + len) |-> log_buf'[i]]
    BY <1>1, <1>4
  <2>2. Zero \in CellSet /\ Header \in CellSet
    BY DEF Zero, Header, CellSet
  <2> SUFFICES ASSUME NEW i \in 0..(HDR + len) PROVE log_buf'[i] \in CellSet
    BY <2>1
  <2>3. CASE i < HDR
    BY <1>3, <1>9, <2>2, <2>3
  <2>4. CASE i = HDR + len
    BY <1>9, <2>2, <2>4
  <2>5. CASE HDR <= i /\ i < HDR + len
    <3>1. PICK k \in Int : k = i - HDR + 1
      BY <1>3
    <3>2. k \in 1..Len(storage) /\ i \in HDR..(HDR + len - 1)
      BY <1>3, <1>4, <2>5, <3>1
    <3>3. log_buf'[i] = storage[k]
      BY <1>9, <3>1, <3>2
    <3> QED
      BY <1>3, <3>2, <3>3
  <2> QED
    BY <1>3, <2>3, <2>4, <2>5
<1>11. PICK d \in Int : d = HDR - 1
  BY <1>3
<1>12. Copied(storage, log_buf', 1, len + 1, d)
  <2> SUFFICES ASSUME NEW i \in 1..(len + 1 - 1) PROVE log_buf'[i + d] = storage[i]
    BY DEF Copied
  <2>1. i + d \in HDR..(HDR + len - 1) /\ (i + d) - HDR + 1 = i
    BY <1>3, <1>11
  <2>2. log_buf'[i + d] = storage[(i + d) - HDR + 1]
    BY <1>9, <2>1
  <2> QED
    BY <2>1, <2>2
<1>13. 1 + d = HDR /\ (len + 1) + d = HDR + len /\ len + 1 \in Int
  BY <1>3, <1>11
<1>14. Filled(log_buf', HDR, HDR + len, sizes)
  <2>1. Filled(storage, 1, len + 1, sizes)
    BY <1>4 DEF LogInv, StorageInv
  <2>2. Extended(sizes, sizes)
    BY <1>3 DEF Extended
  <2>3. Filled(log_buf', 1 + d, (len + 1) + d, sizes)
    BY <1>12, <1>13, <2>1, <2>2, FilledCopy
  <2> QED
    BY <1>13, <2>3
<1>15. ASSUME NEW n PROVE InCopy(n)' <=> Stored(n)
  <2>1. Has(log_buf', 1 + d, (len + 1) + d, n) <=> Has(storage, 1, len + 1, n)
    BY <1>12, <1>13, HasCopy
  <2> QED
    BY <1>4, <1>6, <1>13, <2>1 DEF InCopy, Stored
<1>16. \A n : Stored(n)' <=> Stored(n)
  BY <1>2 DEF Stored
<1>17. CopyInv'
  <2>1. Headed(log_buf')
    BY <1>9 DEF Headed
  <2>2. Cleared(log_buf', HDR + len, HDR + len + 1)
    BY <1>3, <1>9 DEF Cleared
  <2>3. HDR <= HDR + len /\ HDR + len <= HDR + len
    BY <1>3
  <2> QED
    BY <1>2, <1>6, <1>10, <1>14, <1>15, <1>16, <2>1, <2>2, <2>3 DEF CopyInv, Stored
<1>18. \A n \in Records : Stored(n) => Fresh(n)
  BY <1>1 DEF LogInv, FreshInv
<1> QED
  BY <1>1, <1>2, <1>5, <1>6, <1>7, <1>8, <1>15, <1>17, <1>18, Quiet

(* The saved log was posted, or it cannot be read: it is deleted, or kept.   *)
LEMMA DeleteSavedKeeps ==
  ASSUME SizesAssumption, LogInv, DeleteSaved
  PROVE  LogInv'
<1>1. /\ up.pc = "delete" /\ up' = [up EXCEPT !.pc = "check"]
      /\ \/ /\ storage' = <<>> /\ UNCHANGED twice
            /\ dropped' = dropped \cup {n \in Ids(storage) : posted[n] = 0}
         \/ /\ twice' = twice \cup {n \in Ids(storage) : posted[n] > 0}
            /\ UNCHANGED <<storage, dropped>>
  BY DEF DeleteSaved
<1>2. UNCHANGED <<sg_log_buffer, sg_write_index, sizes, posted, torn>>
  BY DEF DeleteSaved, buffers
<1>3. up' \in UploadSet /\ up'.pc = "check"
  BY <1>1 DEF LogInv, LogTypeOK, UploadSet
<1>4. Lo' = Lo /\ Hi' = Hi
  BY <1>1, <1>2, <1>3, AtRest, AtRestNext
<1>5. UploadInv' /\ CopyInv' /\ ~Resending'
  BY <1>3 DEF UploadInv, CopyInv, Resending, Uploading, Posting
<1>6. /\ storage \in Seq(CellSet) /\ Len(storage) \in Nat /\ sizes \in Seq(Nat \ {0})
      /\ Records = DOMAIN sizes /\ Records \subseteq DOMAIN posted /\ DOMAIN posted = 1..MaxLogs
      /\ posted \in [1..MaxLogs -> 0..2]
  BY DEF SizesAssumption, LogInv, LogTypeOK, Records
<1>7. \A n \in Records : n \in Ids(storage) <=> Stored(n)
  <2>1. \A n \in Records : n # 0
    BY DEF Records
  <2> QED
    BY <1>6, <2>1, IdsIs DEF Stored
<1>8. Records' = Records /\ \A n : Held(n)' <=> Held(n)
  BY <1>2, <1>4 DEF Records, Held
<1>9. BufferInv'
  BY <1>1, <1>2, <1>3, <1>4 DEF LogInv, BufferInv
<1>10. CASE /\ storage' = <<>> /\ UNCHANGED twice
            /\ dropped' = dropped \cup {n \in Ids(storage) : posted[n] = 0}
  <2>1. storage' \in Seq(CellSet) /\ Len(storage') = 0 /\ Len(storage') + 1 = 1
    BY <1>10
  <2>2. Filled(storage', 1, Len(storage') + 1, sizes') /\ \A n : ~Stored(n)'
    BY <2>1, FilledEmpty, HasEmpty DEF Stored
  <2>3. LogTypeOK'
    BY <1>2, <1>3, <2>1 DEF LogInv, LogTypeOK
  <2>4. StorageInv'
    BY <2>2 DEF StorageInv
  <2>5. \A n : Fresh(n)' <=> Fresh(n)
    BY <1>2, <1>10 DEF Fresh
  <2>6. FreshInv'
    BY <1>2, <1>5, <1>8, <2>2, <2>5 DEF LogInv, FreshInv
  <2>7. KeptInv'
    <3> SUFFICES ASSUME NEW n \in Records, ~Held(n), posted[n] = 0 PROVE n \in dropped'
      <4>1. \A n \in Records : posted[n] > 0 \/ posted[n] = 0
        BY <1>6
      <4> QED
        BY <1>2, <1>8, <4>1 DEF KeptInv
    <3>1. n \in dropped \/ Stored(n)
      BY DEF LogInv, KeptInv
    <3> QED
      BY <1>7, <1>10, <3>1
  <2>8. OnceInv' /\ WholeInv'
    BY <1>2, <1>8, <1>10 DEF LogInv, OnceInv, WholeInv
  <2> QED
    BY <1>5, <1>9, <2>3, <2>4, <2>6, <2>7, <2>8 DEF LogInv
<1>11. CASE /\ twice' = twice \cup {n \in Ids(storage) : posted[n] > 0}
            /\ UNCHANGED <<storage, dropped>>
  <2>1. \A n : Stored(n)' <=> Stored(n)
    BY <1>11 DEF Stored
  <2>3. LogTypeOK'
    BY <1>2, <1>3, <1>11 DEF LogInv, LogTypeOK
  <2>4. StorageInv'
    BY <1>2, <1>8, <1>11, <2>1 DEF LogInv, StorageInv
  <2>5. \A n : Fresh(n) => Fresh(n)'
    BY <1>2, <1>11 DEF Fresh
  <2>6. \A n \in Records : Stored(n) => Fresh(n)'
    <3>1. \A n \in Records : posted[n] > 0 \/ posted[n] = 0
      BY <1>6
    <3> QED
      BY <1>2, <1>7, <1>11, <3>1 DEF Fresh
  <2>7. FreshInv'
    BY <1>2, <1>5, <1>8, <2>1, <2>5, <2>6 DEF LogInv, FreshInv
  <2>8. KeptInv'
    BY <1>2, <1>8, <1>11, <2>1 DEF LogInv, KeptInv
  <2>9. OnceInv' /\ WholeInv'
    BY <1>2, <1>8, <1>11 DEF LogInv, OnceInv, WholeInv
  <2> QED
    BY <1>5, <1>9, <2>3, <2>4, <2>7, <2>8, <2>9 DEF LogInv
<1> QED
  BY <1>1, <1>10, <1>11

-----------------------------------------------------------------------------
(* Steps that empty the buffer.                                              *)

(* A step that leaves the buffer empty and accounts for what it held.        *)
LEMMA EmptyKeeps ==
  ASSUME SizesAssumption, LogInv, up' \in UploadSet, up'.pc = "idle",
         sg_write_index' = HDR, sg_log_buffer' \in [0..(BUF - 1) -> CellSet],
         Headed(sg_log_buffer'), Cleared(sg_log_buffer', HDR, BUF),
         UNCHANGED <<storage, sizes, posted, torn>>,
         dropped \subseteq dropped', twice \subseteq twice',
         \A n \in Records : Held(n) /\ posted[n] = 0 => n \in dropped',
         \A n \in Records : Stored(n) => Fresh(n)'
  PROVE  LogInv'
<1>1. HDR \in Nat
  BY DEF SizesAssumption
<1>2. Lo' = HDR /\ Hi' = HDR
  BY AtRestNext
<1>3. LogTypeOK'
  BY <1>1 DEF LogInv, LogTypeOK
<1>4. /\ Layout(sg_log_buffer', HDR, HDR, HDR, sizes')
      /\ Cleared(sg_log_buffer', HDR, HDR)
      /\ \A n : ~HeldIn(sg_log_buffer', HDR, HDR, HDR, n)
  BY LayoutEmpty
<1>5. BufferInv'
  BY <1>2, <1>4 DEF BufferInv
<1>6. Records' = Records /\ (\A n : ~Held(n)') /\ (\A n : Stored(n)' <=> Stored(n))
  BY <1>2, <1>4 DEF Records, Held, Stored
<1>7. StorageInv'
  BY <1>6 DEF LogInv, StorageInv
<1>8. UploadInv' /\ CopyInv' /\ ~Resending'
  BY DEF UploadInv, CopyInv, Resending, Uploading, Posting
<1>9. FreshInv'
  BY <1>6, <1>8 DEF LogInv, FreshInv
<1>10. KeptInv'
  <2>1. \A n \in Records : posted[n] > 0 \/ posted[n] = 0
    <3>1. posted \in [1..MaxLogs -> 0..2] /\ Records \subseteq 1..MaxLogs
      BY DEF SizesAssumption, LogInv, LogTypeOK, Records
    <3> QED
      BY <3>1
  <2> QED
    BY <1>6, <2>1 DEF LogInv, KeptInv
<1>11. OnceInv' /\ WholeInv'
  BY <1>6 DEF LogInv, OnceInv, WholeInv
<1> QED
  BY <1>3, <1>5, <1>7, <1>8, <1>9, <1>10, <1>11 DEF LogInv

(* What is discarded with the buffer is what it holds.                       *)
LEMMA PendingIs ==
  ASSUME SizesAssumption, LogInv, Lo = sg_write_index
  PROVE  \A n \in Records : Held(n) /\ posted[n] = 0 => n \in Pending
<1> SUFFICES ASSUME NEW n \in Records, Held(n), posted[n] = 0 PROVE n \in Pending
  OBVIOUS
<1>1. HDR \in Int /\ Lo \in Int /\ Hi \in Int /\ sg_write_index \in Int /\ HDR <= Lo /\ Lo <= Hi /\ Hi <= sg_write_index
  BY BoundsAre
<1>2. ~Has(sg_log_buffer, Hi, sg_write_index, n)
  BY <1>1, HasEmpty
<1>3. Has(sg_log_buffer, HDR, sg_write_index, n)
  BY <1>2 DEF Held, HeldIn
<1>4. n # 0
  BY DEF Records
<1>5. n \in Ids(Cells(sg_log_buffer, HDR, sg_write_index))
  BY <1>1, <1>3, <1>4, IdsOfCells
<1> QED
  BY <1>5 DEF Pending

(* A reset that discards what was pending, while no upload relies on the     *)
(* size of the buffer.                                                       *)
LEMMA ResetKeeps ==
  ASSUME SizesAssumption, LogInv, ~SizeTaken, _reset_log_buffer,
         dropped' = dropped \cup Pending,
         UNCHANGED <<up, log_buf, storage, sizes, posted, torn, twice>>
  PROVE  LogInv'
<1>1. up \in UploadSet /\ sg_log_buffer \in [0..(BUF - 1) -> CellSet] /\ HDR \in Nat
  BY DEF LogInv, LogTypeOK, SizesAssumption
<1>2. Headed(sg_log_buffer)
  BY DEF LogInv, BufferInv, Layout
<1>3. sg_write_index' = HDR /\ sg_log_buffer' = memzero(sg_log_buffer, HDR, BUF - HDR)
  BY DEF _reset_log_buffer, BUF
<1>4. /\ sg_log_buffer' \in [0..(BUF - 1) -> CellSet]
      /\ Headed(sg_log_buffer') /\ Cleared(sg_log_buffer', HDR, BUF)
  BY <1>1, <1>2, <1>3, Reset
<1>5. Lo = sg_write_index /\ Hi = sg_write_index /\ ~Uploading
  BY <1>1 DEF SizeTaken, Lo, Hi, Uploading, Posting
<1>6. Lo' = HDR /\ Hi' = HDR /\ ~Uploading'
  BY <1>3, <1>5 DEF SizeTaken, Lo, Hi, Uploading, Posting
<1>7. /\ Layout(sg_log_buffer', HDR, HDR, HDR, sizes')
      /\ Cleared(sg_log_buffer', HDR, HDR)
      /\ \A n : ~HeldIn(sg_log_buffer', HDR, HDR, HDR, n)
  BY <1>4, LayoutEmpty DEF LogInv, LogTypeOK
<1>8. LogTypeOK'
  BY <1>1, <1>3, <1>4 DEF LogInv, LogTypeOK
<1>9. BufferInv'
  BY <1>3, <1>6, <1>7 DEF BufferInv
<1>10. /\ Records' = Records /\ (\A n : ~Held(n)') /\ (\A n : Stored(n)' <=> Stored(n))
       /\ (\A n : InCopy(n)' <=> InCopy(n)) /\ (\A n : Fresh(n)' <=> Fresh(n))
       /\ (Resending' <=> Resending)
  BY <1>3, <1>6, <1>7 DEF Records, Held, Stored, InCopy, Fresh, Resending, Posting
<1>11. StorageInv'
  BY <1>10 DEF LogInv, StorageInv
<1>12. UploadInv'
  <2>1. up.pc = "send" => PostBuf' = PostBuf
    BY DEF SizeTaken, PostBuf
  <2> QED
    BY <1>6, <2>1 DEF LogInv, UploadInv, Posting
<1>13. CopyInv'
  BY <1>10 DEF LogInv, CopyInv
<1>14. FreshInv'
  BY <1>10 DEF LogInv, FreshInv
<1>15. KeptInv'
  <2>1. \A n \in Records : Held(n) /\ posted[n] = 0 => n \in dropped'
    BY <1>5, PendingIs
  <2>2. \A n \in Records : posted[n] > 0 \/ posted[n] = 0
    <3>1. posted \in [1..MaxLogs -> 0..2] /\ Records \subseteq 1..MaxLogs
      BY DEF SizesAssumption, LogInv, LogTypeOK, Records
    <3> QED
      BY <3>1
  <2> QED
    BY <1>10, <2>1, <2>2 DEF LogInv, KeptInv
<1>16. OnceInv' /\ WholeInv'
  BY <1>10 DEF LogInv, OnceInv, WholeInv
<1> QED
  BY <1>8, <1>9, <1>11, <1>12, <1>13, <1>14, <1>15, <1>16 DEF LogInv

(* A low buffer is reset while uploads are restricted.                       *)
LEMMA SkipUploadKeeps ==
  ASSUME SizesAssumption, LogInv, SkipUpload
  PROVE  LogInv'
<1>1. ~SizeTaken
  BY DEF SkipUpload, SizeTaken
<1> QED
  BY <1>1, ResetKeeps DEF SkipUpload

(* A message on the log topic that does not disturb an upload.               *)
LEMMA LevelKeeps ==
  ASSUME SizesAssumption, LogInv, NEW clear, NEW err, _log_level_sub_cb(clear, err), ~disturbed'
  PROVE  LogInv'
<1>1. UNCHANGED <<up, storage, sizes, posted, torn, twice, log_buf>>
  BY DEF _log_level_sub_cb
<1>2. CASE clear
  <2>1. ~SizeTaken
    BY <1>2 DEF _log_level_sub_cb
  <2> QED
    BY <1>1, <1>2, <2>1, ResetKeeps DEF _log_level_sub_cb
<1>3. CASE ~clear
  <2>1. UNCHANGED <<sg_log_buffer, sg_write_index, dropped>>
    BY <1>3 DEF _log_level_sub_cb, buffers
  <2> QED
    BY <1>1, <2>1, SameKeeps
<1> QED
  BY <1>2, <1>3

(* A restart: the storage is left.                                           *)
LEMMA RebootKeeps ==
  ASSUME SizesAssumption, LogInv, Reboot
  PROVE  LogInv'
<1>1. /\ dropped' = dropped \cup (Pending \ Ids(storage))
      /\ twice' = twice \cup {n \in Ids(storage) : posted[n] > 0}
      /\ sg_log_buffer' = EmptyBuffer(BUF) /\ sg_write_index' = HDR /\ up' = NoUpload
      /\ UNCHANGED <<storage, sizes, posted, torn>>
  BY DEF Reboot, BUF
<1>2. HDR \in Nat /\ BUF \in Nat
  BY DEF SizesAssumption, BUF
<1>3. up' \in UploadSet /\ up'.pc = "idle"
  BY <1>1 DEF NoUpload, UploadSet
<1>4. /\ sg_log_buffer' \in [0..(BUF - 1) -> CellSet]
      /\ Headed(sg_log_buffer') /\ Cleared(sg_log_buffer', HDR, BUF)
  <2>1. Zero \in CellSet /\ Header \in CellSet
    BY DEF Zero, Header, CellSet
  <2>2. HDR < BUF
    BY DEF SizesAssumption, BUF
  <2> QED
    BY <1>1, <1>2, <2>1, <2>2 DEF EmptyBuffer, Headed, Cleared
<1>5. /\ storage \in Seq(CellSet) /\ Len(storage) \in Nat
      /\ \A n \in Records : n # 0 /\ posted[n] \in 0..2
  BY DEF SizesAssumption, LogInv, LogTypeOK, Records
<1>6. \A n \in Records : n \in Ids(storage) <=> Stored(n)
  BY <1>5, IdsIs DEF Stored
<1>7. \A n \in Records : Stored(n) => Fresh(n)'
  <2>1. \A n \in Records : posted[n] > 0 \/ posted[n] = 0
    BY <1>5
  <2> QED
    BY <1>1, <1>6, <2>1 DEF Fresh
<1>8. \A n \in Records : Held(n) => n \in Ids(Cells(sg_log_buffer, HDR, sg_write_index))
  <2> SUFFICES ASSUME NEW n \in Records, Held(n)
               PROVE  n \in Ids(Cells(sg_log_buffer, HDR, sg_write_index))
    OBVIOUS
  <2>1. HDR \in Int /\ Lo \in Int /\ Hi \in Int /\ sg_write_index \in Int /\ HDR <= Lo /\ Lo <= Hi /\ Hi <= sg_write_index
    BY BoundsAre
  <2>2. HDR <= Hi /\ HDR <= sg_write_index /\ Lo <= sg_write_index
    BY <2>1
  <2>3. Has(sg_log_buffer, HDR, sg_write_index, n)
    BY <2>1, <2>2, HasSplit DEF Held, HeldIn
  <2> QED
    BY <1>5, <2>1, <2>2, <2>3, IdsOfCells
<1>9. \A n \in Records : Held(n) /\ posted[n] = 0 => n \in dropped'
  <2> SUFFICES ASSUME NEW n \in Records, Held(n), posted[n] = 0 PROVE n \in dropped'
    OBVIOUS
  <2>1. n \in Pending
    BY <1>8 DEF Pending
  <2>2. n \notin Ids(storage)
    BY <1>6 DEF LogInv, StorageInv
  <2> QED
    BY <1>1, <2>1, <2>2
<1>10. dropped \subseteq dropped' /\ twice \subseteq twice'
  BY <1>1
<1> QED
  BY <1>1, <1>3, <1>4, <1>7, <1>9, <1>10, EmptyKeeps

-----------------------------------------------------------------------------
(* Steps that move the records of the buffer and keep them all.              *)

(* A step that moves the records of the buffer and holds the same ones.      *)
LEMMA MoveKeeps ==
  ASSUME SizesAssumption, LogInv, up' \in UploadSet, sg_write_index' \in Nat,
         sg_log_buffer' \in [0..(BUF - 1) -> CellSet],
         Layout(sg_log_buffer', Lo', Hi', sg_write_index', sizes), Cleared(sg_log_buffer', Lo', Hi'),
         \A n : HeldIn(sg_log_buffer', Lo', Hi', sg_write_index', n) <=> Held(n),
         UNCHANGED <<storage, sizes, posted, torn, twice, dropped>>,
         ~up.saved, UploadInv', CopyInv', ~Resending'
  PROVE  LogInv'
<1>1. LogTypeOK'
  BY DEF LogInv, LogTypeOK
<1>2. BufferInv'
  BY DEF BufferInv
<1>3. /\ Records' = Records
      /\ \A n : (Held(n)' <=> Held(n)) /\ (Stored(n)' <=> Stored(n)) /\ (Fresh(n)' <=> Fresh(n))
  BY DEF Records, Held, Stored, Fresh
<1>4. StorageInv'
  BY <1>3 DEF LogInv, StorageInv
<1>5. FreshInv'
  BY <1>3 DEF LogInv, FreshInv
<1>6. KeptInv'
  BY <1>3 DEF LogInv, KeptInv
<1>7. OnceInv' /\ WholeInv'
  BY <1>3 DEF LogInv, OnceInv, WholeInv
<1> QED
  BY <1>1, <1>2, <1>4, <1>5, <1>6, <1>7 DEF LogInv

(* Records appended during an upload that was posted in part: the gap closes.*)
LEMMA AdjustKeeps ==
  ASSUME SizesAssumption, LogInv, Adjust
  PROVE  LogInv'
<1> DEFINE size == up.upload_log_size
           sent == up.actual_post_payload
           end  == sg_write_index - sent
<1>1. up.pc = "adjust" /\ ~up.saved
  BY DEF Adjust, LogInv, UploadInv
<1>2. Lo = size - sent /\ Hi = size
  BY <1>1 DEF Lo, Hi, Uploading, Posting
<1>3. /\ Lo \in Int /\ Hi \in Int /\ sg_write_index \in Int
      /\ HDR \in Int /\ HDR > 0 /\ HDR <= Lo /\ Lo <= Hi /\ Hi <= sg_write_index
  BY BoundsAre
<1>4. /\ size \in Nat /\ sent \in Nat /\ sizes \in Seq(Nat \ {0}) /\ sg_write_index \in Nat
      /\ sg_log_buffer \in [0..(BUF - 1) -> CellSet] /\ up \in UploadSet
  BY DEF LogInv, LogTypeOK, UploadSet
<1>5. UNCHANGED <<storage, sizes, posted, torn, twice, dropped, log_buf>>
  BY DEF Adjust, ghosts
<1>6. /\ Layout(sg_log_buffer, Lo, Hi, sg_write_index, sizes)
      /\ \A n : Held(n) <=> HeldIn(sg_log_buffer, Lo, Hi, sg_write_index, n)
  BY DEF LogInv, BufferInv, Held
<1>7. CASE sent > 0
  <2>1. /\ sg_write_index' = end
        /\ sg_log_buffer' = memzero(memmove(sg_log_buffer, Lo, Hi, sg_write_index - Hi), end, BUF - end)
        /\ up' = [up EXCEPT !.pc = "save", !.upload_log_size = end]
    BY <1>2, <1>3, <1>7 DEF Adjust, BUF
  <2>2. end = Lo + sg_write_index - Hi /\ end \in Nat
    <3>1. PICK x \in Nat, y \in Nat, w \in Nat : x = size /\ y = sent /\ w = sg_write_index
      BY <1>4
    <3>2. Lo = x - y /\ Hi = x /\ end = w - y /\ HDR <= Lo /\ Hi <= w
      BY <1>2, <1>3, <3>1
    <3>3. w - y \in Nat
      BY <1>3, <3>2
    <3> QED
      BY <3>1, <3>2, <3>3
  <2> HIDE DEF end
  <2>3. /\ sg_log_buffer' \in [0..(BUF - 1) -> CellSet]
        /\ Layout(sg_log_buffer', end, end, end, sizes) /\ Cleared(sg_log_buffer', end, end)
        /\ \A n : HeldIn(sg_log_buffer', end, end, end, n) <=> HeldIn(sg_log_buffer, Lo, Hi, sg_write_index, n)
    <3>1. Closed(sg_log_buffer, sg_log_buffer', Lo, Hi, sg_write_index, end)
      BY <2>1, <2>2 DEF Closed
    <3>2. ClosedUp(sg_log_buffer, sg_log_buffer', Lo, Hi, sg_write_index, end, sizes)
      BY <1>3, <1>4, <1>6, <3>1, LayoutClose
    <3> QED
      BY <3>2 DEF ClosedUp
  <2>4. up' \in UploadSet /\ up'.pc = "save" /\ up'.upload_log_size = end /\ ~up'.saved
    BY <1>1, <1>4, <2>1, <2>2 DEF UploadSet
  <2>5. Lo' = end /\ Hi' = end
    BY <2>4 DEF Lo, Hi, Uploading, Posting
  <2>6. UploadInv' /\ CopyInv' /\ ~Resending'
    BY <2>4 DEF UploadInv, CopyInv, Resending, Uploading, Posting
  <2> QED
    BY <1>1, <1>5, <1>6, <2>1, <2>2, <2>3, <2>4, <2>5, <2>6, MoveKeeps
<1>8. CASE ~(sent > 0)
  <2>1. /\ UNCHANGED <<sg_log_buffer, sg_write_index>>
        /\ up' = [up EXCEPT !.pc = "save", !.upload_log_size = sg_write_index]
    BY <1>8 DEF Adjust, buffers
  <2>2. Lo = Hi
    BY <1>2, <1>4, <1>8
  <2>3. /\ Layout(sg_log_buffer, sg_write_index, sg_write_index, sg_write_index, sizes)
        /\ Cleared(sg_log_buffer, sg_write_index, sg_write_index)
        /\ \A n : HeldIn(sg_log_buffer, sg_write_index, sg_write_index, sg_write_index, n) <=> Held(n)
    BY <1>3, <1>4, <1>6, <2>2, LayoutJoin
  <2>4. up' \in UploadSet /\ up'.pc = "save" /\ up'.upload_log_size = sg_write_index /\ ~up'.saved
    BY <1>1, <1>4, <2>1 DEF UploadSet
  <2>5. Lo' = sg_write_index /\ Hi' = sg_write_index
    BY <2>4 DEF Lo, Hi, Uploading, Posting
  <2>6. UploadInv' /\ CopyInv' /\ ~Resending'
    BY <2>4 DEF UploadInv, CopyInv, Resending, Uploading, Posting
  <2> QED
    BY <1>1, <1>4, <1>5, <2>1, <2>3, <2>4, <2>5, <2>6, MoveKeeps
<1> QED
  BY <1>7, <1>8

(* The end of an upload: what was appended meanwhile moves to the front.     *)
LEMMA MoveNewLogKeeps ==
  ASSUME SizesAssumption, LogInv, MoveNewLog
  PROVE  LogInv'
<1> DEFINE size == up.upload_log_size
           end  == sg_write_index - size + HDR
<1>1. up.pc = "final" /\ ~up.saved
  BY DEF MoveNewLog, LogInv, UploadInv
<1>2. Lo = HDR /\ Hi = size
  BY <1>1 DEF Lo, Hi, Uploading, Posting
<1>3. /\ Hi \in Int /\ sg_write_index \in Int /\ HDR \in Int /\ HDR > 0
      /\ HDR <= Hi /\ Hi <= sg_write_index
  BY <1>2, BoundsAre
<1>4. /\ sizes \in Seq(Nat \ {0}) /\ sg_write_index \in Nat
      /\ sg_log_buffer \in [0..(BUF - 1) -> CellSet]
  BY DEF LogInv, LogTypeOK
<1>5. UNCHANGED <<storage, sizes, posted, torn, twice, dropped, log_buf>>
  BY DEF MoveNewLog, ghosts
<1>6. /\ Layout(sg_log_buffer, HDR, Hi, sg_write_index, sizes)
      /\ \A n : Held(n) <=> HeldIn(sg_log_buffer, HDR, Hi, sg_write_index, n)
  BY <1>2 DEF LogInv, BufferInv, Held
<1>7. CASE size = sg_write_index
  <2>1. up' = NoUpload /\ sg_write_index' = HDR /\ sg_log_buffer' = memzero(sg_log_buffer, HDR, BUF - HDR)
    BY <1>7 DEF MoveNewLog, _reset_log_buffer, BUF
  <2>2. up' \in UploadSet /\ up'.pc = "idle"
    BY <2>1 DEF NoUpload, UploadSet
  <2>3. Headed(sg_log_buffer)
    BY <1>6 DEF Layout
  <2>4. /\ sg_log_buffer' \in [0..(BUF - 1) -> CellSet]
        /\ Headed(sg_log_buffer') /\ Cleared(sg_log_buffer', HDR, BUF)
    BY <1>4, <2>1, <2>3, Reset
  <2>5. \A n : ~Held(n)
    BY <1>2, <1>3, <1>6, <1>7, HasEmpty DEF HeldIn
  <2>6. \A n \in Records : Stored(n) => Fresh(n)'
    BY <1>1, <1>5 DEF LogInv, FreshInv, Fresh
  <2> QED
    BY <1>5, <2>1, <2>2, <2>4, <2>5, <2>6, EmptyKeeps
<1>8. CASE size # sg_write_index
  <2>0. size < sg_write_index
    BY <1>2, <1>3, <1>8
  <2>1. /\ sg_write_index' = end /\ up' = NoUpload
        /\ sg_log_buffer' = memzero(memmove(sg_log_buffer, HDR, Hi, sg_write_index - Hi), end, BUF - end)
    BY <1>2, <1>8, <2>0 DEF MoveNewLog, BUF
  <2>2. end = HDR + sg_write_index - Hi /\ end \in Nat
    BY <1>2, <1>3
  <2> HIDE DEF end
  <2>3. /\ sg_log_buffer' \in [0..(BUF - 1) -> CellSet]
        /\ Layout(sg_log_buffer', end, end, end, sizes) /\ Cleared(sg_log_buffer', end, end)
        /\ \A n : HeldIn(sg_log_buffer', end, end, end, n) <=> HeldIn(sg_log_buffer, HDR, Hi, sg_write_index, n)
    <3>1. Closed(sg_log_buffer, sg_log_buffer', HDR, Hi, sg_write_index, end)
      BY <2>1, <2>2 DEF Closed
    <3>2. ClosedUp(sg_log_buffer, sg_log_buffer', HDR, Hi, sg_write_index, end, sizes)
      BY <1>3, <1>4, <1>6, <3>1, LayoutClose
    <3> QED
      BY <3>2 DEF ClosedUp
  <2>4. up' \in UploadSet /\ up'.pc = "idle"
    BY <2>1 DEF NoUpload, UploadSet
  <2>5. Lo' = end /\ Hi' = end
    BY <2>1, <2>4, AtRestNext
  <2>6. UploadInv' /\ CopyInv' /\ ~Resending'
    BY <2>4 DEF UploadInv, CopyInv, Resending, Uploading, Posting
  <2> QED
    BY <1>1, <1>5, <1>6, <2>1, <2>2, <2>3, <2>4, <2>5, <2>6, MoveKeeps
<1> QED
  BY <1>7, <1>8

-----------------------------------------------------------------------------
(* Saving.                                                                   *)

(* r is the sequence q with the cells of f from a to b - 1 behind it.        *)
Saved(f, q, a, b, r, z) ==
  /\ r \in Seq(CellSet) /\ Filled(r, 1, Len(r) + 1, z)
  /\ \A n : Has(r, 1, Len(r) + 1, n) <=> Has(q, 1, Len(q) + 1, n) \/ Has(f, a, b, n)

(* The saved log and the records appended to it are whole records.           *)
LEMMA ConcatRecords ==
  ASSUME NEW q \in Seq(CellSet), BUF \in Int, NEW f \in [0..(BUF - 1) -> CellSet],
         NEW z \in Seq(Nat \ {0}), NEW a \in Int, NEW b \in Int, 0 <= a, a <= b, b <= BUF,
         Filled(q, 1, Len(q) + 1, z), Filled(f, a, b, z), Apart(f, a, b, q, 1, Len(q) + 1),
         NEW r, r = q \o Cells(f, a, b)
  PROVE  Saved(f, q, a, b, r, z)
<1>1. PICK t : t = Cells(f, a, b)
  OBVIOUS
<1>2. PICK lq \in Nat : lq = Len(q)
  OBVIOUS
<1>3. PICK lt \in Nat : lt = b - a
  OBVIOUS
<1>4. t \in Seq(CellSet) /\ Len(t) = lt /\ \A k \in 1..lt : t[k] = f[a + k - 1]
  <2>0. Len(t) = b - a /\ \A k \in 1..(b - a) : t[k] = f[a + k - 1]
    BY <1>1, CellsIs
  <2>1. Len(t) = lt /\ \A k \in 1..lt : t[k] = f[a + k - 1]
    BY <1>3, <2>0
  <2>2. \A k \in 1..lt : a + k - 1 \in 0..(BUF - 1)
    BY <1>3
  <2>3. t = [k \in 1..lt |-> f[a + k - 1]]
    BY <1>1, <1>3 DEF Cells
  <2>4. t \in [1..lt -> CellSet]
    BY <2>2, <2>3
  <2> QED
    BY <2>1, <2>4
<1>5. /\ r \in Seq(CellSet) /\ Len(r) = lq + lt
      /\ \A k \in 1..lq : r[k] = q[k]
      /\ \A k \in (lq + 1)..(lq + lt) : r[k] = t[k - lq]
  <2>1. r = q \o t /\ Len(t) = lt /\ Len(q) = lq /\ t \in Seq(CellSet)
    BY <1>1, <1>2, <1>4
  <2>a. /\ (q \o t) \in Seq(CellSet) /\ Len(q \o t) = Len(q) + Len(t)
        /\ \A k \in 1..(Len(q) + Len(t)) :
             (q \o t)[k] = IF k <= Len(q) THEN q[k] ELSE t[k - Len(q)]
    BY <2>1, ConcatProperties
  <2>2. r \in Seq(CellSet) /\ Len(r) = lq + lt
    BY <2>1, <2>a
  <2>3. ASSUME NEW k \in 1..lq PROVE r[k] = q[k]
    <3>1. k \in 1..(Len(q) + Len(t)) /\ k <= Len(q)
      BY <2>1
    <3> QED
      BY <2>1, <2>a, <3>1
  <2>4. ASSUME NEW k \in (lq + 1)..(lq + lt) PROVE r[k] = t[k - lq]
    <3>1. k \in 1..(Len(q) + Len(t)) /\ ~(k <= Len(q))
      BY <2>1
    <3> QED
      BY <2>1, <2>a, <3>1
  <2> QED
    BY <2>2, <2>3, <2>4
<1>6. Extended(z, z)
  BY DEF Extended
<1>7. Filled(r, 1, lq + 1, z) /\ \A n : Has(r, 1, lq + 1, n) <=> Has(q, 1, lq + 1, n)
  <2>0. PICK c \in Int, one \in Int : c = lq + 1 /\ one = 1
    OBVIOUS
  <2>1. \A i \in one..(c - 1) : r[i] = q[i]
    BY <1>5, <2>0
  <2>2. Filled(q, one, c, z)
    BY <1>2, <2>0
  <2>3. Filled(r, one, c, z) /\ \A n : Has(r, one, c, n) <=> Has(q, one, c, n)
    BY <1>6, <2>1, <2>2, SameRecords
  <2> QED
    BY <2>0, <2>3
<1>8. /\ Filled(r, lq + 1, lq + lt + 1, z)
      /\ \A n : Has(r, lq + 1, lq + lt + 1, n) <=> Has(f, a, b, n)
  <2>1. PICK d \in Int : d = lq + 1 - a
    OBVIOUS
  <2>2. Copied(f, r, a, b, d)
    <3> SUFFICES ASSUME NEW i \in a..(b - 1) PROVE r[i + d] = f[i]
      BY DEF Copied
    <3>1. i + d \in (lq + 1)..(lq + lt) /\ (i + d) - lq \in 1..lt /\ a + ((i + d) - lq) - 1 = i
      BY <1>3, <2>1
    <3>2. r[i + d] = t[(i + d) - lq]
      BY <1>5, <3>1
    <3>3. t[(i + d) - lq] = f[a + ((i + d) - lq) - 1]
      BY <1>4, <3>1
    <3> QED
      BY <3>1, <3>2, <3>3
  <2>3. a + d = lq + 1 /\ b + d = lq + lt + 1
    BY <1>3, <2>1
  <2>4. Filled(r, a + d, b + d, z)
    BY <1>6, <2>2, FilledCopy
  <2>5. ASSUME NEW n PROVE Has(r, a + d, b + d, n) <=> Has(f, a, b, n)
    BY <2>2, HasCopy
  <2> QED
    BY <2>3, <2>4, <2>5
<1>9. PICK c \in Int, e \in Int : c = lq + 1 /\ e = lq + lt + 1 /\ 1 <= c /\ c <= e
  OBVIOUS
<1>10. Apart(r, 1, c, r, c, e)
  <2>1. \A n : ~(Has(f, a, b, n) /\ Has(q, 1, c, n))
    BY <1>2, <1>9, ApartHas
  <2> QED
    BY <1>7, <1>8, <1>9, <2>1, ApartHas
<1>11. Filled(r, 1, e, z)
  BY <1>7, <1>8, <1>9, <1>10, FilledJoin
<1>12. \A n : Has(r, 1, e, n) <=> Has(r, 1, c, n) \/ Has(r, c, e, n)
  BY <1>9, HasSplit
<1>13. e = Len(r) + 1
  BY <1>5, <1>9
<1> QED
  BY <1>2, <1>5, <1>7, <1>8, <1>9, <1>11, <1>12, <1>13 DEF Saved

(* What is left of an upload is saved behind what was saved before, or in    *)
(* its place, or given up.                                                   *)
LEMMA SaveKeeps ==
  ASSUME SizesAssumption, LogInv, NEW deletes, NEW saves, _save_log(deletes, saves)
  PROVE  LogInv'
<1>1. up.pc = "save" /\ ~up.saved /\ up' = [up EXCEPT !.pc = "final"]
  BY DEF _save_log, LogInv, UploadInv
<1>2. Lo = up.upload_log_size /\ Hi = up.upload_log_size
  BY <1>1 DEF Lo, Hi, Uploading, Posting
<1>3. PICK new : new = Cells(sg_log_buffer, HDR, Lo)
  OBVIOUS
<1>4. PICK kept \in {<<>>, storage} :
        /\ storage' = kept \o new \/ storage' = kept
        /\ dropped' = dropped \cup ({n \in Ids(storage \o new) : posted[n] = 0} \ Ids(storage'))
  BY <1>2, <1>3 DEF _save_log
<1>5. UNCHANGED <<sg_log_buffer, sg_write_index, log_buf, sizes, posted, torn, twice>>
  BY DEF _save_log, buffers
<1>6. /\ Lo \in Int /\ Hi \in Int /\ sg_write_index \in Int /\ BUF \in Int
      /\ HDR \in Int /\ 0 <= HDR /\ HDR <= Lo /\ Lo <= Hi /\ Hi <= sg_write_index
      /\ sg_write_index < BUF /\ Lo <= BUF /\ HDR <= Hi
  BY BoundsAre
<1>7. /\ sizes \in Seq(Nat \ {0}) /\ sg_write_index \in Nat /\ storage \in Seq(CellSet)
      /\ sg_log_buffer \in [0..(BUF - 1) -> CellSet] /\ up \in UploadSet
  BY DEF LogInv, LogTypeOK
<1>8. /\ up' \in UploadSet /\ up'.pc = "final" /\ ~up'.saved
      /\ up'.upload_log_size = up.upload_log_size
  BY <1>1, <1>7 DEF UploadSet
<1>9. Lo' = HDR /\ Hi' = Hi
  BY <1>2, <1>8 DEF Lo, Hi, Uploading, Posting
<1>10. UploadInv' /\ CopyInv' /\ ~Resending'
  BY <1>8 DEF UploadInv, CopyInv, Resending, Uploading, Posting
<1>11. /\ Layout(sg_log_buffer, Lo, Hi, sg_write_index, sizes)
       /\ Filled(sg_log_buffer, HDR, Lo, sizes)
  BY DEF LogInv, BufferInv, Layout
<1>12. /\ Layout(sg_log_buffer, HDR, Hi, sg_write_index, sizes)
       /\ \A n : ~Has(sg_log_buffer, HDR, HDR, n)
  <2>1. Filled(sg_log_buffer, HDR, HDR, sizes) /\ \A n : ~Has(sg_log_buffer, HDR, HDR, n)
    BY <1>6, FilledEmpty, HasEmpty
  <2>2. Apart(sg_log_buffer, HDR, HDR, sg_log_buffer, Hi, sg_write_index)
    BY <2>1, ApartHas
  <2> QED
    BY <1>6, <1>11, <2>1, <2>2 DEF Layout
<1>13. BufferInv'
  BY <1>5, <1>8, <1>9, <1>12 DEF BufferInv
<1>14. ASSUME NEW n \in Records
       PROVE  /\ Held(n) <=> Has(sg_log_buffer, HDR, Lo, n) \/ Has(sg_log_buffer, Hi, sg_write_index, n)
              /\ Held(n)' <=> Has(sg_log_buffer, Hi, sg_write_index, n)
              /\ n # 0 /\ posted[n] \in 0..2
  <2>1. n # 0 /\ posted[n] \in 0..2
    BY DEF SizesAssumption, LogInv, LogTypeOK, Records
  <2> QED
    BY <1>5, <1>9, <1>12, <2>1 DEF Held, HeldIn
<1>15. \A n \in Records : ~(Has(sg_log_buffer, HDR, Lo, n) /\ Has(sg_log_buffer, Hi, sg_write_index, n))
  BY <1>11, ApartHas DEF Layout
<1>16. ASSUME NEW q, q = <<>> \/ q = storage
       PROVE  /\ q \in Seq(CellSet) /\ Len(q) \in Nat /\ Filled(q, 1, Len(q) + 1, sizes)
              /\ \A n : Has(q, 1, Len(q) + 1, n) => Stored(n)
              /\ (q \o new) \in Seq(CellSet) /\ Len(q \o new) \in Nat
              /\ Filled(q \o new, 1, Len(q \o new) + 1, sizes)
              /\ \A n : Has(q \o new, 1, Len(q \o new) + 1, n)
                          <=> Has(q, 1, Len(q) + 1, n) \/ Has(sg_log_buffer, HDR, Lo, n)
  <2>1. q \in Seq(CellSet) /\ Len(q) \in Nat
    <3>1. <<>> \in Seq(CellSet)
      OBVIOUS
    <3>2. q \in Seq(CellSet)
      BY <1>7, <1>16, <3>1
    <3> QED
      BY <3>2
  <2>4. Filled(q, 1, Len(q) + 1, sizes) /\ \A n : Has(q, 1, Len(q) + 1, n) => Stored(n)
    <3>1. ASSUME q = <<>> PROVE Filled(q, 1, Len(q) + 1, sizes) /\ \A n : ~Has(q, 1, Len(q) + 1, n)
      <4>1. Len(q) + 1 = 1
        BY <3>1
      <4> QED
        BY <4>1, FilledEmpty, HasEmpty
    <3>2. ASSUME q = storage PROVE Filled(q, 1, Len(q) + 1, sizes) /\ \A n : Has(q, 1, Len(q) + 1, n) <=> Stored(n)
      BY <3>2 DEF LogInv, StorageInv, Stored
    <3> QED
      BY <1>16, <3>1, <3>2
  <2>5. Apart(sg_log_buffer, HDR, Lo, q, 1, Len(q) + 1)
    <3>1. \A n : Has(sg_log_buffer, HDR, Lo, n) => n \in Records /\ Held(n)
      BY <1>6, <1>7, <1>11, HasRecord DEF Records, Held, HeldIn
    <3>2. \A n \in Records : Stored(n) => ~Held(n)
      BY DEF LogInv, StorageInv
    <3> QED
      BY <2>4, <3>1, <3>2, ApartHas
  <2>6. PICK r : r = q \o Cells(sg_log_buffer, HDR, Lo)
    OBVIOUS
  <2>7. /\ r \in Seq(CellSet) /\ Filled(r, 1, Len(r) + 1, sizes)
        /\ \A n : Has(r, 1, Len(r) + 1, n) <=> Has(q, 1, Len(q) + 1, n) \/ Has(sg_log_buffer, HDR, Lo, n)
    <3>1. Saved(sg_log_buffer, q, HDR, Lo, r, sizes)
      BY <1>6, <1>7, <1>11, <2>1, <2>4, <2>5, <2>6, ConcatRecords
    <3> QED
      BY <3>1 DEF Saved
  <2>8. Len(r) \in Nat
    BY <2>7
  <2> QED
    BY <1>3, <2>1, <2>4, <2>6, <2>7, <2>8
<1>17. kept = <<>> \/ kept = storage
  BY <1>4
<1>18. /\ storage' \in Seq(CellSet) /\ Len(storage') \in Nat
       /\ Filled(storage', 1, Len(storage') + 1, sizes)
       /\ \A n : Stored(n)' => Stored(n) \/ Has(sg_log_buffer, HDR, Lo, n)
  BY <1>4, <1>16, <1>17 DEF Stored
<1>19. \A n \in Records : Stored(n)' <=> n \in Ids(storage')
  BY <1>14, <1>18, IdsIs DEF Stored
<1>20. \A n \in Records : Stored(n) \/ Has(sg_log_buffer, HDR, Lo, n) => n \in Ids(storage \o new)
  BY <1>14, <1>16, IdsIs DEF Stored
<1>21. Records' = Records
  BY <1>5 DEF Records
<1>22. LogTypeOK'
  BY <1>5, <1>8, <1>18 DEF LogInv, LogTypeOK
<1>23. StorageInv'
  BY <1>5, <1>14, <1>15, <1>18, <1>21 DEF LogInv, StorageInv
<1>24. FreshInv'
  <2>1. \A n : Fresh(n)' <=> Fresh(n)
    BY <1>5 DEF Fresh
  <2>2. \A n \in Records : (Held(n) \/ Stored(n)) => Fresh(n)
    BY <1>1 DEF LogInv, FreshInv
  <2> QED
    BY <1>5, <1>10, <1>14, <1>18, <1>21, <2>1, <2>2 DEF LogInv, FreshInv
<1>25. KeptInv'
  <2> SUFFICES ASSUME NEW n \in Records, posted[n] = 0, n \notin dropped', ~Stored(n)'
               PROVE  Held(n)'
    BY <1>5, <1>14, <1>21 DEF KeptInv
  <2>1. n \notin Ids(storage') /\ n \notin Ids(storage \o new) /\ n \notin dropped
    BY <1>4, <1>19
  <2>2. Stored(n) \/ Held(n)
    BY <2>1 DEF LogInv, KeptInv
  <2> QED
    BY <1>14, <1>20, <2>1, <2>2
<1>26. OnceInv' /\ WholeInv'
  BY <1>5, <1>21 DEF LogInv, OnceInv, WholeInv
<1> QED
  BY <1>10, <1>13, <1>22, <1>23, <1>24, <1>25, <1>26 DEF LogInv

-----------------------------------------------------------------------------
(* One more record.                                                          *)
LEMMA AppendKeeps ==
  ASSUME SizesAssumption, LogInv, NEW s \in Sizes, append_to_upload_buffer(s)
  PROVE  LogInv'
<1> DEFINE m == Len(sizes) + 1
<1>1. /\ m <= MaxLogs /\ sg_write_index + s + 1 <= BUF
      /\ sg_log_buffer' = [i \in DOMAIN sg_log_buffer |->
                             IF i \in sg_write_index..(sg_write_index + s - 1)
                             THEN <<m, sg_write_index + s - 1 - i>> ELSE sg_log_buffer[i]]
      /\ sg_write_index' = sg_write_index + s
      /\ sizes' = Append(sizes, s)
      /\ UNCHANGED <<storage, log_buf, up, posted, torn, dropped, twice>>
  BY DEF append_to_upload_buffer, ghosts, BUF
<1>2. /\ sizes \in Seq(Nat \ {0}) /\ sg_write_index \in Nat /\ storage \in Seq(CellSet)
      /\ sg_log_buffer \in [0..(BUF - 1) -> CellSet] /\ up \in UploadSet
      /\ Len(sizes) \in Nat /\ posted \in [1..MaxLogs -> 0..2] /\ Len(storage) + 1 \in Int
  BY DEF LogInv, LogTypeOK
<1>3. s \in Nat \ {0} /\ MaxLogs \in Nat
  BY DEF SizesAssumption
<1>4. /\ sizes' \in Seq(Nat \ {0}) /\ Len(sizes') = m /\ m \in Nat
      /\ Extended(sizes, sizes') /\ Records' = Records \cup {m} /\ m \notin Records
  <2>1. sizes' \in Seq(Nat \ {0}) /\ Len(sizes') = m /\ \A n \in 1..Len(sizes) : sizes'[n] = sizes[n]
    BY <1>1, <1>2, <1>3
  <2>2. DOMAIN sizes' = 1..m /\ DOMAIN sizes = 1..Len(sizes)
    BY <1>2, <2>1
  <2>3. Extended(sizes, sizes')
    BY <1>2, <2>1, <2>2 DEF Extended
  <2> QED
    BY <1>2, <2>1, <2>3 DEF Records
<1>5. /\ Lo \in Int /\ Hi \in Int /\ sg_write_index \in Int /\ BUF \in Int
      /\ HDR \in Int /\ 0 < HDR /\ HDR <= Lo /\ Lo <= Hi /\ Hi <= sg_write_index
      /\ sg_write_index < BUF
  BY BoundsAre
<1> HIDE DEF m
<1>6. /\ Layout(sg_log_buffer, Lo, Hi, sg_write_index, sizes)
      /\ sg_write_index + s < BUF
  BY <1>1, <1>2, <1>3, <1>5 DEF LogInv, BufferInv
<1>7. /\ sg_log_buffer' \in [0..(BUF - 1) -> CellSet]
      /\ Layout(sg_log_buffer', Lo, Hi, sg_write_index + s, sizes')
      /\ Cleared(sg_log_buffer, Lo, Hi) => Cleared(sg_log_buffer', Lo, Hi)
      /\ \A n : HeldIn(sg_log_buffer', Lo, Hi, sg_write_index + s, n)
                  <=> HeldIn(sg_log_buffer, Lo, Hi, sg_write_index, n) \/ n = m
  <2>1. Appended(sg_log_buffer, sg_log_buffer', sg_write_index, s, m)
    BY <1>1 DEF Appended
  <2>2. AppendedTo(sg_log_buffer, sg_log_buffer', Lo, Hi, sg_write_index, s, m, sizes)
    BY <1>2, <1>3, <1>5, <1>6, <2>1, LayoutAppend DEF m
  <2> QED
    BY <1>1, <2>2 DEF AppendedTo
<1>8. /\ Layout(sg_log_buffer', Lo', Hi', sg_write_index', sizes')
      /\ up'.pc # "final" => Cleared(sg_log_buffer', Lo', Hi')
      /\ \A n : HeldIn(sg_log_buffer', Lo', Hi', sg_write_index', n)
                  <=> HeldIn(sg_log_buffer, Lo, Hi, sg_write_index, n) \/ n = m
  <2>1. CASE up.pc \in {"idle", "saved", "check", "snapshot", "delete"} \/ Resending
    <3>1. Lo = sg_write_index /\ Hi = sg_write_index
      BY <2>1, AtRest
    <3>2. Lo' = sg_write_index' /\ Hi' = sg_write_index'
      BY <1>1, <2>1, AtRestNext DEF Resending, Posting
    <3>3. sg_write_index' \in Int /\ sg_write_index' = sg_write_index + s
      BY <1>1, <1>2, <1>3
    <3>4. /\ Layout(sg_log_buffer', sg_write_index, sg_write_index, sg_write_index', sizes')
          /\ \A n : HeldIn(sg_log_buffer', sg_write_index, sg_write_index, sg_write_index', n)
                      <=> HeldIn(sg_log_buffer, Lo, Hi, sg_write_index, n) \/ n = m
      BY <1>7, <3>1, <3>3
    <3>5. /\ Layout(sg_log_buffer', sg_write_index', sg_write_index', sg_write_index', sizes')
          /\ Cleared(sg_log_buffer', sg_write_index', sg_write_index')
          /\ \A n : HeldIn(sg_log_buffer', sg_write_index', sg_write_index', sg_write_index', n)
                      <=> HeldIn(sg_log_buffer', sg_write_index, sg_write_index, sg_write_index', n)
      BY <1>4, <1>5, <3>3, <3>4, LayoutJoin
    <3> QED
      BY <3>2, <3>4, <3>5
  <2>2. CASE Uploading \/ up.pc \in {"adjust", "save", "final"}
    <3>1. Lo' = Lo /\ Hi' = Hi
      BY <1>1, <2>2 DEF Lo, Hi, Uploading, Posting
    <3>2. up.pc # "final" => Cleared(sg_log_buffer, Lo, Hi)
      BY DEF LogInv, BufferInv
    <3> QED
      BY <1>1, <1>7, <3>1, <3>2
  <2>3. /\ up.pc \in {"idle", "saved", "check", "snapshot", "delete"} \/ Resending
           \/ Uploading \/ up.pc \in {"adjust", "save", "final"}
    BY <1>2 DEF UploadSet, Resending, Uploading, Posting
  <2> QED
    BY <2>1, <2>2, <2>3
<1>9. BufferInv'
  BY <1>8 DEF BufferInv
<1>10. /\ \A n : Held(n)' <=> Held(n) \/ n = m
       /\ \A n : (Stored(n)' <=> Stored(n)) /\ (Fresh(n)' <=> Fresh(n)) /\ (InCopy(n)' <=> InCopy(n))
  BY <1>1, <1>8 DEF Held, Stored, Fresh, InCopy
<1>11. LogTypeOK'
  <2>1. sg_write_index' \in Nat
    BY <1>1, <1>2, <1>3
  <2> QED
    BY <1>1, <1>4, <1>7, <2>1 DEF LogInv, LogTypeOK
<1>12. posted[m] = 0 /\ Fresh(m)
  BY <1>1, <1>2, <1>3, <1>4 DEF LogInv, FreshInv, Fresh, m
<1>13. Filled(storage, 1, Len(storage) + 1, sizes) /\ ~Stored(m)
  <2>1. Filled(storage, 1, Len(storage) + 1, sizes)
    BY DEF LogInv, StorageInv
  <2>2. \A n : Stored(n) => n \in 1..Len(sizes)
    BY <1>2, <2>1, HasRecord DEF Stored
  <2> QED
    BY <1>4, <2>1, <2>2 DEF Records
<1>14. StorageInv'
  <2>1. Filled(storage, 1, Len(storage) + 1, sizes')
    BY <1>2, <1>4, <1>13, SameRecords
  <2> QED
    BY <1>1, <1>4, <1>10, <1>13, <2>1 DEF LogInv, StorageInv
<1>15. UploadInv'
  <2>1. ASSUME up.pc = "send", up.upload_size # up.post_size PROVE PostBuf'[up.upload_size - 1] = PostBuf[up.upload_size - 1]
    <3>1. CASE up.saved
      BY <1>1, <3>1 DEF PostBuf
    <3>2. CASE ~up.saved
      <4>1. Lo = up.post_size
        BY <2>1, <3>2 DEF Lo, Uploading, Posting
      <4>2. HDR <= up.upload_size /\ up.upload_size <= up.post_size /\ up.upload_size \in Nat
        BY <1>2, <2>1 DEF LogInv, UploadInv, UploadSet
      <4>3. up.upload_size - 1 \in 0..(BUF - 1) /\ up.upload_size - 1 < sg_write_index
        BY <1>5, <4>1, <4>2
      <4>4. sg_log_buffer'[up.upload_size - 1] = sg_log_buffer[up.upload_size - 1]
        BY <1>1, <1>2, <4>3
      <4> QED
        BY <1>1, <3>2, <4>4 DEF PostBuf
    <3> QED
      BY <3>1, <3>2
  <2> QED
    BY <1>1, <2>1 DEF LogInv, UploadInv, Uploading, Posting
<1>16. CopyInv'
  <2>1. ASSUME Resending PROVE Filled(log_buf, HDR, up.post_size, sizes') /\ ~InCopy(m)
    <3>1. Filled(log_buf, HDR, up.post_size, sizes) /\ up.post_size \in Int
      BY <1>2, <2>1 DEF LogInv, CopyInv, UploadSet
    <3>2. \A n : InCopy(n) => n \in 1..Len(sizes)
      BY <1>2, <1>5, <3>1, HasRecord DEF InCopy
    <3>3. Filled(log_buf, HDR, up.post_size, sizes')
      BY <1>4, <1>5, <3>1, SameRecords
    <3> QED
      BY <1>4, <3>2, <3>3 DEF Records
  <2> QED
    BY <1>1, <1>4, <1>10, <2>1 DEF LogInv, CopyInv, Resending, Posting
<1>17. FreshInv'
  <2>1. \A n \in Records' : n = m \/ n \in Records
    BY <1>4
  <2>2. \A n \in DOMAIN posted : n > m => posted[n] = 0
    BY <1>2 DEF LogInv, FreshInv, m
  <2>3. /\ \A n \in Records' :
            /\ Held(n)' => Fresh(n)'
            /\ Stored(n)' => Fresh(n)' \/ (up.saved /\ up.pc \in {"post", "send", "delete"})
            /\ Resending /\ InCopy(n)' => Fresh(n)'
    BY <1>10, <1>12, <2>1 DEF LogInv, FreshInv
  <2> QED
    BY <1>1, <1>4, <2>2, <2>3 DEF FreshInv, Resending, Posting
<1>18. KeptInv'
  BY <1>1, <1>4, <1>10 DEF LogInv, KeptInv
<1>19. OnceInv' /\ WholeInv'
  <2>1. ~(posted[m] > 1)
    BY <1>12
  <2> QED
    BY <1>1, <1>4, <2>1 DEF LogInv, OnceInv, WholeInv
<1> QED
  BY <1>9, <1>11, <1>14, <1>15, <1>16, <1>17, <1>18, <1>19 DEF LogInv

-----------------------------------------------------------------------------
(* Posting.                                                                  *)

(* The fragment that is posted holds record n.                               *)
Posted(n) == Has(PostBuf, HDR, up.upload_size, n)

(* The records of the fragment are whole, and its cut parts them from the    *)
(* records behind.                                                           *)
LEMMA FragmentHolds ==
  ASSUME SizesAssumption, LogInv, up.pc = "send"
  PROVE  /\ up.upload_size \in Int /\ HDR <= up.upload_size
         /\ Filled(PostBuf, HDR, up.upload_size, sizes)
         /\ \A n : Posted(n) => n \in Records /\ Fresh(n)
         /\ \A n : Posted(n) /\ up.saved => InCopy(n) /\ Stored(n) /\ ~Held(n)
         /\ \A n : Posted(n) /\ ~up.saved => Has(sg_log_buffer, HDR, Lo, n)
                                           /\ ~Has(sg_log_buffer, Hi, sg_write_index, n)
         /\ \A n : Posted(n) => ~Has(PostBuf, up.upload_size, up.post_size, n)
         /\ up.saved => \A n : InCopy(n) <=> Posted(n) \/ Has(log_buf, up.upload_size, up.post_size, n)
         /\ ~up.saved => \A n : Has(sg_log_buffer, HDR, Lo, n)
                                  <=> Posted(n) \/ Has(sg_log_buffer, up.upload_size, Lo, n)
<1>1. PICK u \in Int, p \in Int : u = up.upload_size /\ p = up.post_size
  BY DEF LogInv, LogTypeOK, UploadSet
<1>2. HDR <= u /\ u <= p /\ (u = p \/ PostBuf[u - 1][2] = 0)
  BY <1>1 DEF LogInv, UploadInv
<1>3. HDR \in Int /\ sizes \in Seq(Nat \ {0}) /\ Lo \in Int /\ Hi \in Int /\ sg_write_index \in Int
  BY BoundsAre DEF LogInv, LogTypeOK
<1>4. up.saved => Resending /\ PostBuf = log_buf
  BY DEF Resending, Posting, PostBuf
<1>5. ~up.saved => Uploading /\ PostBuf = sg_log_buffer /\ Lo = p
  BY <1>1 DEF Uploading, Posting, PostBuf, Lo
<1>6. Filled(PostBuf, HDR, p, sizes)
  <2>1. up.saved => Filled(log_buf, HDR, p, sizes)
    BY <1>1, <1>4 DEF LogInv, CopyInv
  <2>2. ~up.saved => Filled(sg_log_buffer, HDR, p, sizes)
    BY <1>5 DEF LogInv, BufferInv, Layout
  <2> QED
    BY <1>4, <1>5, <2>1, <2>2
<1>7. Filled(PostBuf, HDR, u, sizes) /\ Apart(PostBuf, HDR, u, PostBuf, u, p)
  BY <1>2, <1>3, <1>6, FilledCut
<1>8. \A n : Has(PostBuf, HDR, p, n) <=> Has(PostBuf, HDR, u, n) \/ Has(PostBuf, u, p, n)
  BY <1>2, <1>3, HasSplit
<1>9. \A n : Posted(n) => n \in Records
  BY <1>1, <1>3, <1>7, HasRecord DEF Posted, Records
<1>10. \A n : Posted(n) => ~Has(PostBuf, u, p, n)
  BY <1>1, <1>7, ApartHas DEF Posted
<1>11. \A n : Posted(n) /\ up.saved => InCopy(n) /\ Stored(n) /\ ~Held(n) /\ Fresh(n)
  <2> SUFFICES ASSUME NEW n, Posted(n), up.saved PROVE InCopy(n) /\ Stored(n) /\ ~Held(n) /\ Fresh(n)
    OBVIOUS
  <2>1. InCopy(n)
    BY <1>1, <1>4, <1>8 DEF Posted, InCopy
  <2> QED
    BY <1>4, <1>9, <2>1 DEF LogInv, CopyInv, StorageInv, FreshInv
<1>12. \A n : Posted(n) /\ ~up.saved => /\ Has(sg_log_buffer, HDR, Lo, n) /\ Fresh(n)
                                        /\ ~Has(sg_log_buffer, Hi, sg_write_index, n)
  <2> SUFFICES ASSUME NEW n, Posted(n), ~up.saved
               PROVE  /\ Has(sg_log_buffer, HDR, Lo, n) /\ Fresh(n)
                      /\ ~Has(sg_log_buffer, Hi, sg_write_index, n)
    OBVIOUS
  <2>1. Has(sg_log_buffer, HDR, Lo, n)
    BY <1>1, <1>5, <1>8 DEF Posted
  <2>2. Fresh(n)
    BY <1>9, <2>1 DEF LogInv, FreshInv, Held, HeldIn
  <2>3. ~Has(sg_log_buffer, Hi, sg_write_index, n)
    BY <2>1, ApartHas DEF LogInv, BufferInv, Layout
  <2> QED
    BY <2>1, <2>2, <2>3
<1>13. up.saved => \A n : InCopy(n) <=> Posted(n) \/ Has(log_buf, u, p, n)
  BY <1>1, <1>4, <1>8 DEF Posted, InCopy
<1>14. ~up.saved => \A n : Has(sg_log_buffer, HDR, Lo, n) <=> Posted(n) \/ Has(sg_log_buffer, u, Lo, n)
  BY <1>1, <1>5, <1>8 DEF Posted
<1> QED
  BY <1>1, <1>2, <1>7, <1>9, <1>10, <1>11, <1>12, <1>13, <1>14

(* What the server's reception of the fragment changes.                      *)
LEMMA ReceiveIs ==
  ASSUME SizesAssumption, LogInv, up.pc = "send", Receive, twice \subseteq twice'
  PROVE  /\ posted' \in [1..MaxLogs -> 0..2] /\ ~torn'
         /\ \A n \in DOMAIN posted : n > Len(sizes) => posted'[n] = 0
         /\ \A n \in Records : Posted(n) => posted'[n] > 0 /\ (posted'[n] > 1 => n \in twice)
         /\ \A n \in Records : ~Posted(n) => posted'[n] = posted[n]
         /\ \A n \in Records : n \in Ids(Cells(PostBuf, HDR, up.upload_size)) <=> Posted(n)
<1>1. PICK q : q = Cells(PostBuf, HDR, up.upload_size)
  OBVIOUS
<1>2. /\ posted' = [n \in DOMAIN posted |->
                      IF n \in Ids(q) THEN Min({2, posted[n] + 1}) ELSE posted[n]]
      /\ torn' = (torn \/ ~Whole(q))
  BY <1>1 DEF Receive
<1>3. /\ posted \in [1..MaxLogs -> 0..2] /\ sizes \in Seq(Nat \ {0}) /\ MaxLogs \in Nat
      /\ Records \subseteq 1..MaxLogs /\ Len(sizes) \in Nat /\ HDR \in Int
  BY BoundsAre DEF SizesAssumption, LogInv, LogTypeOK, Records
<1>4. Whole(q)
  BY <1>1, <1>3, FragmentHolds, FilledWhole
<1>5. \A n : n \in Ids(q) <=> n # 0 /\ Posted(n)
  BY <1>1, <1>3, FragmentHolds, IdsOfCells DEF Posted
<1>6. \A n : Posted(n) => n \in Records /\ n # 0
  BY FragmentHolds DEF Records
<1>7. ASSUME NEW n \in 1..MaxLogs
      PROVE  /\ posted'[n] \in 0..2
             /\ n \in Ids(q) => posted'[n] > 0 /\ (posted'[n] > 1 <=> posted[n] > 0)
             /\ n \notin Ids(q) => posted'[n] = posted[n]
  <2>1. posted[n] \in 0..2
    BY <1>3
  <2>2. posted'[n] = IF n \in Ids(q) THEN Min({2, posted[n] + 1}) ELSE posted[n]
    BY <1>2, <1>3
  <2> QED
    BY <2>1, <2>2, CountIs
<1>8. posted' \in [1..MaxLogs -> 0..2]
  <2>1. posted' = [n \in 1..MaxLogs |-> posted'[n]]
    BY <1>2, <1>3
  <2> QED
    BY <1>7, <2>1
<1>9. ~torn'
  BY <1>2, <1>4 DEF LogInv, WholeInv
<1>10. \A n \in DOMAIN posted : n > Len(sizes) => posted'[n] = 0
  <2> SUFFICES ASSUME NEW n \in 1..MaxLogs, n > Len(sizes) PROVE posted'[n] = 0
    BY <1>3
  <2>1. n \notin Ids(q) /\ posted[n] = 0
    BY <1>3, <1>5, <1>6 DEF LogInv, FreshInv, Records
  <2> QED
    BY <1>7, <2>1
<1>11. ASSUME NEW n \in Records, Posted(n) PROVE posted'[n] > 0 /\ (posted'[n] > 1 => n \in twice)
  <2>1. n \in 1..MaxLogs /\ n \in Ids(q) /\ Fresh(n)
    BY <1>3, <1>5, <1>6, <1>11, FragmentHolds
  <2>2. posted[n] \in 0..2
    BY <1>3, <2>1
  <2> QED
    BY <1>7, <2>1, <2>2 DEF Fresh
<1>12. \A n \in Records : ~Posted(n) => posted'[n] = posted[n]
  BY <1>3, <1>5, <1>7
<1> QED
  BY <1>1, <1>5, <1>6, <1>8, <1>9, <1>10, <1>11, <1>12

(* Of the layout the first run of records may be forgotten.                  *)
LEMMA LayoutDrop ==
  ASSUME SizesAssumption, NEW f, NEW z, NEW lo \in Int, NEW hi \in Int, NEW w \in Int,
         Layout(f, lo, hi, w, z)
  PROVE  /\ Layout(f, HDR, hi, w, z)
         /\ \A n : HeldIn(f, HDR, hi, w, n) <=> Has(f, hi, w, n)
<1>1. HDR \in Int /\ HDR <= lo /\ lo <= hi /\ HDR <= hi
  BY DEF SizesAssumption, Layout
<1>2. Filled(f, HDR, HDR, z) /\ \A n : ~Has(f, HDR, HDR, n)
  BY <1>1, FilledEmpty, HasEmpty
<1>3. Apart(f, HDR, HDR, f, hi, w)
  BY <1>2, ApartHas
<1> QED
  BY <1>1, <1>2, <1>3 DEF Layout, HeldIn

(* The return of _post_log_to_server: got are the records that the server    *)
(* received by the last POST.                                                *)
LEMMA ReturnKeeps ==
  ASSUME SizesAssumption, LogInv, up.pc \in {"post", "send"},
         NEW rc \in {"success", "failure", "inval"}, NEW again, NEW got, AfterPost(rc, again),
         UNCHANGED <<sg_write_index, storage, sizes>>,
         posted' \in [1..MaxLogs -> 0..2], ~torn',
         \A n \in DOMAIN posted : n > Len(sizes) => posted'[n] = 0,
         \A n \in Records : n \in got => posted'[n] > 0 /\ (posted'[n] > 1 => n \in twice'),
         \A n \in Records : n \notin got => posted'[n] = posted[n],
         \A n \in Records : n \in got => Posted(n) /\ up.pc = "send",
         sg_log_buffer' \in [0..(BUF - 1) -> CellSet],
         rc # "success" => sg_log_buffer' = sg_log_buffer /\ \A n \in Records : n \in got => n \in again,
         Layout(sg_log_buffer', HDR, Hi, sg_write_index, sizes),
         \A n : HeldIn(sg_log_buffer', HDR, Hi, sg_write_index, n)
                  <=> Has(sg_log_buffer, Hi, sg_write_index, n),
         up.saved => sg_log_buffer' = sg_log_buffer,
         ~up.saved /\ rc = "success" =>
           \A n \in Records : Has(sg_log_buffer, HDR, Lo, n) => n \in got
  PROVE  LogInv'
<1> DEFINE rest == Ids(Cells(sg_log_buffer, HDR, up.upload_log_size))
           next == CASE up.saved -> "delete"
                     [] ~up.saved /\ rc # "success" /\ log_save_enabled -> "adjust"
                     [] OTHER -> "final"
<1>1. /\ up' = [up EXCEPT !.pc = next, !.rc = rc]
      /\ twice' = twice \cup again
      /\ dropped' = IF next = "final" /\ rc # "success"
                    THEN dropped \cup {n \in rest : posted'[n] = 0} ELSE dropped
  BY DEF AfterPost
<1>2. \/ next = "delete" /\ up.saved
      \/ next = "adjust" /\ ~up.saved /\ rc # "success"
      \/ next = "final" /\ ~up.saved
  OBVIOUS
<1> HIDE DEF next
<1>3. /\ up \in UploadSet /\ sizes \in Seq(Nat \ {0}) /\ Len(sizes) \in Nat
      /\ \A n \in Records : n # 0 /\ n \in 1..MaxLogs /\ posted[n] \in 0..2
      /\ posted \in [1..MaxLogs -> 0..2] /\ sg_write_index \in Nat
  BY DEF SizesAssumption, LogInv, LogTypeOK, Records
<1>4. /\ up' \in UploadSet /\ up'.pc = next /\ up'.saved = up.saved
      /\ up'.upload_log_size = up.upload_log_size
      /\ up'.actual_post_payload = up.actual_post_payload
  BY <1>1, <1>2, <1>3 DEF UploadSet
<1>5. /\ HDR \in Int /\ Lo \in Int /\ Hi \in Int /\ HDR <= Lo /\ Lo <= Hi
      /\ Hi <= sg_write_index /\ sg_write_index \in Int
  BY BoundsAre
<1>6. up.saved => /\ Resending /\ Lo = sg_write_index /\ Hi = sg_write_index
  BY AtRest DEF Resending, Posting
<1>7. ~up.saved => /\ Uploading /\ Lo = up.post_size /\ Hi = up.upload_log_size
  BY DEF Lo, Hi, Uploading, Posting
<1>8. ~up.saved => up.post_size + up.actual_post_payload = up.upload_log_size
  BY <1>7 DEF LogInv, UploadInv
<1>9. LogTypeOK'
  BY <1>4 DEF LogInv, LogTypeOK
<1>10. UploadInv' /\ CopyInv' /\ ~Resending' /\ (up'.saved => up'.pc = "delete")
  BY <1>2, <1>4 DEF UploadInv, CopyInv, Resending, Uploading, Posting
<1>11. Records' = Records /\ \A n : Stored(n)' <=> Stored(n)
  BY DEF Records, Stored
<1>12. \A n \in Records : n \in got => posted'[n] > 0 /\ Posted(n) /\ up.pc = "send"
  OBVIOUS
<1>13. ASSUME NEW n \in Records, Held(n), up.saved PROVE n \notin got
  BY <1>12, <1>13, FragmentHolds
<1>14. \A n \in Records : Fresh(n) /\ n \notin got => Fresh(n)'
  BY <1>1 DEF Fresh
<1>15. \A n \in Records : n \in got /\ rc # "success" => Fresh(n)'
  BY <1>1 DEF Fresh
<1>16. OnceInv'
  <2>1. \A n \in Records : n \notin got /\ posted'[n] > 1 => n \in twice'
    BY <1>1 DEF LogInv, OnceInv
  <2> QED
    BY <1>11, <2>1 DEF OnceInv
<1>17. WholeInv'
  BY DEF WholeInv
<1>18. \A n \in Records : posted[n] > 0 => posted'[n] > 0
  BY <1>12
<1>19. dropped \subseteq dropped'
  BY <1>1
<1>20. CASE next \in {"delete", "adjust"}
  <2>1. sg_log_buffer' = sg_log_buffer
    BY <1>2, <1>20
  <2>2. Lo' = Lo /\ Hi' = Hi
    <3>1. CASE up.saved
      BY <1>2, <1>4, <1>6, <1>20, <3>1, AtRestNext
    <3>2. CASE ~up.saved
      <4>1. up'.pc = "adjust" /\ ~up'.saved
        BY <1>2, <1>4, <1>20, <3>2
      <4>2. Lo' = up.upload_log_size - up.actual_post_payload /\ Hi' = up.upload_log_size
        BY <1>4, <4>1 DEF Lo, Hi, Uploading, Posting
      <4>3. /\ up.post_size \in Nat /\ up.actual_post_payload \in Nat /\ up.upload_log_size \in Nat
        BY <1>3 DEF UploadSet
      <4> QED
        BY <1>7, <1>8, <3>2, <4>2, <4>3
    <3> QED
      BY <3>1, <3>2
  <2>3. BufferInv'
    <3>1. up.pc # "final"
      OBVIOUS
    <3> QED
      BY <2>1, <2>2, <3>1 DEF LogInv, BufferInv
  <2>4. \A n : Held(n)' <=> Held(n)
    BY <2>1, <2>2 DEF Held
  <2>5. StorageInv'
    BY <1>11, <2>4 DEF LogInv, StorageInv
  <2>6. FreshInv'
    <3>1. ASSUME NEW n \in Records, Held(n) PROVE Fresh(n)'
      <4>1. Fresh(n)
        BY <3>1 DEF LogInv, FreshInv
      <4> QED
        BY <1>2, <1>13, <1>14, <1>15, <1>20, <3>1, <4>1
    <3>2. ASSUME NEW n \in Records, Stored(n), ~up.saved PROVE Fresh(n)'
      <4>1. Fresh(n) /\ rc # "success"
        BY <1>2, <1>20, <3>2 DEF LogInv, FreshInv
      <4> QED
        BY <1>14, <1>15, <4>1
    <3>3. up.saved => up'.saved /\ up'.pc = "delete"
      BY <1>2, <1>4, <1>20
    <3>4. \A n \in DOMAIN posted' : n > Len(sizes') => posted'[n] = 0
      BY <1>3
    <3> QED
      BY <1>10, <1>11, <2>4, <3>1, <3>2, <3>3, <3>4 DEF FreshInv
  <2>7. KeptInv'
    BY <1>11, <1>18, <1>19, <2>4 DEF LogInv, KeptInv
  <2> QED
    BY <1>9, <1>10, <1>16, <1>17, <2>3, <2>5, <2>6, <2>7 DEF LogInv
<1>21. CASE next = "final"
  <2>1. ~up.saved /\ ~up'.saved
    BY <1>2, <1>4, <1>21
  <2>2. Lo' = HDR /\ Hi' = Hi
    BY <1>4, <1>7, <1>21, <2>1 DEF Lo, Hi, Uploading, Posting
  <2>3. BufferInv'
    BY <1>4, <1>21, <2>2 DEF BufferInv
  <2>4. \A n : Held(n)' <=> Has(sg_log_buffer, Hi, sg_write_index, n)
    BY <2>2 DEF Held
  <2>5. \A n : Held(n)' => Held(n)
    BY <2>4 DEF Held, HeldIn
  <2>6. StorageInv'
    BY <1>11, <2>5 DEF LogInv, StorageInv
  <2>7. ASSUME NEW n \in Records, Held(n)' \/ Stored(n) PROVE n \notin got /\ Fresh(n)
    <3>1. Fresh(n)
      BY <2>1, <2>5, <2>7 DEF LogInv, FreshInv
    <3>2. ASSUME n \in got PROVE FALSE
      <4>1. Posted(n) /\ up.pc = "send"
        BY <1>12, <3>2
      <4>2. /\ Has(sg_log_buffer, HDR, Lo, n) /\ ~Has(sg_log_buffer, Hi, sg_write_index, n)
        BY <2>1, <4>1, FragmentHolds
      <4>3. Held(n)
        BY <4>2 DEF Held, HeldIn
      <4> QED
        BY <2>4, <2>7, <4>2, <4>3 DEF LogInv, StorageInv
    <3> QED
      BY <3>1, <3>2
  <2>8. FreshInv'
    <3>1. \A n \in DOMAIN posted' : n > Len(sizes') => posted'[n] = 0
      BY <1>3
    <3> QED
      BY <1>10, <1>11, <1>14, <2>7, <3>1 DEF FreshInv
  <2>9. KeptInv'
    <3> SUFFICES ASSUME NEW n \in Records, ~(posted'[n] > 0), n \notin dropped', ~Stored(n)
                 PROVE  Held(n)'
      BY <1>11 DEF KeptInv
    <3>1. n \notin got /\ posted'[n] = 0
      <4>1. n \notin got
        BY <1>12
      <4>2. posted'[n] \in 0..2
        BY <1>3
      <4> QED
        BY <4>1, <4>2
    <3>2. Held(n)
      BY <1>18, <1>19 DEF LogInv, KeptInv
    <3>3. ASSUME Has(sg_log_buffer, HDR, Lo, n) PROVE FALSE
      <4>1. CASE rc = "success"
        BY <2>1, <3>1, <3>3, <4>1
      <4>2. CASE rc # "success"
        <5>1. up.upload_log_size \in Int /\ HDR <= up.upload_log_size /\ Lo <= up.upload_log_size
          BY <1>5, <1>7, <2>1
        <5>2. Has(sg_log_buffer, HDR, up.upload_log_size, n)
          BY <1>5, <3>3, <5>1, HasSplit
        <5>3. n \in rest
          BY <1>3, <1>5, <5>1, <5>2, IdsOfCells
        <5> QED
          BY <1>1, <1>21, <3>1, <4>2, <5>3
      <4> QED
        BY <4>1, <4>2
    <3> QED
      BY <2>4, <3>2, <3>3 DEF Held, HeldIn
  <2> QED
    BY <1>9, <1>10, <1>16, <1>17, <2>3, <2>6, <2>8, <2>9 DEF LogInv
<1> QED
  BY <1>2, <1>20, <1>21

(* The next fragment is chosen, or there is none.                            *)
LEMMA LocateKeeps ==
  ASSUME SizesAssumption, LogInv, Locate
  PROVE  LogInv'
<1>1. PICK size : size = IF up.fragments THEN FragmentSize(PostBuf) ELSE up.post_size
  OBVIOUS
<1>2. /\ up.pc = "post"
      /\ IF size > 0
         THEN /\ up' = [up EXCEPT !.pc = "send", !.upload_size = size]
              /\ UNCHANGED ghosts
         ELSE /\ UNCHANGED <<posted, torn>>
              /\ AfterPost(IF size = 0 THEN "failure" ELSE "inval", {})
  BY <1>1 DEF Locate
<1>3. UNCHANGED <<sg_log_buffer, sg_write_index, log_buf, storage, sizes>>
  BY DEF Locate, buffers
<1>4. /\ sizes \in Seq(Nat \ {0}) /\ up \in UploadSet /\ sg_write_index \in Nat
      /\ sg_log_buffer \in [0..(BUF - 1) -> CellSet] /\ posted \in [1..MaxLogs -> 0..2]
  BY DEF LogInv, LogTypeOK
<1>5. /\ HDR \in Int /\ HDR > 0 /\ BUF - 1 \in Int /\ BUF \in Int /\ Lo \in Int /\ Hi \in Int
      /\ HDR <= Lo /\ Lo <= Hi /\ Hi <= sg_write_index /\ sg_write_index < BUF
      /\ sg_write_index \in Int
  BY BoundsAre
<1>6. PICK p \in Nat, o \in Nat : p = up.post_size /\ o = up.orig_post_size
  BY <1>4 DEF UploadSet
<1>7. CASE size > 0
  <2>1. /\ up' = [up EXCEPT !.pc = "send", !.upload_size = size]
        /\ UNCHANGED <<posted, torn, dropped, twice>>
    BY <1>2, <1>7 DEF ghosts
  <2>2. /\ up.saved => /\ log_buf \in [0..o -> CellSet] /\ Headed(log_buf) /\ HDR <= p /\ p <= o
                       /\ log_buf[p] = Zero
    <3>1. ASSUME up.saved
          PROVE  /\ log_buf \in [0..o -> CellSet] /\ Headed(log_buf) /\ HDR <= p /\ p <= o
                 /\ Cleared(log_buf, p, o + 1)
      BY <1>2, <1>6, <3>1 DEF LogInv, CopyInv, Resending, Posting
    <3>2. ASSUME up.saved PROVE log_buf[p] = Zero
      <4>1. p \in p..(o + 1 - 1)
        BY <3>1, <3>2
      <4> QED
        BY <3>1, <3>2, <4>1 DEF Cleared
    <3> QED
      BY <3>1, <3>2
  <2>3. ~up.saved => p = Lo /\ Uploading
    BY <1>2, <1>6 DEF Lo, Uploading, Posting
  <2>4. HDR <= p
    BY <1>5, <2>2, <2>3
  <2>5. up.fragments =>
          /\ size \in Int /\ HDR < size /\ size <= p /\ PostBuf[size - 1][2] = 0
    <3> SUFFICES ASSUME up.fragments
                 PROVE  /\ size \in Int /\ HDR < size /\ size <= p /\ PostBuf[size - 1][2] = 0
      OBVIOUS
    <3>0. size = FragmentSize(PostBuf)
      BY <1>1
    <3>1. CASE up.saved
      <4>1. PostBuf = log_buf /\ o \in Int /\ p \in Int
        BY <3>1 DEF PostBuf
      <4> QED
        BY <1>7, <2>2, <3>0, <3>1, <4>1, FragmentIs
    <3>2. CASE ~up.saved
      <4>1. PostBuf = sg_log_buffer /\ Headed(sg_log_buffer)
        BY <3>2 DEF PostBuf, LogInv, BufferInv, Layout
      <4>2. sg_log_buffer[p] = Zero \/ MAX_HTTP_LOG_POST_SIZE <= p
        <5>1. /\ o = up.upload_log_size /\ p + up.actual_post_payload = o
              /\ up.actual_post_payload = 0 => MAX_HTTP_LOG_POST_SIZE <= p
          BY <1>6, <2>3, <3>2 DEF LogInv, UploadInv
        <5>2. Hi = o
          BY <2>3, <3>2, <5>1 DEF Hi
        <5>3. up.actual_post_payload \in Nat
          BY <1>4 DEF UploadSet
        <5>4. CASE up.actual_post_payload = 0
          BY <5>1, <5>4
        <5>5. CASE up.actual_post_payload # 0
          <6>1. p \in Lo..(Hi - 1)
            BY <2>3, <3>2, <5>1, <5>2, <5>3, <5>5
          <6>2. Cleared(sg_log_buffer, Lo, Hi)
            BY <1>2 DEF LogInv, BufferInv
          <6> QED
            BY <6>1, <6>2 DEF Cleared
        <5> QED
          BY <5>4, <5>5
      <4>3. p <= BUF - 1 /\ p \in Int
        BY <1>5, <2>3, <3>2
      <4>4. PICK N \in Int : N = BUF - 1
        BY <1>5
      <4>5. sg_log_buffer \in [0..N -> CellSet] /\ p <= N
        BY <1>4, <4>3, <4>4
      <4> QED
        BY <1>7, <2>4, <3>0, <4>1, <4>2, <4>3, <4>5, FragmentIs
    <3> QED
      BY <3>1, <3>2
  <2>6. ~up.fragments => size = p
    BY <1>1, <1>6
  <2>7. size \in Nat /\ HDR <= size /\ size <= p
    <3>1. CASE up.fragments
      BY <1>5, <2>5, <3>1
    <3>2. CASE ~up.fragments
      BY <2>4, <2>6, <3>2
    <3> QED
      BY <3>1, <3>2
  <2>8. /\ up' \in UploadSet /\ up'.pc = "send" /\ up'.upload_size = size
        /\ up'.saved = up.saved /\ up'.fragments = up.fragments /\ up'.post_size = p
        /\ up'.orig_post_size = o /\ up'.actual_post_payload = up.actual_post_payload
        /\ up'.upload_log_size = up.upload_log_size
    BY <1>4, <1>6, <2>1, <2>7 DEF UploadSet
  <2>9. Lo' = Lo /\ Hi' = Hi
    BY <1>2, <1>3, <1>6, <2>8 DEF Lo, Hi, Uploading, Posting
  <2>10. PostBuf' = PostBuf
    BY <1>3, <2>8 DEF PostBuf
  <2>11. UploadInv'
    BY <1>2, <1>6, <2>5, <2>6, <2>7, <2>8, <2>10 DEF LogInv, UploadInv, Uploading, Posting
  <2>12. /\ Resending' <=> Resending
         /\ \A n : (InCopy(n)' <=> InCopy(n)) /\ (Stored(n)' <=> Stored(n))
    BY <1>2, <1>3, <1>6, <2>8 DEF Resending, Posting, InCopy, Stored
  <2>13. CopyInv'
    BY <1>3, <1>6, <2>8, <2>12 DEF LogInv, CopyInv, Records
  <2>14. \A n \in Records : Resending' /\ InCopy(n)' => Fresh(n)
    BY <2>12 DEF LogInv, FreshInv
  <2> QED
    BY <1>2, <1>3, <2>1, <2>8, <2>9, <2>11, <2>13, <2>14, Quiet
<1>8. CASE ~(size > 0)
  <2>1. PICK rc \in {"failure", "inval"} : AfterPost(rc, {}) /\ UNCHANGED <<posted, torn>>
    BY <1>2, <1>8
  <2>2. PICK got : got = {}
    OBVIOUS
  <2>3. /\ Layout(sg_log_buffer, HDR, Hi, sg_write_index, sizes)
        /\ \A n : HeldIn(sg_log_buffer, HDR, Hi, sg_write_index, n)
                    <=> Has(sg_log_buffer, Hi, sg_write_index, n)
    BY <1>5, LayoutDrop DEF LogInv, BufferInv
  <2>4. ~torn' /\ posted' \in [1..MaxLogs -> 0..2]
        /\ (\A n \in DOMAIN posted : n > Len(sizes) => posted'[n] = 0)
        /\ (\A n \in Records : n \notin got => posted'[n] = posted[n])
        /\ (\A n \in Records : n \notin got)
    BY <1>4, <2>1, <2>2 DEF LogInv, FreshInv, WholeInv
  <2>5. rc \in {"success", "failure", "inval"} /\ rc # "success" /\ up.pc \in {"post", "send"}
    BY <1>2, <2>1
  <2> QED
    BY <1>3, <1>4, <2>1, <2>3, <2>4, <2>5, ReturnKeeps
<1> QED
  BY <1>7, <1>8

(* The POST of a fragment failed, the server may have it or not.             *)
LEMMA SendFailsKeeps ==
  ASSUME SizesAssumption, LogInv, NEW received \in BOOLEAN, SendFails(received)
  PROVE  LogInv'
<1>1. up.pc = "send" /\ UNCHANGED <<sg_log_buffer, sg_write_index, log_buf, storage, sizes>>
  BY DEF SendFails, buffers
<1>2. /\ sg_log_buffer \in [0..(BUF - 1) -> CellSet] /\ posted \in [1..MaxLogs -> 0..2]
      /\ Lo \in Int /\ Hi \in Int /\ sg_write_index \in Int
  BY BoundsAre DEF LogInv, LogTypeOK
<1>3. /\ Layout(sg_log_buffer, HDR, Hi, sg_write_index, sizes)
      /\ \A n : HeldIn(sg_log_buffer, HDR, Hi, sg_write_index, n)
                  <=> Has(sg_log_buffer, Hi, sg_write_index, n)
  BY <1>2, LayoutDrop DEF LogInv, BufferInv
<1>4. PICK rc : rc = "failure"
  OBVIOUS
<1>5. rc \in {"success", "failure", "inval"} /\ rc # "success" /\ up.pc \in {"post", "send"}
  BY <1>1, <1>4
<1>6. CASE received
  <2>1. PICK again : again = Ids(Cells(PostBuf, HDR, up.upload_size))
    OBVIOUS
  <2>2. Receive /\ AfterPost(rc, again)
    BY <1>4, <1>6, <2>1 DEF SendFails
  <2>3. twice' = twice \cup again /\ twice \subseteq twice'
    BY <2>2 DEF AfterPost
  <2>4. /\ posted' \in [1..MaxLogs -> 0..2] /\ ~torn'
        /\ \A n \in DOMAIN posted : n > Len(sizes) => posted'[n] = 0
        /\ \A n \in Records : Posted(n) => posted'[n] > 0 /\ (posted'[n] > 1 => n \in twice)
        /\ \A n \in Records : ~Posted(n) => posted'[n] = posted[n]
        /\ \A n \in Records : n \in again <=> Posted(n)
    BY <1>1, <2>1, <2>2, <2>3, ReceiveIs
  <2>5. /\ \A n \in Records : n \in again => posted'[n] > 0 /\ (posted'[n] > 1 => n \in twice')
        /\ \A n \in Records : n \notin again => posted'[n] = posted[n]
        /\ \A n \in Records : n \in again => Posted(n) /\ up.pc = "send"
    BY <1>1, <2>3, <2>4
  <2>6. PICK got : got = again
    OBVIOUS
  <2> QED
    BY <1>1, <1>2, <1>3, <1>5, <2>2, <2>4, <2>5, <2>6, ReturnKeeps
<1>7. CASE ~received
  <2>1. AfterPost(rc, {}) /\ UNCHANGED <<posted, torn>>
    BY <1>4, <1>7 DEF SendFails
  <2>2. PICK got : got = {}
    OBVIOUS
  <2>4. ~torn' /\ posted' \in [1..MaxLogs -> 0..2]
        /\ (\A n \in DOMAIN posted : n > Len(sizes) => posted'[n] = 0)
        /\ (\A n \in Records : n \notin got => posted'[n] = posted[n])
        /\ (\A n \in Records : n \notin got)
    BY <1>2, <2>1, <2>2 DEF LogInv, FreshInv, WholeInv
  <2> QED
    BY <1>1, <1>2, <1>3, <1>5, <2>1, <2>4, ReturnKeeps
<1> QED
  BY <1>6, <1>7

(* The server has the fragment.                                              *)
LEMMA SendOkKeeps ==
  ASSUME SizesAssumption, LogInv, SendOk
  PROVE  LogInv'
<1>0. /\ HDR \in Int /\ up.upload_size \in Int /\ up.post_size \in Int
      /\ up.orig_post_size \in Int
  BY BoundsAre DEF LogInv, LogTypeOK, UploadSet
<1>a. PICK u \in Int, p \in Int, o \in Int :
        u = up.upload_size /\ p = up.post_size /\ o = up.orig_post_size
  BY <1>0
<1>b. PICK left \in Int : left = p - (u - HDR)
  BY <1>0
<1>1. /\ u = up.upload_size /\ p = up.post_size /\ o = up.orig_post_size
      /\ left = p - (u - HDR)
  BY <1>a, <1>b
<1>2. up.pc = "send" /\ Receive /\ UNCHANGED <<sg_write_index, storage, sizes>>
  BY DEF SendOk
<1>3. /\ sizes \in Seq(Nat \ {0}) /\ up \in UploadSet /\ sg_write_index \in Nat
      /\ sg_log_buffer \in [0..(BUF - 1) -> CellSet] /\ posted \in [1..MaxLogs -> 0..2]
      /\ up.actual_post_payload \in Nat /\ up.saved \in BOOLEAN /\ up.fragments \in BOOLEAN
      /\ \A n \in Records : posted[n] \in 0..2
  BY DEF SizesAssumption, LogInv, LogTypeOK, UploadSet, Records
<1>4. /\ HDR \in Int /\ HDR > 0 /\ BUF - 1 \in Int /\ BUF \in Int /\ Lo \in Int /\ Hi \in Int
      /\ HDR <= Lo /\ Lo <= Hi /\ Hi <= sg_write_index /\ sg_write_index < BUF
      /\ sg_write_index \in Int
  BY BoundsAre
<1>5. /\ HDR <= u /\ u <= p /\ (u = p \/ PostBuf[u - 1][2] = 0)
      /\ up.fragments => HDR < u
      /\ ~up.fragments => u = p
  BY <1>1, <1>2 DEF LogInv, UploadInv
<1>6. up.saved => Resending /\ PostBuf = log_buf /\ Lo = sg_write_index /\ Hi = sg_write_index
  BY <1>2, AtRest DEF Resending, Posting, PostBuf
<1>7. ~up.saved => /\ Uploading /\ PostBuf = sg_log_buffer /\ Lo = p /\ Hi = up.upload_log_size
                   /\ o = Hi /\ p + up.actual_post_payload = o
  <2>1. ~up.saved => Uploading
    BY <1>2 DEF Uploading, Posting
  <2>2. ~up.saved => /\ PostBuf = sg_log_buffer /\ Lo = p /\ Hi = up.upload_log_size
    BY <1>1, <1>2, <2>1 DEF PostBuf, Lo, Hi
  <2>3. ~up.saved => o = up.upload_log_size /\ p + up.actual_post_payload = o
    BY <1>1, <2>1 DEF LogInv, UploadInv
  <2> QED
    BY <2>1, <2>2, <2>3
<1>8. \A f : Advance(f) = memzero(memmove(f, HDR, u, p - u), left, o - left)
  BY <1>1 DEF Advance
<1>9. Layout(sg_log_buffer, Lo, Hi, sg_write_index, sizes)
  BY DEF LogInv, BufferInv
<1>10. ASSUME twice \subseteq twice'
       PROVE  /\ posted' \in [1..MaxLogs -> 0..2] /\ ~torn'
              /\ \A n \in DOMAIN posted : n > Len(sizes) => posted'[n] = 0
              /\ \A n \in Records : Posted(n) => posted'[n] > 0 /\ (posted'[n] > 1 => n \in twice)
              /\ \A n \in Records : ~Posted(n) => posted'[n] = posted[n]
  BY <1>2, <1>10, ReceiveIs
<1>11. ASSUME ~up.saved, sg_log_buffer' = Advance(sg_log_buffer)
       PROVE  /\ sg_log_buffer' \in [0..(BUF - 1) -> CellSet]
              /\ Layout(sg_log_buffer', left, Hi, sg_write_index, sizes)
              /\ Cleared(sg_log_buffer', left, Hi)
              /\ \A n : HeldIn(sg_log_buffer', left, Hi, sg_write_index, n)
                          <=> Has(sg_log_buffer, u, Lo, n) \/ Has(sg_log_buffer, Hi, sg_write_index, n)
  <2>1. Advanced(sg_log_buffer, sg_log_buffer', u, Lo, Hi, left)
    BY <1>1, <1>7, <1>8, <1>11 DEF Advanced
  <2>2. u <= Lo /\ (u = Lo \/ sg_log_buffer[u - 1][2] = 0)
    BY <1>5, <1>7, <1>11
  <2>3. MovedOff(sg_log_buffer, sg_log_buffer', Lo, Hi, sg_write_index, u, left, sizes)
    BY <1>3, <1>4, <1>5, <1>9, <2>1, <2>2, LayoutAdvance
  <2> QED
    BY <2>3 DEF MovedOff
<1>12. ASSUME AfterPost("success", {}), u = p,
              \/ sg_log_buffer' = sg_log_buffer
              \/ ~up.saved /\ sg_log_buffer' = Advance(sg_log_buffer)
       PROVE  LogInv'
  <2>1. PICK got : got = {n \in Records : Posted(n)}
    OBVIOUS
  <2>2. twice \subseteq twice'
    BY <1>12 DEF AfterPost
  <2>3. left = HDR
    BY <1>1, <1>4, <1>12
  <2>4. /\ sg_log_buffer' \in [0..(BUF - 1) -> CellSet]
        /\ Layout(sg_log_buffer', HDR, Hi, sg_write_index, sizes)
        /\ \A n : HeldIn(sg_log_buffer', HDR, Hi, sg_write_index, n)
                    <=> Has(sg_log_buffer, Hi, sg_write_index, n)
    <3>1. CASE sg_log_buffer' = sg_log_buffer
      BY <1>3, <1>4, <1>9, <3>1, LayoutDrop
    <3>2. CASE ~up.saved /\ sg_log_buffer' = Advance(sg_log_buffer)
      <4>1. \A n : ~Has(sg_log_buffer, u, Lo, n)
        BY <1>4, <1>7, <1>12, <3>2, HasEmpty
      <4> QED
        BY <1>11, <2>3, <3>2, <4>1
    <3> QED
      BY <1>12, <3>1, <3>2
  <2>5. ~up.saved => \A n \in Records : Has(sg_log_buffer, HDR, Lo, n) => n \in got
    <3>1. ASSUME ~up.saved PROVE \A n : ~Has(sg_log_buffer, up.upload_size, Lo, n)
      BY <1>1, <1>4, <1>7, <1>12, <3>1, HasEmpty
    <3> QED
      BY <1>2, <2>1, <3>1, FragmentHolds
  <2>6. up.saved => sg_log_buffer' = sg_log_buffer
    BY <1>12
  <2>7. /\ \A n \in Records : n \in got => posted'[n] > 0 /\ (posted'[n] > 1 => n \in twice')
        /\ \A n \in Records : n \notin got => posted'[n] = posted[n]
        /\ \A n \in Records : n \in got => Posted(n) /\ up.pc = "send"
    BY <1>2, <1>10, <2>1, <2>2
  <2>8. PICK rc : rc = "success"
    OBVIOUS
  <2>9. AfterPost(rc, {}) /\ rc \in {"success", "failure", "inval"} /\ up.pc \in {"post", "send"}
    BY <1>2, <1>12, <2>8
  <2> QED
    BY <1>2, <1>10, <2>2, <2>4, <2>5, <2>6, <2>7, <2>8, <2>9, ReturnKeeps
<1>13. ASSUME up.fragments, left > HDR, dropped' = dropped, twice' = twice,
              up.saved => log_buf' = Advance(log_buf) /\ sg_log_buffer' = sg_log_buffer,
              ~up.saved => sg_log_buffer' = Advance(sg_log_buffer) /\ log_buf' = log_buf,
              up' = [up EXCEPT !.pc = "post", !.post_size = left,
                               !.actual_post_payload = @ + (u - HDR)]
       PROVE  LogInv'
  <2>1. left \in Nat /\ u - HDR \in Nat /\ left <= p /\ u - HDR > 0
    BY <1>1, <1>4, <1>5, <1>13
  <2>2. PICK actual \in Nat : actual = up.actual_post_payload + (u - HDR)
    BY <1>3, <2>1
  <2>3. /\ up' \in UploadSet /\ up'.pc = "post" /\ up'.saved = up.saved
        /\ up'.fragments = up.fragments /\ up'.post_size = left /\ up'.orig_post_size = o
        /\ up'.actual_post_payload = actual /\ up'.upload_log_size = up.upload_log_size
    BY <1>1, <1>3, <1>13, <2>1, <2>2 DEF UploadSet
  <2>t. twice \subseteq twice'
    BY <1>13
  <2>4. /\ posted' \in [1..MaxLogs -> 0..2] /\ ~torn'
        /\ \A n \in DOMAIN posted : n > Len(sizes) => posted'[n] = 0
        /\ \A n \in Records : Posted(n) => posted'[n] > 0 /\ (posted'[n] > 1 => n \in twice)
        /\ \A n \in Records : ~Posted(n) => posted'[n] = posted[n]
    BY <1>10, <2>t
  <2>5. /\ sg_log_buffer' \in [0..(BUF - 1) -> CellSet]
        /\ Layout(sg_log_buffer', Lo', Hi', sg_write_index', sizes')
        /\ Cleared(sg_log_buffer', Lo', Hi')
        /\ up.saved => \A n : Held(n)' <=> Held(n)
        /\ ~up.saved => \A n : Held(n)' <=> \/ Has(sg_log_buffer, u, Lo, n)
                                              \/ Has(sg_log_buffer, Hi, sg_write_index, n)
    <3>1. CASE up.saved
      <4>1. sg_log_buffer' = sg_log_buffer
        BY <1>13, <3>1
      <4>2. Lo' = Lo /\ Hi' = Hi
        BY <1>2, <1>6, <2>3, <3>1, AtRestNext DEF Resending, Posting
      <4>3. Cleared(sg_log_buffer, Lo, Hi)
        BY <1>2 DEF LogInv, BufferInv
      <4> QED
        BY <1>2, <1>3, <1>9, <3>1, <4>1, <4>2, <4>3 DEF Held
    <3>2. CASE ~up.saved
      <4>1. sg_log_buffer' = Advance(sg_log_buffer)
        BY <1>13, <3>2
      <4>2. Lo' = left /\ Hi' = Hi
        BY <1>7, <2>3, <3>2 DEF Lo, Hi, Uploading, Posting
      <4> QED
        BY <1>2, <1>11, <3>2, <4>1, <4>2 DEF Held
    <3> QED
      BY <3>1, <3>2
  <2>6. LogTypeOK'
    BY <1>2, <1>3, <2>3, <2>4, <2>5 DEF LogInv, LogTypeOK
  <2>7. BufferInv'
    BY <2>5 DEF BufferInv
  <2>8. /\ Records' = Records /\ \A n : (Stored(n)' <=> Stored(n))
        /\ \A n \in Records : Fresh(n) /\ ~Posted(n) => Fresh(n)'
    BY <1>2, <1>13, <2>4 DEF Records, Stored, Fresh
  <2>9. \A n : Held(n)' => Held(n) /\ ~Posted(n)
    <3>1. CASE up.saved
      BY <1>2, <2>5, <3>1, FragmentHolds
    <3>2. CASE ~up.saved
      <4>1. \A n : Has(sg_log_buffer, u, Lo, n) => ~Posted(n) /\ Has(sg_log_buffer, HDR, Lo, n)
        BY <1>1, <1>2, <1>7, <3>2, FragmentHolds
      <4>2. \A n : Has(sg_log_buffer, Hi, sg_write_index, n) => ~Posted(n)
        BY <1>2, <3>2, FragmentHolds
      <4> QED
        BY <2>5, <3>2, <4>1, <4>2 DEF Held, HeldIn
    <3> QED
      BY <3>1, <3>2
  <2>10. \A n : Held(n) => Held(n)' \/ Posted(n)
    <3>1. CASE up.saved
      BY <2>5, <3>1
    <3>2. CASE ~up.saved
      <4>1. \A n : Has(sg_log_buffer, HDR, Lo, n) => Posted(n) \/ Has(sg_log_buffer, u, Lo, n)
        BY <1>1, <1>2, <3>2, FragmentHolds
      <4> QED
        BY <2>5, <3>2, <4>1 DEF Held, HeldIn
    <3> QED
      BY <3>1, <3>2
  <2>11. StorageInv'
    BY <1>2, <2>8, <2>9 DEF LogInv, StorageInv
  <2>12. UploadInv'
    <3>1. ASSUME ~up.saved PROVE left + actual = o /\ actual # 0 /\ o = up.upload_log_size
      <4>1. up.actual_post_payload \in Int /\ p + up.actual_post_payload = o
        BY <1>3, <1>7, <3>1
      <4>2. PICK before \in Int : before = up.actual_post_payload
        BY <4>1
      <4>3. actual = before + (u - HDR) /\ p + before = o /\ left = p - (u - HDR)
        BY <1>1, <2>2, <4>1, <4>2
      <4>4. before >= 0 /\ u - HDR > 0
        BY <1>3, <2>1, <4>2
      <4>5. left + actual = o /\ actual # 0
        BY <1>0, <4>3, <4>4
      <4> QED
        BY <1>7, <3>1, <4>5
    <3> QED
      BY <1>13, <2>3, <3>1 DEF UploadInv, Uploading, Posting
  <2>13. ASSUME up.saved
         PROVE  /\ log_buf' \in [0..o -> CellSet] /\ Headed(log_buf')
                /\ HDR <= left /\ left <= o
                /\ Filled(log_buf', HDR, left, sizes) /\ Cleared(log_buf', left, o + 1)
                /\ \A n : InCopy(n)' <=> Has(log_buf, u, p, n)
    <3>1. /\ log_buf \in [0..o -> CellSet] /\ Headed(log_buf) /\ p <= o
          /\ Filled(log_buf, HDR, p, sizes) /\ Cleared(log_buf, p, o + 1)
      BY <1>1, <1>6, <2>13 DEF LogInv, CopyInv
    <3>2. Filled(log_buf, u, p, sizes)
      BY <1>3, <1>4, <1>5, <1>6, <2>13, <3>1, FilledCut
    <3>3. Advanced(log_buf, log_buf', u, p, o, left)
      BY <1>1, <1>8, <1>13, <2>13 DEF Advanced
    <3>4. o - 1 <= o
      OBVIOUS
    <3>5. MovedUp(o, log_buf, log_buf', u, p, o, left, sizes)
      BY <1>3, <1>5, <3>1, <3>2, <3>3, <3>4, AdvanceIs
    <3>6. log_buf'[o] = Zero
      <4>1. o \in p..(o + 1 - 1) /\ o \in o..o
        BY <3>1
      <4> QED
        BY <3>1, <3>5, <4>1 DEF Cleared, MovedUp
    <3>7. Cleared(log_buf', left, o + 1)
      <4> SUFFICES ASSUME NEW i \in left..(o + 1 - 1) PROVE log_buf'[i] = Zero
        BY DEF Cleared
      <4>1. i = o \/ i \in left..(o - 1)
        OBVIOUS
      <4> QED
        BY <3>5, <3>6, <4>1 DEF Cleared, MovedUp
    <3>8. left <= o
      BY <2>1, <3>1
    <3>9. \A n : InCopy(n)' <=> Has(log_buf, u, p, n)
      BY <2>3, <3>5 DEF InCopy, MovedUp
    <3> QED
      BY <3>5, <3>7, <3>8, <3>9 DEF MovedUp
  <2>14. ASSUME up.saved, NEW n, InCopy(n)' PROVE InCopy(n) /\ ~Posted(n)
    BY <1>1, <1>2, <1>6, <2>13, <2>14, FragmentHolds
  <2>15. Resending' => up.saved
    BY <2>3 DEF Resending
  <2>16. CopyInv'
    <3>1. ASSUME up.saved PROVE \A n \in Records : InCopy(n)' => Stored(n)'
      BY <1>6, <2>8, <2>14, <3>1 DEF LogInv, CopyInv
    <3> QED
      BY <1>2, <2>3, <2>8, <2>13, <2>15, <3>1 DEF CopyInv
  <2>17. FreshInv'
    <3>1. \A n \in DOMAIN posted' : n > Len(sizes') => posted'[n] = 0
      BY <1>2, <1>3, <2>4
    <3>2. ASSUME NEW n \in Records, Held(n)' PROVE Fresh(n)'
      <4>1. Held(n) /\ ~Posted(n)
        BY <2>9, <3>2
      <4> QED
        BY <2>8, <4>1 DEF LogInv, FreshInv
    <3>3. ASSUME NEW n \in Records, Stored(n), ~up.saved PROVE Fresh(n)'
      <4>1. ~Held(n) /\ Fresh(n)
        BY <3>3 DEF LogInv, StorageInv, FreshInv
      <4>2. ~Posted(n)
        BY <1>2, <3>3, <4>1, FragmentHolds DEF Held, HeldIn
      <4> QED
        BY <2>8, <4>1, <4>2
    <3>4. ASSUME NEW n \in Records, Resending', InCopy(n)' PROVE Fresh(n)'
      <4>1. InCopy(n) /\ ~Posted(n) /\ Resending
        BY <1>6, <2>14, <2>15, <3>4
      <4> QED
        BY <2>8, <4>1 DEF LogInv, FreshInv
    <3> QED
      BY <2>3, <2>8, <3>1, <3>2, <3>3, <3>4 DEF FreshInv
  <2>18. KeptInv'
    <3> SUFFICES ASSUME NEW n \in Records, ~(posted'[n] > 0), n \notin dropped, ~Stored(n)
                 PROVE  Held(n)'
      BY <1>13, <2>8 DEF KeptInv
    <3>1. ~Posted(n) /\ posted'[n] = posted[n]
      BY <2>4
    <3> QED
      BY <2>10, <3>1 DEF LogInv, KeptInv
  <2>19. OnceInv' /\ WholeInv'
    <3>1. \A n \in Records : posted'[n] > 1 => n \in twice
      BY <2>4 DEF LogInv, OnceInv
    <3> QED
      BY <1>13, <2>4, <2>8, <3>1 DEF OnceInv, WholeInv
  <2> QED
    BY <2>6, <2>7, <2>11, <2>12, <2>16, <2>17, <2>18, <2>19 DEF LogInv
<1>14. CASE ~up.fragments
  <2>1. AfterPost("success", {}) /\ sg_log_buffer' = sg_log_buffer
    BY <1>14 DEF SendOk
  <2> QED
    BY <1>5, <1>12, <1>14, <2>1
<1>15. CASE up.fragments
  <2>1. /\ up.saved => log_buf' = Advance(log_buf) /\ sg_log_buffer' = sg_log_buffer
        /\ ~up.saved => sg_log_buffer' = Advance(sg_log_buffer) /\ log_buf' = log_buf
        /\ IF left > HDR
           THEN /\ up' = [up EXCEPT !.pc = "post", !.post_size = left,
                                    !.actual_post_payload = @ + (u - HDR)]
                /\ UNCHANGED <<dropped, twice>>
           ELSE AfterPost("success", {})
    BY <1>1, <1>15 DEF SendOk
  <2>2. CASE left > HDR
    BY <1>13, <1>15, <2>1, <2>2
  <2>3. CASE ~(left > HDR)
    <3>1. u = p
      BY <1>1, <1>4, <1>5, <2>3
    <3> QED
      BY <1>12, <1>3, <2>1, <2>3, <3>1
  <2> QED
    BY <2>2, <2>3
<1> QED
  BY <1>3, <1>14, <1>15

-----------------------------------------------------------------------------
(* The invariant holds at the start.                                         *)
LEMMA LogInitInv ==
  ASSUME SizesAssumption, LogInit
  PROVE  LogInv
<1>1. /\ sg_log_buffer = EmptyBuffer(BUF) /\ sg_write_index = HDR /\ storage = <<>>
      /\ up = NoUpload /\ sizes = <<>> /\ posted = [n \in 1..MaxLogs |-> 0] /\ torn = FALSE
  BY DEF LogInit, BUF
<1>2. HDR \in Nat /\ BUF \in Nat /\ HDR < BUF /\ MaxLogs \in Nat
  BY DEF SizesAssumption, BUF
<1>3. up \in UploadSet /\ up.pc = "idle"
  BY <1>1 DEF NoUpload, UploadSet
<1>4. /\ sg_log_buffer \in [0..(BUF - 1) -> CellSet]
      /\ Headed(sg_log_buffer) /\ Cleared(sg_log_buffer, HDR, BUF)
  <2>1. Zero \in CellSet /\ Header \in CellSet
    BY DEF Zero, Header, CellSet
  <2> QED
    BY <1>1, <1>2, <2>1 DEF EmptyBuffer, Headed, Cleared
<1>5. /\ storage \in Seq(CellSet) /\ Len(storage) + 1 = 1
      /\ sizes \in Seq(Nat \ {0}) /\ Len(sizes) = 0 /\ Records = {}
  BY <1>1 DEF Records
<1>6. Lo = HDR /\ Hi = HDR
  BY <1>1, <1>3, AtRest
<1>7. LogTypeOK
  BY <1>1, <1>2, <1>3, <1>4, <1>5 DEF LogTypeOK
<1>8. BufferInv
  BY <1>1, <1>4, <1>6, LayoutEmpty DEF BufferInv
<1>9. StorageInv
  BY <1>5, FilledEmpty DEF StorageInv
<1>10. UploadInv /\ CopyInv
  BY <1>3 DEF UploadInv, CopyInv, Resending, Uploading, Posting
<1>11. FreshInv /\ KeptInv /\ OnceInv /\ WholeInv
  BY <1>1, <1>2, <1>5 DEF FreshInv, KeptInv, OnceInv, WholeInv
<1> QED
  BY <1>7, <1>8, <1>9, <1>10, <1>11 DEF LogInv

(* Every step keeps it or disturbs an upload.                                *)
LEMMA LogNextInv ==
  ASSUME SizesAssumption, LogInv, [LogNext]_logVars, ~disturbed'
  PROVE  LogInv'
<1>1. CASE \E s \in Sizes : append_to_upload_buffer(s)
  BY <1>1, AppendKeeps
<1>2. CASE \E clear, err \in BOOLEAN : _log_level_sub_cb(clear, err)
  BY <1>2, LevelKeeps
<1>3. CASE Reboot
  BY <1>3, RebootKeeps
<1>4. CASE SkipUpload
  BY <1>4, SkipUploadKeeps
<1>5. CASE \E force \in BOOLEAN : BeginUpload(force)
  BY <1>5, BeginUploadKeeps
<1>6. CASE NoSavedLog
  BY <1>6, NoSavedLogKeeps
<1>7. CASE _handle_saved_log
  BY <1>7, HandleSavedLogKeeps
<1>8. CASE CheckEmpty
  BY <1>8, CheckEmptyKeeps
<1>9. CASE Snapshot
  BY <1>9, SnapshotKeeps
<1>10. CASE DeleteSaved
  BY <1>10, DeleteSavedKeeps
<1>11. CASE Locate
  BY <1>11, LocateKeeps
<1>12. CASE SendOk
  BY <1>12, SendOkKeeps
<1>13. CASE \E received \in BOOLEAN : SendFails(received)
  BY <1>13, SendFailsKeeps
<1>14. CASE Adjust
  BY <1>14, AdjustKeeps
<1>15. CASE \E deletes, saves \in BOOLEAN : _save_log(deletes, saves)
  BY <1>15, SaveKeeps
<1>16. CASE MoveNewLog
  BY <1>16, MoveNewLogKeeps
<1>17. CASE UNCHANGED logVars
  <2>1. UNCHANGED <<sg_log_buffer, sg_write_index, storage, log_buf, up, sizes, posted, torn,
                    dropped, twice>>
    BY <1>17 DEF logVars, buffers, ghosts
  <2> QED
    BY <2>1, SameKeeps
<1> QED
  BY <1>1, <1>2, <1>3, <1>4, <1>5, <1>6, <1>7, <1>8, <1>9, <1>10, <1>11, <1>12, <1>13, <1>14,
     <1>15, <1>16, <1>17 DEF LogNext

(* An upload that was disturbed stays recorded.                              *)
LEMMA DisturbedStays ==
  ASSUME disturbed, [LogNext]_logVars
  PROVE  disturbed'
<1> USE DEF ghosts
<1>1. CASE \E s \in Sizes : append_to_upload_buffer(s)
  BY <1>1 DEF append_to_upload_buffer
<1>2. CASE \E clear, err \in BOOLEAN : _log_level_sub_cb(clear, err)
  BY <1>2 DEF _log_level_sub_cb
<1>3. CASE Reboot \/ SkipUpload \/ \E force \in BOOLEAN : BeginUpload(force)
  BY <1>3 DEF Reboot, SkipUpload, BeginUpload
<1>4. CASE NoSavedLog \/ _handle_saved_log \/ CheckEmpty \/ Snapshot
  BY <1>4 DEF NoSavedLog, _handle_saved_log, CheckEmpty, Snapshot
<1>5. CASE DeleteSaved
  BY <1>5 DEF DeleteSaved
<1>6. CASE Locate
  BY <1>6 DEF Locate, AfterPost
<1>7. CASE SendOk
  BY <1>7 DEF SendOk, AfterPost
<1>8. CASE \E received \in BOOLEAN : SendFails(received)
  BY <1>8 DEF SendFails, AfterPost
<1>9. CASE Adjust \/ MoveNewLog \/ \E deletes, saves \in BOOLEAN : _save_log(deletes, saves)
  BY <1>9 DEF Adjust, MoveNewLog, _save_log
<1>10. CASE UNCHANGED logVars
  BY <1>10 DEF logVars
<1> QED
  BY <1>1, <1>2, <1>3, <1>4, <1>5, <1>6, <1>7, <1>8, <1>9, <1>10 DEF LogNext

(* It implies the properties the module states.                              *)
LEMMA LogInvGives ==
  ASSUME SizesAssumption, disturbed \/ LogInv
  PROVE  NothingLost /\ NoDuplicate /\ WholeRecords /\ MovesInRange
<1>1. CASE disturbed
  BY <1>1 DEF NothingLost, NoDuplicate, WholeRecords, MovesInRange
<1>2. ASSUME LogInv PROVE NothingLost /\ NoDuplicate /\ WholeRecords /\ MovesInRange
  <2> USE <1>2
  <2>1. /\ HDR \in Int /\ Lo \in Int /\ Hi \in Int /\ HDR <= Lo /\ Lo <= Hi /\ HDR <= Hi
        /\ Hi <= sg_write_index /\ sg_write_index \in Int /\ Lo <= sg_write_index
        /\ HDR <= sg_write_index
    BY BoundsAre
  <2>2. Len(storage) \in Nat /\ up \in UploadSet
    BY DEF LogInv, LogTypeOK
  <2>3. ASSUME NEW n \in Records
        PROVE  /\ Held(n) => n \in Ids(Cells(sg_log_buffer, HDR, sg_write_index))
               /\ Stored(n) => n \in Ids(storage)
    <3>1. n # 0
      BY DEF Records
    <3>2. Held(n) => Has(sg_log_buffer, HDR, sg_write_index, n)
      BY <2>1, HasSplit DEF Held, HeldIn
    <3> QED
      BY <2>1, <2>2, <3>1, <3>2, IdsOfCells, IdsIs DEF Stored
  <2>4. NothingLost
    BY <2>3 DEF NothingLost, LogInv, KeptInv
  <2>5. MovesInRange
    BY <2>2 DEF MovesInRange, UploadSet
  <2>6. NoDuplicate /\ WholeRecords
    BY DEF LogInv, OnceInv, WholeInv, NoDuplicate, WholeRecords
  <2> QED
    BY <2>4, <2>5, <2>6
<1> QED
  BY <1>1, <1>2

-----------------------------------------------------------------------------
(* LogInv holds whatever is appended, at any moment, while do_log_upload     *)
(* posts, fails, moves, saves or resumes after a restart, and whatever the   *)
(* log topic brings, until one of its messages empties the buffer under an   *)
(* upload that has read its size.                                            *)
THEOREM LogInvariance == LogSpec => [](disturbed \/ LogInv)
<1>1. LogInit => disturbed \/ LogInv
  BY SizesAssumption, LogInitInv
<1>2. (disturbed \/ LogInv) /\ [LogNext]_logVars => (disturbed \/ LogInv)'
  <2> SUFFICES ASSUME disturbed \/ LogInv, [LogNext]_logVars, ~disturbed' PROVE LogInv'
    OBVIOUS
  <2>1. LogInv
    BY DisturbedStays
  <2> QED
    BY <2>1, SizesAssumption, LogNextInv
<1> QED
  BY <1>1, <1>2, PTL DEF LogSpec

(* A record accepted by append_to_upload_buffer is at the server, in the     *)
(* buffer or in the user's storage until the code discards it on purpose:    *)
(* the moves of log_upload.c:664-690 lose nothing. Until an upload is        *)
(* disturbed.                                                                *)
THEOREM LogsKept == LogSpec => []NothingLost
<1>1. disturbed \/ LogInv => NothingLost
  BY SizesAssumption, LogInvGives
<1> QED
  BY <1>1, LogInvariance, PTL

(* The server receives a record twice only after a lost answer or when a     *)
(* saved log that was posted in part is posted again. Until an upload is     *)
(* disturbed.                                                                *)
THEOREM LogsOnce == LogSpec => []NoDuplicate
<1>1. disturbed \/ LogInv => NoDuplicate
  BY SizesAssumption, LogInvGives
<1> QED
  BY <1>1, LogInvariance, PTL

(* No POST carries part of a record, wherever _post_log_to_server cuts the   *)
(* buffer and whatever was appended behind the cut. Until an upload is       *)
(* disturbed.                                                                *)
THEOREM LogsWhole == LogSpec => []WholeRecords
<1>1. disturbed \/ LogInv => WholeRecords
  BY SizesAssumption, LogInvGives
<1> QED
  BY <1>1, LogInvariance, PTL

(* The lengths of the moves at log_upload.c:669 and 686 never wrap, until an *)
(* upload is disturbed.                                                      *)
THEOREM MovesFit == LogSpec => []MovesInRange
<1>1. disturbed \/ LogInv => MovesInRange
  BY SizesAssumption, LogInvGives
<1> QED
  BY <1>1, LogInvariance, PTL
=============================================================================
