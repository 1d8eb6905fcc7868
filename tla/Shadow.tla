------------------------------- MODULE Shadow -------------------------------
(* The device shadow: requests (IOT_Shadow_Update, IOT_Shadow_Get and their  *)
(* _Sync forms) that wait in request_list for a reply with their token, the  *)
(* handlers of registered properties, and the messages of the result topic.  *)
(*                                                                           *)
(* Application threads make requests and wait for their callback or go on.   *)
(* The thread that reads MQTT packets handles replies and deltas; the        *)
(* application's calls of IOT_Shadow_Yield report expired requests. All      *)
(* callbacks run with the mutex held and those of the application may make a *)
(* request. MQTT is used through what it promises: a QoS 0 publish may fail  *)
(* or be lost, a message of the result topic comes only when the topic is    *)
(* subscribed.                                                               *)
EXTENDS Naturals, Integers, Sequences, FiniteSets, SequencesExt

CONSTANTS
    Apps,          \* application threads
    NoThread,      \* nobody holds the mutex
    Reader,        \* the thread that reads packets
    Properties,    \* DeviceProperty objects of the application
    MAX_APPENDING_REQUEST_AT_ANY_GIVEN_TIME,
    MaxRequests,   \* bound: requests made
    MaxHandlers,   \* bound: registrations
    MaxDeltas      \* bound: delta messages

ASSUME ShadowAssumption ==
    /\ {MAX_APPENDING_REQUEST_AT_ANY_GIVEN_TIME, MaxRequests} \subseteq Nat \ {0}
    /\ {MaxHandlers, MaxDeltas} \subseteq Nat
    /\ Reader \notin Apps /\ NoThread \notin Apps \cup {Reader}

Requests == 1..MaxRequests
None     == 0
NoReply  == [req |-> None, kind |-> "none"]

VARIABLES
    recursive,            \* the platform's mutex may be taken again by its owner
    mutex,                \* the thread that waits for the mutex it holds, NoThread when none does
    request_list,         \* the requests that wait; their order changes nothing
    property_handle_list, token_num,
    sync_status,          \* 0: Construct thinks the result topic is subscribed, -1: it timed out or was refused
    pc, req,              \* of an application thread
    y_pc, y_reply,        \* of the reader
    made,                 \* requests made so far
    client_token, expired_timers,
    ack,                  \* what each request's callback was told
    subscribed, wire, replies, deltas,
    calls,                \* history: calls of each callback
    unparsed              \* history: requests removed by a reply whose result could not be parsed

lists   == <<request_list, property_handle_list>>
callers == <<pc, req, token_num, made, client_token>>
reader  == <<y_pc, y_reply>>
net     == <<subscribed, wire, replies, deltas>>
result  == <<ack, calls, unparsed>>
vars    == <<recursive, mutex, lists, sync_status, callers, reader, expired_timers, net, result>>

(* A section under the mutex is one step, so the mutex is held between steps *)
(* only by a thread that has locked itself up.                               *)
Free == mutex = NoThread

(* IOT_Shadow_Construct: sync_status follows the SUBACK. When the call of    *)
(* IOT_MQTT_Subscribe itself fails, sync_status keeps the 0 of memset.       *)
Init ==
    /\ recursive \in BOOLEAN
    /\ mutex = NoThread
    /\ request_list = {} /\ property_handle_list = <<>> /\ token_num = 0
    /\ sync_status \in {0, -1} /\ subscribed \in BOOLEAN /\ (sync_status < 0 => ~subscribed)
    /\ pc = [t \in Apps |-> "idle"] /\ req = [t \in Apps |-> None]
    /\ y_pc = "read" /\ y_reply = NoReply
    /\ made = 0
    /\ client_token = [r \in Requests |-> -1]
    /\ expired_timers = {}
    /\ ack = [r \in Requests |-> "ACK_NONE"]
    /\ wire = {} /\ replies = {} /\ deltas = 0
    /\ calls = [r \in Requests |-> 0] /\ unparsed = {}

-----------------------------------------------------------------------------
(* A request. The token is "<product>-<token_num>" which is counted  *)
(* up by a read and a write with no mutex around them.                       *)

(* generate_client_token and build_empty_json, the read.                     *)
ReadToken(t) ==
    /\ pc[t] = "idle" /\ made < MaxRequests
    /\ made' = made + 1
    /\ req' = [req EXCEPT ![t] = made + 1]
    /\ client_token' = [client_token EXCEPT ![made + 1] = token_num]
    /\ pc' = [pc EXCEPT ![t] = "token"]
    /\ UNCHANGED <<recursive, mutex, lists, sync_status, token_num, reader, expired_timers, net, result>>

WriteToken(t) ==
    /\ pc[t] = "token"
    /\ token_num' = client_token[req[t]] + 1
    /\ pc' = [pc EXCEPT ![t] = "publish"]
    /\ UNCHANGED <<recursive, mutex, lists, sync_status, req, made, client_token,
                   reader, expired_timers, net, result>>

(* subscribe_operation_result_to_cloud, repeated while sync_status < 0: the  *)
(* SUBACK that comes now changes subscribed and not sync_status, which its   *)
(* handler only changes when it is positive.                                 *)
Resubscribe == subscribed' \in (IF sync_status < 0 THEN {subscribed, TRUE} ELSE {subscribed})

(* do_shadow_request up to _publish_operation_to_cloud. A failure returns    *)
(* before the request is listed.                                             *)
Publish(t) ==
    /\ pc[t] = "publish"
    /\ Resubscribe
    /\ \/ /\ wire' = wire \cup {req[t]}
          /\ pc' = [pc EXCEPT ![t] = "add"] /\ UNCHANGED req
       \/ /\ pc' = [pc EXCEPT ![t] = "idle"] /\ req' = [req EXCEPT ![t] = None]
          /\ UNCHANGED wire
    /\ UNCHANGED <<recursive, mutex, lists, sync_status, token_num, made, client_token,
                   reader, expired_timers, replies, deltas, result>>

Full == Cardinality(request_list) >= MAX_APPENDING_REQUEST_AT_ANY_GIVEN_TIME

(* _add_request_to_list, after the publish. A full list, or no memory,       *)
(* refuses the request although it was sent. A caller of the _Sync forms     *)
(* waits for its callback, the others go on.                                 *)
AddRequest(t) ==
    /\ pc[t] = "add" /\ Free
    /\ \/ /\ ~Full
          /\ request_list' = request_list \cup {req[t]}
          /\ pc' = [pc EXCEPT ![t] = "wait"] /\ UNCHANGED req
       \/ /\ \/ UNCHANGED request_list
             \/ ~Full /\ request_list' = request_list \cup {req[t]}
          /\ pc' = [pc EXCEPT ![t] = "idle"] /\ req' = [req EXCEPT ![t] = None]
    /\ UNCHANGED <<recursive, mutex, property_handle_list, sync_status, token_num, made, client_token,
                   reader, expired_timers, net, result>>

(* The loop of IOT_Shadow_Update_Sync and IOT_Shadow_Get_Sync ends.          *)
SyncReturn(t) ==
    /\ pc[t] = "wait" /\ ack[req[t]] # "ACK_NONE"
    /\ pc' = [pc EXCEPT ![t] = "idle"] /\ req' = [req EXCEPT ![t] = None]
    /\ UNCHANGED <<recursive, mutex, lists, sync_status, token_num, made, client_token,
                   reader, expired_timers, net, result>>

-----------------------------------------------------------------------------
(* Traversals of the request list, with the mutex held throughout. Each      *)
(* request is removed after its callback.                                    *)

Callback(rs, status) ==
    /\ ack' = [r \in Requests |-> IF r \in rs THEN status ELSE ack[r]]
    /\ calls' = [r \in Requests |-> IF r \in rs THEN calls[r] + 1 ELSE calls[r]]

(* The requests whose callback is that of the _Sync forms, which only notes  *)
(* the outcome. The others have a callback of the application.               *)
Waited == {req[t] : t \in {u \in Apps : pc[u] = "wait"}}

(* A callback makes a request, up to the mutex of _add_request_to_list.      *)
CallbackRequests ==
    /\ made < MaxRequests
    /\ made' = made + 1
    /\ client_token' = [client_token EXCEPT ![made + 1] = token_num]
    /\ token_num' = token_num + 1
    /\ wire' = wire \cup {made + 1}

NoCallbackRequest == UNCHANGED <<made, client_token, token_num, wire>>

(* When the mutex is recursive such a request is listed or refused, with the *)
(* requests done removed before it. Otherwise the thread waits for itself    *)
(* for ever.                                                                 *)
Nested(done) ==
    {{}} \cup (IF Cardinality(request_list \ done) < MAX_APPENDING_REQUEST_AT_ANY_GIVEN_TIME
              THEN {{made + 1}} ELSE {})

(* The requests rs are called back and removed. The callback of one of       *)
(* requesters may make a request in its turn.                                *)
SettleAll(rs, requesters) ==
    /\ expired_timers' = expired_timers \ rs
    /\ \/ request_list' = request_list \ rs /\ NoCallbackRequest
       \/ /\ recursive /\ CallbackRequests
          /\ \E r \in rs \cap requesters : \E done \in SUBSET (rs \ {r}) : \E new \in Nested(done) :
                 request_list' = (request_list \ rs) \cup new
    /\ UNCHANGED mutex

(* The same up to r, at whose turn the thread locks itself up: in the        *)
(* callback of r, or in that of a property that the reply to r has changed.  *)
SettleSome(thread, rs, requesters, status) ==
    /\ ~recursive /\ CallbackRequests
    /\ mutex' = thread
    /\ \E r \in rs \cap requesters, done \in SUBSET rs :
          /\ r \notin done
          /\ request_list' = request_list \ done
          /\ expired_timers' = expired_timers \ done
          /\ \/ r \notin Waited /\ Callback(done \cup {r}, status)
             \/ Callback(done, status)

(* Mutant: an expired request is reported and stays in the list.             *)
HandleExpiredKeeps(t) ==
    /\ pc[t] \in {"idle", "wait"} /\ Free
    /\ LET rs == request_list \cap expired_timers IN
       /\ rs # {}
       /\ Callback(rs, "ACK_TIMEOUT")
    /\ UNCHANGED <<recursive, mutex, lists, sync_status, callers, reader, expired_timers, net, unparsed>>

(* Mutant: an expired request is removed and nobody is told.                 *)
HandleExpiredSilent(t) ==
    /\ pc[t] \in {"idle", "wait"} /\ Free
    /\ LET rs == request_list \cap expired_timers IN
       /\ rs # {}
       /\ request_list' = request_list \ rs
       /\ expired_timers' = expired_timers \ rs
    /\ UNCHANGED <<recursive, mutex, property_handle_list, sync_status, callers, reader, net, result>>

(* IOT_Shadow_Yield, of any caller: handle_expired_request.                  *)
HandleExpired(t) ==
    /\ pc[t] \in {"idle", "wait"} /\ Free
    /\ LET rs == request_list \cap expired_timers IN
       /\ rs # {}
       /\ \/ SettleAll(rs, rs \ Waited) /\ Callback(rs, "ACK_TIMEOUT")
          \/ SettleSome(t, rs, rs \ Waited, "ACK_TIMEOUT")
    /\ UNCHANGED <<recursive, property_handle_list, sync_status, pc, req, reader, subscribed, replies, deltas, unparsed>>

(* _on_operation_result_handler takes a reply: the message is copied to      *)
(* shadow_recv_buf, its type and token are parsed.                           *)
ReadReply ==
    /\ y_pc = "read"
    /\ \E p \in replies : y_reply' = p /\ replies' = replies \ {p}
    /\ y_pc' = "reply"
    /\ UNCHANGED <<recursive, mutex, lists, sync_status, callers, expired_timers, subscribed, wire, deltas, result>>

Matching == {r \in request_list : client_token[r] = client_token[y_reply.req]}

(* The state in the answer to a GET goes to the callbacks of the properties  *)
(* before the callback of the request is called.                             *)
Requesters == IF property_handle_list # <<>> THEN Matching ELSE Matching \ Waited

(* _traverse_list with _handle_request_callback: every request with the      *)
(* token is called back and removed; when the result code cannot be parsed   *)
(* it is removed without a call.                                             *)
HandleReply ==
    /\ y_pc = "reply" /\ Free
    /\ LET status == IF y_reply.kind = "ok" THEN "ACK_ACCEPTED" ELSE "ACK_REJECTED" IN
       \/ /\ y_reply.kind = "unparsable"
          /\ SettleAll(Matching, {})
          /\ unparsed' = unparsed \cup Matching
          /\ y_pc' = "read" /\ y_reply' = NoReply
          /\ UNCHANGED <<ack, calls>>
       \/ /\ y_reply.kind # "unparsable"
          /\ SettleAll(Matching, Requesters) /\ Callback(Matching, status)
          /\ y_pc' = "read" /\ y_reply' = NoReply
          /\ UNCHANGED unparsed
       \/ /\ y_reply.kind # "unparsable"
          /\ SettleSome(Reader, Matching, Requesters, status)
          /\ UNCHANGED <<y_pc, y_reply, unparsed>>
    /\ UNCHANGED <<recursive, property_handle_list, sync_status, pc, req, subscribed, replies, deltas>>

(* A delta: with the mutex held, the callback of every handler whose         *)
(* property it names.                                                        *)
HandleDelta ==
    /\ y_pc = "read" /\ Free /\ deltas < MaxDeltas /\ subscribed
    /\ deltas' = deltas + 1
    /\ \/ NoCallbackRequest /\ UNCHANGED <<mutex, request_list>>
       \/ /\ property_handle_list # <<>> /\ CallbackRequests
          /\ \/ /\ recursive
                /\ \E new \in Nested({}) : request_list' = request_list \cup new
                /\ UNCHANGED mutex
             \/ ~recursive /\ mutex' = Reader /\ UNCHANGED request_list
    /\ UNCHANGED <<recursive, property_handle_list, sync_status, pc, req, reader, expired_timers,
                   subscribed, replies, result>>

-----------------------------------------------------------------------------
(* Properties. A list node holds a PropertyHandler, a new object for each    *)
(* registration; list_find compares it with the DeviceProperty it is given,  *)
(* because the list has no match function.                                   *)

PropertyHandler(p) == [property |-> p]
list_find(v) == v \in ToSet(property_handle_list)

(* Check and insertion take the mutex one after the other.                   *)
RegisterProperty(t, p) ==
    /\ pc[t] = "idle" /\ Free
    /\ Len(property_handle_list) < MaxHandlers
    /\ ~list_find(p)
    /\ property_handle_list' = Append(property_handle_list, PropertyHandler(p))
    /\ UNCHANGED <<recursive, mutex, request_list, sync_status, callers, reader, expired_timers, net, result>>

UnRegisterProperty(t, p) ==
    /\ pc[t] = "idle" /\ Free
    /\ property_handle_list' = RemoveFirst(property_handle_list, p)
    /\ UNCHANGED <<recursive, mutex, request_list, sync_status, callers, reader, expired_timers, net, result>>

-----------------------------------------------------------------------------
(* The server and time (external).                                           *)

Reply(r) ==
    /\ r \in wire
    /\ wire' = wire \ {r}
    /\ \/ UNCHANGED replies
       \/ /\ subscribed
          /\ \E k \in {"ok", "refused", "unparsable"} : replies' = replies \cup {[req |-> r, kind |-> k]}
    /\ UNCHANGED <<recursive, mutex, lists, sync_status, callers, reader, expired_timers, subscribed, deltas, result>>

Expire(r) ==
    /\ r \in request_list \ expired_timers
    /\ expired_timers' = expired_timers \cup {r}
    /\ UNCHANGED <<recursive, mutex, lists, sync_status, callers, reader, net, result>>

AppStep(t) == /\ mutex # t
              /\ \/ ReadToken(t) \/ WriteToken(t) \/ Publish(t) \/ AddRequest(t)
                 \/ SyncReturn(t) \/ HandleExpired(t)
                 \/ \E p \in Properties : RegisterProperty(t, p) \/ UnRegisterProperty(t, p)
Next == \/ \E t \in Apps : AppStep(t)
        \/ mutex # Reader /\ (ReadReply \/ HandleReply \/ HandleDelta)
        \/ \E r \in Requests : Reply(r) \/ Expire(r)

Spec == Init /\ [][Next]_vars

(* Time passes, a caller that waits calls IOT_Shadow_Yield again and again,  *)
(* a thread gets on with its call.                                           *)
FairSpec == /\ Spec
            /\ \A t \in Apps : /\ WF_vars(mutex # t /\ (WriteToken(t) \/ Publish(t) \/ AddRequest(t) \/ SyncReturn(t)))
                               /\ WF_vars(pc[t] = "wait" /\ HandleExpired(t))
            /\ WF_vars(HandleReply)
            /\ \A r \in Requests : WF_vars(Expire(r))

-----------------------------------------------------------------------------
(* The callback of a request is called at most once: reply, repeated token   *)
(* and timeout never both report it.                                         *)
CallbackOnce == \A r \in Requests : calls[r] <= 1

(* Whoever waits in a synchronous call was told the outcome already, or its  *)
(* request is still in the list, where its reply or its timeout will find    *)
(* it. The exceptions are a reply whose result could not be parsed, which    *)
(* removes the request and calls nobody, and a callback that made a request  *)
(* while its thread held a mutex that is not recursive.                      *)
WaiterSettled ==
    \A t \in Apps : pc[t] = "wait" =>
        \/ req[t] \in request_list \cup unparsed
        \/ ack[req[t]] # "ACK_NONE"
        \/ mutex # NoThread

(* A synchronous call returns: its reply, the timeout that its own loop or   *)
(* another caller's yield handles, or another request's reply with the same  *)
(* token sets its outcome, in whatever order they come. It does not return   *)
(* when its request was removed by a reply with an unparsable result, which  *)
(* calls nobody back, or after a callback that made a request while its      *)
(* thread held a mutex that is not recursive.                                *)
SyncReturns ==
    \A t \in Apps : pc[t] = "wait" ~> pc[t] # "wait" \/ req[t] \in unparsed \/ mutex # NoThread
=============================================================================
