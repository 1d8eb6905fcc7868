------------------------------ MODULE Gateway ------------------------------
(***************************************************************************)
(* The gateway client (src/sdk_src/services/gateway).  An application      *)
(* thread puts sub-devices on line and off line, binds and unbinds them    *)
(* and asks for the list of bound ones.  Each call publishes a request     *)
(* with QoS 0 and polls one reply slot per kind of request until the       *)
(* result there differs from the one it read first or                      *)
(* GATEWAY_LOOP_MAX_COUNT polls have passed.  The handler runs in the loop thread, or inside the poll   *)
(* when there is none: it may run between any two steps of a call.         *)
(*                                                                         *)
(* Names are compared with strncmp over the length of one of them, so a    *)
(* name matches every name it is a prefix of: NamePrefixes is that         *)
(* relation.                                                               *)
(* The formatting failures of the calls need names longer than the limits  *)
(* of DeviceInfo allow and are left out, as are the signature of a bind    *)
(* request and allocation failures.                                        *)
(***************************************************************************)
EXTENDS Integers, Sequences, FiniteSets, SequencesExt

CONSTANTS
  Devices,                  \* names of sub-devices
  NamePrefixes,             \* pairs <<d, e>>: d is a proper prefix of e
  GATEWAY_LOOP_MAX_COUNT,
  MaxRequests,              \* bound: calls of the application
  MaxLosses                 \* bound: messages lost and publishes that fail

ASSUME PrefixAssumption ==
  /\ NamePrefixes \subseteq Devices \X Devices
  /\ \A d \in Devices : <<d, d>> \notin NamePrefixes

VARIABLES
  session_list,  \* sessions [dev, status], the head first
  reply,         \* per kind of request: client_id and result; ghosts: the
                 \* request (from) and the bind list (list) of the last reply
  bind_list,     \* the bind list under construction
  app,           \* the call in progress
  handler,       \* the message whose bind list was read, result not yet set
  server,        \* [online, bound]: the sub-devices as the server sees them
  requests,      \* requests on their way to the server
  replies,       \* replies on their way to the client
  last,          \* what the last call returned
  unanswered,    \* requests whose call stopped waiting without noticing their
                 \* reply: it had not come, or changed nothing when it did
  budget         \* [requests, losses] so far

vars == <<session_list, reply, bind_list, app, handler, server, requests,
          replies, last, unanswered, budget>>

NoDevice == "no device"
Kinds == {"online", "offline", "bind", "unbind", "describe_sub_devices"}

Matches(name, other) == name = other \/ <<name, other>> \in NamePrefixes

Idle == [pc |-> "idle", kind |-> "bind", dev |-> NoDevice, n |-> 0,
         loop_count |-> 0, session |-> NoDevice, res |-> "pending"]

NoHandler == [n |-> 0, list |-> {}]

Init ==
  /\ session_list = <<>>
  /\ reply = [k \in Kinds |-> [client_id |-> NoDevice, result |-> "ok", from |-> 0,
                         list |-> {}]]
  /\ bind_list = <<>>
  /\ app = Idle
  /\ handler = NoHandler
  /\ server = [online |-> {}, bound |-> {}]
  /\ requests = <<>>
  /\ replies = <<>>
  /\ last = [kind |-> "bind", dev |-> NoDevice, n |-> 0, rc |-> "pending",
             from |-> 0, list |-> <<>>, sent |-> {}]
  /\ unanswered = {}
  /\ budget = [requests |-> 0, losses |-> 0]

----------------------------------------------------------------------------
\* The session list

\* subdev_find_session: the first session whose name starts with d.
subdev_find_session(d) == SelectInSeq(session_list, LAMBDA s : Matches(d, s.dev))

\* subdev_add_session: a new session at the head.
subdev_add_session(d) == <<[dev |-> d, status |-> "INIT"]>> \o session_list

\* subdev_remove_session: the session subdev_find_session finds.
subdev_remove_session(d) ==
  LET i == subdev_find_session(d) IN
  IF i = 0 THEN session_list ELSE RemoveAt(session_list, i)

----------------------------------------------------------------------------
\* The calls of the application

\* Mutant: the result of the previous request of this kind is not reset.
StartKeepsResult(kind, d, session) ==
  /\ budget' = [budget EXCEPT !.requests = @ + 1]
  /\ app' = [pc |-> "enter", kind |-> kind, dev |-> d,
             n |-> budget.requests + 1, loop_count |-> 0, session |-> session,
             res |-> "pending"]
  /\ reply' = [reply EXCEPT ![kind].client_id = d]

\* The common part of the calls: name the reply, reset its result to -1001.
Start(kind, d, session) ==
  /\ budget' = [budget EXCEPT !.requests = @ + 1]
  /\ app' = [pc |-> "enter", kind |-> kind, dev |-> d,
             n |-> budget.requests + 1, loop_count |-> 0, session |-> session,
             res |-> "pending"]
  /\ reply' = [reply EXCEPT ![kind].client_id = d, ![kind].result = "pending"]

MayStart == app.pc = "idle" /\ budget.requests < MaxRequests

\* A device that is on line already is refused without a request.
IOT_Gateway_Subdev_Online(d) ==
  LET i == subdev_find_session(d) IN
  /\ MayStart
  /\ i # 0 => session_list[i].status # "ONLINE"
  /\ session_list' = IF i = 0 THEN subdev_add_session(d) ELSE session_list
  /\ Start("online", d, session_list'[IF i = 0 THEN 1 ELSE i].dev)
  /\ UNCHANGED <<bind_list, handler, server, requests, replies, last, unanswered>>

\* No session, or one that is off line already: no request.
IOT_Gateway_Subdev_Offline(d) ==
  LET i == subdev_find_session(d) IN
  /\ MayStart
  /\ i # 0 /\ session_list[i].status # "OFFLINE"
  /\ Start("offline", d, session_list[i].dev)
  /\ UNCHANGED <<session_list, bind_list, handler, server, requests, replies,
                 last, unanswered>>

\* IOT_Gateway_Subdev_Bind and IOT_Gateway_Subdev_Unbind
BindOrUnbind(kind, d) ==
  /\ MayStart
  /\ kind \in {"bind", "unbind"}
  /\ Start(kind, d, NoDevice)
  /\ UNCHANGED <<session_list, bind_list, handler, server, requests, replies,
                 last, unanswered>>

IOT_Gateway_Subdev_GetBindList ==
  /\ MayStart
  /\ bind_list' = <<>>
  /\ Start("describe_sub_devices", NoDevice, NoDevice)
  /\ UNCHANGED <<session_list, handler, server, requests, replies, last,
                 unanswered>>

Result == reply[app.kind].result

\* gateway_publish_sync: the result on entry, which is not the one just set if
\* a late reply has come in between.
EnterSync ==
  /\ app.pc = "enter"
  /\ app' = [app EXCEPT !.pc = "publish", !.res = Result]
  /\ UNCHANGED <<session_list, reply, bind_list, handler, server, requests,
                 replies, last, unanswered, budget>>

\* gateway_publish_sync: the publish is accepted by the MQTT client or not.
Publish(accepted) ==
  /\ app.pc = "publish"
  /\ IF accepted
     THEN /\ requests' = Append(requests, [kind |-> app.kind, dev |-> app.dev, n |-> app.n])
          /\ app' = [app EXCEPT !.pc = "wait"]
          /\ UNCHANGED budget
     ELSE /\ budget.losses < MaxLosses
          /\ budget' = [budget EXCEPT !.losses = @ + 1]
          /\ app' = [app EXCEPT !.pc = "failed"]
          /\ UNCHANGED requests
  /\ UNCHANGED <<session_list, reply, bind_list, handler, server, replies, last,
                 unanswered>>

\* gateway_publish_sync: one turn of the polling loop.  The call stops waiting
\* when the result is no longer the one on entry, by its own reply or not, or
\* after too many turns.
Poll ==
  /\ app.pc = "wait"
  /\ IF Result = app.res /\ app.loop_count <= GATEWAY_LOOP_MAX_COUNT
     THEN /\ app' = [app EXCEPT !.loop_count = @ + 1]
          /\ UNCHANGED unanswered
     ELSE /\ app' = [app EXCEPT !.pc = IF Result = app.res THEN "failed" ELSE "check"]
          /\ unanswered' =
               IF Result # app.res /\ reply[app.kind].from = app.n THEN unanswered
               ELSE unanswered \cup {[kind |-> app.kind, dev |-> app.dev, n |-> app.n]}
  /\ UNCHANGED <<session_list, reply, bind_list, handler, server, requests,
                 replies, last, budget>>

\* Mutant: any reply counts as success.
CheckNothing ==
  /\ app.pc = "check"
  /\ app' = [app EXCEPT !.pc = "done"]
  /\ UNCHANGED <<session_list, reply, bind_list, handler, server, requests,
                 replies, last, unanswered, budget>>

\* gateway_publish_sync: the result is read again after the loop.
CheckResult ==
  /\ app.pc = "check"
  /\ app' = [app EXCEPT !.pc = IF Result = "ok" THEN "done" ELSE "failed"]
  /\ UNCHANGED <<session_list, reply, bind_list, handler, server, requests,
                 replies, last, unanswered, budget>>

Return(rc, list) ==
  /\ last' = [kind |-> app.kind, dev |-> app.dev, n |-> app.n, rc |-> rc,
              from |-> reply[app.kind].from, list |-> list,
              sent |-> reply[app.kind].list]
  /\ app' = Idle

\* The call succeeded: mark the session the call found, or remove it; hand the
\* bind list over.
Done ==
  /\ app.pc = "done"
  /\ session_list' =
       CASE app.kind = "online" ->
              [i \in DOMAIN session_list |->
                 IF session_list[i].dev = app.session
                 THEN [session_list[i] EXCEPT !.status = "ONLINE"]
                 ELSE session_list[i]]
         [] app.kind = "offline" -> subdev_remove_session(app.dev)
         [] OTHER -> session_list
  /\ Return("ok", IF app.kind = "describe_sub_devices" THEN bind_list ELSE <<>>)
  /\ bind_list' = IF app.kind = "describe_sub_devices" THEN <<>> ELSE bind_list
  /\ UNCHANGED <<reply, handler, server, requests, replies, unanswered, budget>>

\* The call failed: a new session is removed ...
Undo ==
  /\ app.pc = "failed"
  /\ session_list' = IF app.kind = "online"
                     THEN subdev_remove_session(app.dev) ELSE session_list
  /\ app' = [app EXCEPT !.pc = "return"]
  /\ UNCHANGED <<reply, bind_list, handler, server, requests, replies, last,
                 unanswered, budget>>

\* ... and the call returns what the reply slot holds at that moment.
ReturnResult ==
  /\ app.pc = "return"
  /\ Return(Result, <<>>)
  /\ UNCHANGED <<session_list, reply, bind_list, handler, server, requests,
                 replies, unanswered, budget>>

----------------------------------------------------------------------------
\* The message handler

\* _gateway_message_handler: the result of an operation on one device.
HandleResult ==
  LET r == Head(replies) IN
  /\ replies # <<>> /\ handler = NoHandler
  /\ r.kind # "describe_sub_devices"
  /\ replies' = Tail(replies)
  /\ reply' = IF Matches(r.dev, reply[r.kind].client_id)
              THEN [reply EXCEPT ![r.kind].result = r.result, ![r.kind].from = r.n]
              ELSE reply
  /\ UNCHANGED <<session_list, bind_list, app, handler, server, requests, last,
                 unanswered, budget>>

\* _subdev_proc_get_bindlist: the devices are put in front of bind_list.
_subdev_proc_get_bindlist ==
  LET r == Head(replies) IN
  /\ replies # <<>> /\ handler = NoHandler
  /\ r.kind = "describe_sub_devices"
  /\ replies' = Tail(replies)
  /\ handler' = [n |-> r.n, list |-> r.list]
  /\ bind_list' = SetToSeq(r.list) \o bind_list
  /\ UNCHANGED <<session_list, reply, app, server, requests, last, unanswered,
                 budget>>

\* _gateway_message_handler: the result of the bind list.
BindListReady ==
  /\ handler # NoHandler
  /\ handler' = NoHandler
  /\ reply' = [reply EXCEPT !["describe_sub_devices"].result = "ok",
                            !["describe_sub_devices"].from = handler.n,
                            !["describe_sub_devices"].list = handler.list]
  /\ UNCHANGED <<session_list, bind_list, app, server, requests, replies, last,
                 unanswered, budget>>

----------------------------------------------------------------------------
\* The server and the network (external)

Answer(r, result, list) ==
  replies' = Append(replies, [kind |-> r.kind, dev |-> r.dev, n |-> r.n,
                              result |-> result, list |-> list])

ServerAccepts ==
  LET r == Head(requests) IN
  /\ requests # <<>>
  /\ requests' = Tail(requests)
  /\ server' = CASE r.kind = "online"  -> [server EXCEPT !.online = @ \cup {r.dev}]
                 [] r.kind = "offline" -> [server EXCEPT !.online = @ \ {r.dev}]
                 [] r.kind = "bind"    -> [server EXCEPT !.bound = @ \cup {r.dev}]
                 [] r.kind = "unbind"  -> [server EXCEPT !.bound = @ \ {r.dev}]
                 [] OTHER -> server
  /\ Answer(r, "ok", IF r.kind = "describe_sub_devices" THEN server.bound ELSE {})
  /\ UNCHANGED <<session_list, reply, bind_list, app, handler, last, unanswered,
                 budget>>

ServerRefuses ==
  LET r == Head(requests) IN
  /\ requests # <<>> /\ r.kind \in {"online", "bind"}
  /\ requests' = Tail(requests)
  /\ Answer(r, "refused", {})
  /\ UNCHANGED <<session_list, reply, bind_list, app, handler, server, last,
                 unanswered, budget>>

Lose ==
  /\ budget.losses < MaxLosses
  /\ budget' = [budget EXCEPT !.losses = @ + 1]
  /\ \/ requests # <<>> /\ requests' = Tail(requests) /\ UNCHANGED replies
     \/ replies # <<>> /\ replies' = Tail(replies) /\ UNCHANGED requests
  /\ UNCHANGED <<session_list, reply, bind_list, app, handler, server, last,
                 unanswered>>

Next ==
  \/ \E d \in Devices : \/ IOT_Gateway_Subdev_Online(d)
                        \/ IOT_Gateway_Subdev_Offline(d)
                        \/ \E k \in {"bind", "unbind"} : BindOrUnbind(k, d)
  \/ IOT_Gateway_Subdev_GetBindList
  \/ \E accepted \in BOOLEAN : Publish(accepted)
  \/ EnterSync \/ Poll \/ CheckResult \/ Done \/ Undo \/ ReturnResult
  \/ HandleResult \/ _subdev_proc_get_bindlist \/ BindListReady
  \/ ServerAccepts \/ ServerRefuses \/ Lose

Spec == Init /\ [][Next]_vars

----------------------------------------------------------------------------
\* The requests whose late reply may be taken for the one to the request of
\* `last': of its kind, for its name or a prefix of it, no longer waited for.
Strays == {u \in unanswered : u.kind = last.kind /\ Matches(u.dev, last.dev)}

\* A call that reports success was answered by the reply to its own request or
\* by a stray one, and a bind list handed over without strays is exactly the
\* list the server sent (gateway_common.c:177-240 compares kinds and names, not
\* requests; the loop thread builds the list while the application polls).
OutcomeIsOwn ==
  last.rc = "ok" =>
    /\ last.from = last.n \/ (\E u \in Strays : u.n = last.from)
    /\ last.kind = "describe_sub_devices" /\ Strays = {} =>
         /\ ToSet(last.list) = last.sent
         /\ Len(last.list) = Cardinality(last.sent)

\* Names that are not a proper prefix of another sub-device's name.
Unambiguous == {d \in Devices : \A e \in Devices : <<d, e>> \notin NamePrefixes}

\* A sub-device whose session is on line is on line at the server, unless an
\* offline request for it is under way or ended with its answer unseen (lost,
\* late, or unnoticed since a stray reply had set the same result before
\* gateway_common.c:415 read it), or an online request for a shorter name did,
\* whose late reply counts for this one too.
SessionAgrees ==
  \A i \in DOMAIN session_list :
    LET d == session_list[i].dev IN
    session_list[i].status = "ONLINE" /\ d \in Unambiguous =>
      \/ d \in server.online
      \/ app.pc # "idle" /\ app.kind = "offline" /\ app.dev = d
      \/ \E u \in unanswered : \/ u.kind = "offline" /\ u.dev = d
                               \/ u.kind = "online" /\ <<u.dev, d>> \in NamePrefixes

\* "Make sub-device offline ... QCLOUD_RET_SUCCESS for success"
\* (qcloud_iot_export_gateway.h:94-99): an offline call that succeeds leaves no
\* session of its sub-device and every session of the others.
OfflineClosesOwn ==
  [][last' # last /\ last'.kind = "offline" /\ last'.rc = "ok" /\ app.pc = "done" =>
       session_list' = SelectSeq(session_list, LAMBDA s : s.dev # last'.dev)]_vars
============================================================================
