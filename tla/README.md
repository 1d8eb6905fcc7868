# A verification project for the QCloud IoT embedded C SDK

This directory holds TLA+ models of the device SDK in `src/`, the TLC
configurations that check them and TLAPS proofs of their main invariants. The
MQTT client with its threads, the services built on it (shadow, gateway, log
upload), the CoAP client and the AT client with its ring buffer are modelled; the
inventory below says what else there is.

## 1. Inventory of the system

The SDK is a library linked into a device's firmware. One connection to the cloud
carries everything; a *yield* call, made by the application or by a loop thread of
the SDK, reads from it and runs all callbacks. With `MULTITHREAD_ENABLED`, other
threads publish, subscribe and unsubscribe meanwhile (docs:
`src/docs/C-SDK_MTMC多线程多设备支持.md`).

| component | state | operations | hard behaviour | what makes it correct |
|---|---|---|---|---|
| publish path (`mqtt_client_publish.c`, part of `_common.c`, `_yield.c`) | packet id counter, `list_pub_wait_ack`, mutexes `lock_write_buf`, `lock_list_pub` | publish, PUBACK, timeout pass | the pass drops its mutex in mid-iteration; failed sends remove nodes; handlers run under a mutex; ids wrap | no freed node is used but when a failing send and its timeout meet, ids of pending publishes differ, every publish is settled, none is dropped silently |
| mutexes (`lock_write_buf`, `lock_generic`, `lock_list_sub`, `lock_list_pub`) | their owners | every request, every packet, handlers that call back | handlers that run with a mutex held; a SUBACK takes a list under `lock_generic` | threads wait in no circle |
| subscribe path (`_subscribe.c`, `_unsubscribe.c`, part of `_common.c`, `_yield.c`) | `sub_handles`, `list_sub_wait_ack`, heap copies of filters | subscribe, unsubscribe, SUBACK, UNSUBACK, timeout pass, delivery, resubscription | filter copies change owners between list, table and calls; resubscription after every reconnect; full tables | each copy is freed once and not leaked, handlers are installed once, ready means subscribed |
| connection (`_connect.c`, `_yield.c`, `mqtt_client.c`) | `is_connected`, network handle, ping counter and timer, back-off interval and timer, loop thread flag | connect, ping, disconnect, reconnect, start and stop of the loop | silent links, attempts that half succeed, writers beside a disconnection, a stop that does not join | dead links are noticed, lost ones come back or are given up at the limit, events tell the truth |
| reception and duplicate filter (`_common.c`) | read buffer, ring of `MQTT_MAX_REPEAT_BUF_LEN` ids | read packet, deliver, PUBACK/PUBREC | partial reads, ids reused after a reconnect | every QoS 1 message is delivered at least once and acknowledged |
| packet encoding (`_common.c` and others) | none | serialize, deserialize, remaining length | lengths at byte boundaries | decode inverts encode |
| shadow (`services/shadow`) | request list, property list, one receive buffer, a mutex | update, get, register property, reply, expiry | reply before the request is listed, callbacks under the mutex | each request is answered once: reply or timeout |
| gateway (`services/gateway`) | sub-device sessions, one reply slot per kind | online, offline, bind, unbind (synchronous) | reply slot written by the loop thread and the caller | a session's state agrees with the last reply |
| OTA (`services/ota`) | upgrade state, sizes, checksum, fetch channel | report version, download, resume, check | failure in any state, resume after restart | firmware accepted only complete and with the right checksum |
| synchronous requests (system time, remote config, RRPC, broadcast) | flags set by callbacks | subscribe with retries, request, wait | late replies, one static buffer | a reply answers the request that waits |
| log upload (`services/log`) | log buffer, write index, saved log | append, upload in fragments, save | appends during an upload, failure between fragments | a line is uploaded or saved, not both lost |
| CoAP client (`protocol/coap`) | wait list with retransmission counts | send, ACK, response, retransmit | lost, duplicated, reordered datagrams | one outcome per request |
| AT client (`network/at_socket`) | response slot, semaphore, socket table, ring buffer | execute command, parser thread, URCs | a late answer meets the next command | an answer belongs to its command |
| HTTP, dynamic registration | response buffers | request, chunked read | boundaries of chunks and buffers | all bytes are read once |
| list, ring buffer (`utils`) | links; two indices | push, remove, iterate; push, pop | removal during iteration; full and empty | a sequence; a bounded queue |
| JSON, crypto, logging, platform layer, samples, mbedTLS | | | sequential code or thin wrappers | not modelled |

Interactions: services call publish and subscribe and get their answers in
callbacks on the yield thread; the yield thread calls connection, publish and
subscribe code in turn; all of them share `write_buf` (under `lock_write_buf`),
the subscription table (`lock_generic`, not everywhere) and the network handle
(no mutex).

`PROJECT.json` lists the components with their status, and under `hazards` the
places where this code is hard to test, each with the properties that cover it.

## 2. The modules

**MqttPubAck** (`MqttPubAckProofs` holds the proofs).
Threads inside `qcloud_iot_mqtt_publish` take `lock_write_buf`, draw a packet id,
push a node under `lock_list_pub`, send, and on failure remove the node. The
yield thread handles PUBACKs, reports them, and runs
`qcloud_iot_mqtt_pub_info_proc`: `ProcStart`, `ProcNext`, `ProcTimeout` follow its
iterator, the node it removes one round later and the window in which it has
released the mutex before it reports a timeout. A read that fails without a
disconnection (`ReadFails`) leaves yield before that pass. Nodes are named by the order of
their ids, so the list is a set of numbers (ids are drawn and pushed under one
hold of `lock_write_buf`). Event handlers may publish from both events. A send may
fail, and the countdown of a node end, at any moment: the two timers start together
and have the same length. `UsesFreed` holds when a thread is about to use a node that another one
has freed; `UseFreed` is that use, `undefined` records it and the behaviour ends,
since nothing can be said of the program from there on. Contents of messages are left out.

**MqttLocks** (its proof is in `MqttPubAckProofs`). The four mutexes of the client and every place that
takes or releases one, as tables of rows: publish, subscribe, unsubscribe,
disconnect, state queries, each packet, the two passes, ping, disconnection,
reconnection. A handler, wherever the client calls one, may make any
request (`Nest`); some run while the client holds a mutex for them. The mutexes are not
recursive (`HAL_OS_linux.c:39`). Results are left out: both branches of a test are
open.

**MqttSubscribe** (`MCMqttSubscribe` adds symmetry, `MqttSubscribeProofs` the
proofs). A request's number names its
packet id, its list node and its heap copy of the filter. `heap`, `bad_free` and
`Owners` follow who has to free it: the call, the wait list, a slot of
`sub_handles`. `Disconnect`, `Reconnect`, `ResubNext`, `ResubCopy` model the
resubscription, which reads the table without a mutex. The server answers in
order and starts every session empty. `ReadFails` leaves yield before the pass over the
list, as a read error or an ack that is an error does. The history variable `faults` records each
abnormal event (a failed or late failed send, a refusal, a late UNSUBACK, an
unsubscribe that overlaps other work on its filter, a full list or table), so
that a property can say exactly which one excuses it. QoS and user data are left
out; a topic matches its own filter; an event handler is installed.

**MqttConnection** (`MqttConnectionProofs` holds the proofs). `y_pc` walks through
`qcloud_iot_mqtt_yield`, `_handle_disconnect`, `_handle_reconnect` and the loop
thread around them; `rc` is the code that decides whether the thread goes on.
Timers are flags set by time. The link may go silent, down and
up. Keep alive is on (`keep_alive_interval` > 0). A writer stands for publish,
subscribe and unsubscribe, whose own work is in the other modules: it checks the
connection, waits for `lock_write_buf`, writes, whatever has become of the connection.
`IOT_MQTT_StopLoop` and `IOT_MQTT_SetLoopStatus` write the flag and wait for nobody;
`IOT_MQTT_StartLoop` tests nothing and may fail to create the thread;
`IOT_MQTT_Yield` tests only the flag. A second thread may therefore get into yield
beside the first (`SecondYield`). The behaviour is followed up to that call: from there two threads
work on timers, counters and the connection without a mutex. `faults` records it, and
a failed resubscription while it lasts. Reading and
handling a packet is one step: what matters is that it resets the ping counter
and may fail.

Not modelled in these parts: `IOT_MQTT_Destroy` (it frees the client one second
after the stop of the loop thread, although that thread may still be inside a
connection attempt), a client without an event handler (a refused SUBACK calls the handler
without the NULL check every other event has).

**MqttReceive** (`MqttReceiveProofs` holds the proofs). One action is one call of `cycle_for_read` on the stream of
packets: `HandlePublish` delivers, enters the id in the ring and writes the PUBACK;
`DiscardOversized` and `ReadTimeout` are the early returns of
`_read_mqtt_packet`; `Misread` is a call that starts inside a packet, whose
meaning is arbitrary. The server takes ids in turn, keeps a message until its
PUBACK, repeats it on a kept session, and starts a clean one with id 1. QoS 1
only, with `MQTT_RMDUP_MSG_ENABLED`. `excused` and `displaced` record the events
that excuse a loss or a duplicate; `displaced` is set by a PUBACK that could not be
written, by a misread that took a whole packet or a cell of the ring, and by a
message that was acknowledged as a duplicate of another session's id and is
delivered after all (`OutOfTurn`).

**UtilsRingbuff** and **BoundedFifo** (proofs in `AtClientProofs`). The ring buffer at the grain of the
consumer's assignments, because the interrupt that pushes may come between any
two of them. `Content` maps the slots between the two indices to a queue, and
`RingImplementsFifo` says that every step is one of `BoundedFifo`'s or none: a pop
advances `readpoint` before it reads the slot, which is safe only because a push
never fills the last slot. The `memset` of a flush (`utils_ringbuff.c:37`) is one step:
what it clears is already outside the queue.

**AtClient** (`MCAtClient` gives the data of the ring, `AtClientProofs` holds the
proofs) composes the ring buffer with the threads in `at_obj_exec_cmd`, the thread
`client_parser` and a modem. The stream carries tokens, not bytes: the text of an
answer, the end of a line, the prompt. `client->resp` is read again by each of the
parser's steps, as in the code, and may be NULL or another command's by then. `esp8266_send` resets the end sign after
`at_obj_exec_cmd` has released the lock, so `SendData` is a step of its own, and
another thread's CIPSEND may be waiting by then: `unsigned` records the commands
that lost their end sign this way. `got` records whose answer completed a command,
taken from the token that decided the outcome (`Decisive`, `Origin`).

**Shadow** (`ServiceProofs`). Application threads take a token (`ReadToken`, `WriteToken`: no
mutex), publish, then list the request (`AddRequest`), and wait in the `_Sync`
forms. The reading thread settles requests with a reply's token, and everything it
calls runs with the mutex held: the callbacks of requests, from a reply or an
expiry, and those of properties, from a delta or the answer to a GET. Each may make a
request itself. `recursive` is whether the platform's mutex allows that; where it does
not, the traversal stops at that callback and the thread waits for itself
(`SettleSome`, `mutex`). The internal callback of the `_Sync` forms makes none (`Waited`). `HandleExpired` is the pass of
`IOT_Shadow_Yield`. The request list is a set: it is only searched and swept as a
whole under the mutex, and its order decides nothing but the order of callbacks.

**CoapClient** (`CoapClientProofs`). Senders write a datagram under `lock_send_buf` before they list
the request. `IOT_COAP_Yield` is `Recv` (or a timeout, or an error, which skips the
rest), the handling of one datagram, and `ProcessWait`. Datagrams are sets: order
is lost, a datagram never taken is lost, and a copy may stay behind. The wait list
is a set for the same reason as the shadow's. Callbacks run with `lock_list_wait_ack` held
(`coap_client_message.c:58`) and send nothing in the model: one that does locks itself up.

**LogUpload** (`ServiceProofs`). The buffer is a function from positions to cells of
records; the moves, the clears and the indices are those of the code, one action per stretch
of `do_log_upload` between two points where another thread may append.
`dropped` and `twice` record what the code discards or repeats on purpose. A level
message may empty the buffer at any moment, since neither `_log_level_sub_cb` nor
`clear_upload_buffer` looks at an upload, and the upload itself lets packets be read
(it asks for the time over MQTT, `log_upload.c:269`). `disturbed` records that it did so under an upload
which had read its size (`SizeTaken`); the behaviour goes on.

**Gateway** (`MCGateway` gives the names, `GatewayProofs` holds the proofs). One application thread makes calls, the
message handler runs between any two of its steps. A reply slot per kind of call
holds a name and a result; `reply.from` records which request it answers. A call resets
its result (`Start`), `gateway_publish_sync` reads it (`EnterSync`, `res`) and waits until
it is different (`Poll`); a stray reply may fall between the two. `unanswered` records
the calls that stopped waiting without noticing their own reply. Names
are compared up to the length of one of them, so the model keeps the relation
"is a prefix of".

## 3. Runs

| run | checks | result |
|---|---|---|
| `publish` | 2 publishers, wait list of 2, 2 publishes beside any number of QoS 0, 3 ids, wrap from every start, sends and reads that fail, handlers that publish; safety and liveness | all hold, the use of a freed node tied to a late failed send |
| `locks` | 2 application threads, the yield thread, 4 mutexes, requests from every handler | holds, a circle only with a handler that requests under a mutex held for it |
| `sub_safety` | 2 applications, 2 filters, 2 slots, 3 calls, 1 reconnect, one fault of any kind | all hold, each exception tied to its fault |
| `sub_liveness` | requests leave the list, one slot for two filters, a wildcard | holds while passes are made |
| `conn` | link changes, writer, threads that start, stop and replace the loop; safety and liveness | all hold, up to a second yield |
| `receive` | 4 messages, window and ring of 2, 2 lost connections, one fault, kept and clean sessions | both hold, the exceptions recorded |
| `shadow` | 2 threads, list of 2, 2 requests, a registered property, a delta, callbacks that request, mutex recursive or not; safety and liveness | all hold |
| `at` | 2 threads, 2 commands of either kind, ring of 3, line buffer of 2, a stray line; a refinement | both hold |
| `coap` | 2 senders, 2 requests (one with a separate response), 1 retry, one duplicate or read error; safety and liveness | all hold |
| `log` | 4 records of 1 or 2 cells, buffer of 7, POST limit of 4, 2 faults, 1 restart, 1 level message at any moment | all hold until the message disturbs an upload |
| `gateway` | 2 sub-devices, one name a prefix of the other, 3 calls, 1 loss | both hold |
| `gateway_prefix` | taking a sub-device off line closes its session and no other | violated: another sub-device's session is removed |

The violated property states what the header of the gateway says; `findings` in
`PROJECT.json` quotes it.

What the passing properties say, in order of weight:

- `NodesLive`: publisher and yield thread never use a list node the other one
  freed, but for one whose failing send and timeout met; in particular the iterator's next
  node is alive in every other interleaving. `NoLockCycle`: no set of threads waits for itself,
  unless a handler made a request under a mutex its caller holds.
  `UniquePendingIds`: one PUBACK settles one publish, also across the wrap of the
  16-bit counter. `RemovedWhenSettled`, `AckedNeverTimesOut`.
- `FreedOnce`, `NoLeak`: ownership of filter copies over all paths.
  `ReadyIsSubscribed`: at rest, what `IOT_MQTT_IsSubReady` calls ready is
  subscribed at the server, also after reconnects. `NoDuplicateHandlers`,
  `SuccessExclusive`.
- `GivesUpLate` (the loop ends right after the attempt whose
  next delay exceeds the limit), `EventsAgree`;
  and the liveness properties `DeadLinkNoticed`, `Recovers`, `PendingSettled`,
  `RequestsSettled`. The last two presume that the pass over the list is made again
  and again: a read that fails skips it, and one that fails for ever, without a
  disconnection, leaves requests in the list for ever.
- `AckedIsDelivered`: at least once, unless the ring remembered the message's id
  from an earlier session or a misread packet, or a misread packet acknowledged it.
  `DeliveredOnce`: at most once as long as the ring is not shorter than the
  server's window, until a message is displaced.
- `CallbackOnce` of the shadow and of CoAP: one outcome per request;
  `WaiterSettled`: who waits in a synchronous shadow call was told, or its request is
  listed; `SyncReturns`, `Settled`: there is an outcome. `GivesUpLate` of CoAP:
  not before the last retransmission.
- `AnswersMatch`: a command is completed by its own answer until an earlier command
  times out or a CIPSEND up to it loses its end sign; after that perhaps by an
  earlier command's answer or by a line that is nobody's, never by a later one's. `RingImplementsFifo`.
- `NothingLost`, `NoDuplicate`, `WholeRecords`: what partial uploads, appends in
  between, saving and restarts do to log records; `MovesInRange`: the lengths of the
  moves do not wrap. All four until a level message empties the buffer under an upload.
- `OutcomeIsOwn`, `SessionAgrees`: a gateway call's success is its own reply, or
  that of an earlier call which stopped waiting; sessions agree with the server unless
  an offline call ended with its answer unseen.

Every property has a mutant in `PROJECT.json`, a plausible slip in the modelled
code that makes TLC report it.

Other behaviour met while modelling. Each of these is a state the models reach;
where a property would exclude it, the property names the exception.

- A send that fails after the timeout of its node makes `qcloud_iot_mqtt_publish` remove
  a node the yield thread is using or has freed (`mqtt_client_publish.c:370`).
- A handler that publishes on PUBLISH_TIMEOUT waits for ever: that event is
  reported with `lock_list_pub` held (`mqtt_client_yield.c:377`, below a comment that
  suggests to publish again). So does a request from the timeout of a subscription
  (`mqtt_client_yield.c:465` on), from UNSUBCRIBE_SUCCESS (`mqtt_client_common.c:1083`) and
  from the unsubscribe event of a message handler (`mqtt_client_unsubscribe.c:121`).
- Unsubscribing a filter with a wildcard
  removes the handlers of all filters (`mqtt_client_unsubscribe.c:118`).
- An UNSUBACK after its
  timeout frees an uninitialized pointer (`mqtt_client_common.c:1078`), and a
  resubscription may copy a filter another thread just freed
  (`mqtt_client_subscribe.c:205`).
- A thread that
  passed the connection check may write to a closed handle or before CONNECT
  (`mqtt_client_connect.c:466`), and the loop thread's exit code is taken from a
  variable its loop shadows (`mqtt_client.c:284`).
- Two threads can be inside `qcloud_iot_mqtt_yield`, against the comment at
  `mqtt_client.c:192`: `IOT_MQTT_StopLoop` clears the flag that `IOT_MQTT_Yield` tests before
  the loop thread has left, and `IOT_MQTT_StartLoop` tests nothing.
- `IOT_MQTT_StartLoop` leaves `thread_running` set when the thread could not be created;
  `IOT_MQTT_Yield` then only sleeps.
- A grant that finds the table full loses its filter copy and reports nothing, a
  refused resubscription leaves the filter "ready", a delivery may call a handler
  just unsubscribed, a last reconnect attempt that connects but cannot resubscribe
  may end the loop thread of a connected client.
- After a reconnect with a clean session, a message whose id is still in the ring
  is acknowledged and dropped. If the server repeats it and the id has left the ring
  by then, it is delivered out of turn, and a message that came in between may be
  delivered twice: its id is pushed out of the ring one message early (window and
  ring of 2, six messages, one lost connection, two repeats).
- A misread that swallows a repeated packet while the connection stays up leaves the
  server waiting for a PUBACK that later messages overtake: the packet comes again
  when its id has left the ring, and is delivered twice (five messages, two lost
  connections, three faults).
- `list_find` compares a `PropertyHandler` with a `DeviceProperty`, so a shadow
  property is never found: it can be registered twice and not be unregistered.
  A reply whose result cannot be parsed removes a request without a call, and a
  synchronous caller waits for ever.
- A shadow callback that makes a request waits for itself, with the shadow's mutex, on
  a platform whose mutexes are not recursive, and with it everybody who waits for a
  reply (`shadow_client_manager.c:537`, `:561`, `:334`).
- The first reply to an AT command that timed out may complete the next command; a
  CIPSEND that fails leaves the end sign set, and every later answer but a prompt
  is discarded. The parser reads `client->resp` again after its check
  (`at_client.c:600`): NULL or another command's, after a timeout or a semaphore post that was left over.
- A level message that empties the log buffer during an upload (`log_mqtt.c:77`): records appended afterwards are wiped
  by the next fragment's `memset` (`log_upload.c:327`), cut by a fragment whose size was
  chosen before, posted again, or moved with a length that wraps
  (`log_upload.c:686`); a POST may carry zeros or part of a record.
- A late offline reply for one sub-device that comes between the reset of the result
  and its reading on entry (`gateway_common.c:415`) makes the reply to the call itself, which is
  equal, unnoticed: the call times out, finds the result 0, returns success, and the session
  stays on line.
- `IOT_Gateway_Subdev_Online` that timed out reads the result again when it
  returns: a reply just then makes it return success with the session removed.

### Bounds

Two publishers and a list of two
let one publisher act in each window of the other and of the yield thread; the push
that fails needs no full list, memory may be short. Two publishes
and `MAX_PACKET_ID` = 3 put the wrap at every position; the thread they interleave with is
the yield thread, which publishes too. For subscriptions,
three calls with two filters and one reconnect reach install, replacement,
removal and resubscription in all orders (the safety run has no wildcard, since one
removes every handler); one injected fault at a time keeps the
cause of an exception unambiguous; the late ones (a failed send or an UNSUBACK after the
timeout) are not counted. The back-off limit is 4000 instead of 60000
milliseconds (it can be configured): the first delays 1000 and 1990
lead to three and to two attempts, so both sides of the boundary occur. Ping retries are 2 as
in the code. Two changes of the link give loss and recovery, or silence and loss.
For reception, a window and a ring of two with four messages reuse cells within a
session and ids across sessions; with `MaxId` = 5 ids do not wrap within a session,
as the theorems assume. A request list of two holds two
requests with one token. The AT line buffer of two tokens makes a
line too long, the ring of three full. One CoAP retry has a first, a last and a
retry too many. The log buffer holds three records and a POST two of them, so
uploads of one and of several fragments, full buffers and full storage occur. Three
gateway calls let a late reply meet the call after it; four were tried by hand (17
million states, no error). `GATEWAY_LOOP_MAX_COUNT` is 0: a longer wait adds only
repeated polls.

The mutex tables have no bound but one request at a time per handler.

The proofs show that the bounds do not matter for the safety properties of any
module, within the hypotheses of the theorems. That this is worth having showed twice: an earlier form of
`AnswersMatch` held with the two commands of the run and is false with three, and an
earlier form of `DeliveredOnce` held with the four messages of the run and is false
with five (section 4).

### Fairness

A thread inside the SDK keeps running, writes end (they carry timeouts), time
passes: weak fairness of their steps and of the timers. A read returns, but nothing is
assumed about its result. Strong fairness is
assumed for taking a mutex that is free again and again: the publisher's
`lock_list_pub`, because the yield thread blocks in a read between two passes and
sleeps between two yields, and for the yield thread's steps on `lock_write_buf`.
No fairness is assumed for the network, the server, the application's calls or a
reconnect: `PendingSettled` and `RequestsSettled` speak of the time the connection
lasts, `Recovers` allows the loop thread to give up. In the shadow and the CoAP
client the application keeps yielding and timers run out; replies and datagrams
need never arrive.

## 4. Proofs

Every safety property that a passing run checks is a theorem. TLAPS proves for every
value of the constants:

- `MqttPubAckProofs`: `TypeCorrect`, `PendingIdsUnique`, `Bounded`,
  `NothingDropped`, `AckIsFinal`, `NodeLifetime`, without a condition on sends or handlers;
  `LockOrder` (`NoLockCycle` of `MqttLocks`) for any number of threads.
- `MqttConnectionProofs`: `TypeCorrect`, `EventsCorrect`; `GivenUpLate` (`GivesUpLate`), from `PowersOfTwo`,
  an arithmetic fact that the provers neither know nor can derive: powers of two are
  natural numbers and double from one exponent to the next.
- `MqttReceiveProofs`: `AcksDelivered` (`AckedIsDelivered`), `DeliversOnce`
  (`DeliveredOnce`), if fewer messages are taken than there are packet ids
  (`MaxMessages < MaxId`, 65535 in the protocol).
- `MqttSubscribeProofs`: `FreesOnce`, `LosesNothing`, `InstallsOnce`,
  `GrantIsFinal`, `ReadyAtServer`, `StaysBounded` (types and the limit
  of the wait list).
- `AtClientProofs`: `RingRefinesFifo`, the ring buffer implements `BoundedFifo`;
  `ClientUsesRing`, the AT client uses it as that proof assumes, so the refinement
  holds inside the composition too; `AnswersOwn` (`AnswersMatch`).
- `CoapClientProofs`: `CalledBackOnce`, `GivenUpLate`.
- `ServiceProofs`: `CalledBackOnce`, `WaiterListed` (`WaiterSettled`) of the shadow; `LogsKept`
  (`NothingLost`), `LogsOnce` (`NoDuplicate`), `LogsWhole` (`WholeRecords`) and
  `MovesFit` (`MovesInRange`) of the log uploader, with level messages at any moment. The two services share no state; they
  are in one module only to keep the proof modules few.
- `GatewayProofs`: `OutcomesOwn`, `SessionsAgree`.

In each module these follow from an inductive invariant, a conjunction of named
parts that is proved first (`Invariance`; `RingInvariance` for the ring,
`LogInvariance` for the log uploader, which holds as long as no upload was disturbed). On the
instances of the runs TLC finds those invariants true as well.

Assumptions are the named ASSUMEs of the modules: thread names differ, bounds are
natural numbers, first delays lie within the limit, and in a behaviour of the
publish model not more ids are handed out than exist (`IdsAssumption`; reuse of
an id while its first publish still waits takes 65535 publishes within one
timeout). A ring has at least two slots (`SizeAssumption`), the ring of the AT
client carries its tokens (`TokenAssumption`), and no name is a proper prefix of
itself (`PrefixAssumption`). The header of the log buffer is not empty, every record
fits into one POST, and a POST is smaller than the buffer (`SizesAssumption` of
LogUpload; in `qcloud_iot_export_variables.h` 3000 and 5000 bytes). The
sets of threads, filters, sub-devices and requests need not be finite unless they are intervals by definition.

The argument for the publish path. Mutex ownership follows from the places of the
threads (`LockInv`); node n carries the n-th id (`IdInv`), so ids differ as long
as serials do; the node a publish works on is the newest and has no PUBACK
(`CallInv`); a node is marked exactly when it was acknowledged (`MarkInv`); the
iterator's next node is listed and below the current one (`IterInv`) although
the mutex is free in the window, because the only removal another thread can make
is of the newest node; the node in the window is the only one below which it
cannot look. `LiveInv`: a node whose publish is still sending or removing it is in the list
or was reported as timed out, and a node in the window is in the list or its send has
failed; both have a countdown that ended, which is the exception of `NodesLive`.

The argument for the mutexes. Each place determines which mutexes a thread
holds there (`Held`). Every row of the tables takes a mutex only where none of the same or
a higher rank is held, `lock_write_buf` before `lock_generic` before the two lists, and
releases one only where it is held (`TakesFact`, `GivesFact`, `MovesFact`); so
each owner is at a place that holds its mutex (`LocksInv`). In a set of threads that wait for
each other, the one that waits for a mutex of the highest rank waits for a thread that
holds it and waits for a higher one: only a request made under a mutex breaks the order.

The argument for the connection. Each place of the yield thread fixes the
connection state (`PlaceInv`). `EventInv`
adds the last event. For `GivenUpLate`, the interval is the first delay doubled
once per failed attempt, and the attempt before was made within the limit
(`DelayInv`); the return code RECONNECT_TIMEOUT, once set, lasts only as long as
there is no connection and the interval is over the limit (`TimeoutInv`).

The argument for reception. At least once needs only where things come from
(`SafeInv`): a packet on its way is one the server took in this session
(`PacketInv`), an id in the ring is that of a delivered message or a foreign one
(`RingInv`), a PUBACK on its way is for a message that was delivered or is excused
(`UpInv`). At most once is about order (`OnceInv`, under the conditions of the
property). PUBACKs, and the packets still to be read, come in the order of the ids
but for repetitions (`AckOrder`, `DownOrder`), so messages reach the application for
the first time in the order they were taken (`InOrder`), and whatever was delivered
after a message the server still keeps is also kept (`KeptInv`). The cells of this
session are the youngest of the ring and in the order of the ids (`AgeInv`); a
delivered message is in the ring, or the ring is full of later ones (`HeldInv`).
When a packet is read again, the later messages that can be in the ring are fewer
than the server's window (`WindowInv`, a cardinality), hence fewer than the cells:
its id is still there.

The argument for subscriptions. A filter copy has one owner at a time: `OwnInv` says
which copies slots and waiting requests own, `LeakInv` that every allocated one is
owned. `OpenInv` follows a request until its answer is handled: unsent, on its way,
or answered with the answer on its way, in one of these places only, not in the table
and not granted; so an ack finds the copy allocated, and `FreeInv` names the two late
events after which it may not. That the table agrees with the server (`TableInv`)
is not inductive over packets under way: it needs what the server will have once it
has handled them (`WillHave`), that a grant still to be installed is for such a
filter (`GrantInv`), and that an unsubscribe has its filter for itself (`AloneInv`).
`CountInv` bounds the numbers resubscriptions use up, which is what makes the range
of requests wide enough.

The argument for the ring buffer is arithmetic modulo its size: `Fill` is the distance
from `readpoint` to `writepoint`; a push that is not refused adds one to it and writes
a slot that is neither among the `Fill` slots of the queue nor the one under
`readpoint`, which a pop may still be about to read. Beside the types only one fact is
needed: a flush leaves `readpoint` at 0 until it ends.

The argument for the AT client. A command's number never exceeds that of the command
sent last (`AgeInv`, `HistInv`), so an answer that is not its own is an earlier one's.
Until the first timeout and the first lost end sign (`Clean`), every token that could
complete a command, wherever it is between modem and semaphore, belongs to the
command that holds the lock (`LiveClean`), there is none before the modem has taken
that command (`TodoClean`), and none follows the token that ends its answer
(`OrderClean`): when the parser posts, nothing is left for the next command
(`PostClean`).

The arguments for CoAP and shadow requests are alike. The number of calls of a
callback follows from the state of the request's node (`CallInv`): whatever is
listed and unmarked was not called back. A request in the hands of its sender is
listed by nobody (`SendInv`), and replies and datagrams belong to requests that were
made. For `WaiterListed`, a traversal that is cut short by a callback leaves the requests
behind it in the list.

The argument for the log uploader. At any moment the buffer is a header, the records
that are still to be posted or saved, a gap of cleared bytes, the records appended
since the upload began, and cleared bytes (`Layout`); `Lo` and `Hi`, the ends of the
gap, depend on where `do_log_upload` stands. `Filled` says that a range consists of
whole records, each once. It survives what the code does to ranges: a copy by any
distance (`FilledCopy`), a cut behind a delimiter (`FilledCut`), a join of two ranges
without a record in common (`FilledJoin`), a record appended. So does `Layout`, from
the first fragment moved off (`LayoutAdvance`) to the gap closed (`LayoutClose`). The
scan for delimiters stops at the gap because a fragment that was sent is cleared
behind the rest, and a fragment ends with a delimiter because the largest one below
the limit does. The saved log has no record in common with the buffer
(`StorageInv`), the copy of it being posted only records of the saved log (`CopyInv`).
What is in any of the three was not received yet, or there is a recorded reason
(`FreshInv`); what is in none was received or discarded (`KeptInv`).

The argument for the gateway. A request is under way at most once, as request, as
reply or in the handler, and no longer when its result is in a slot (`OnceInv`,
`OverInv`, `NewInv`); what is under way is what the call in progress waits for, or a
stray (`AwaitInv`). So the result in a slot is the call's own or a stray one
(`SlotInv`), and without strays the list under construction holds the devices of one
reply (`BindInv`). All sessions are on line but the one an online call has just added
(`SessionInv`); the server puts a sub-device off line only for a request that is the
offline call's in progress or a stray (`AgreeInv`), and a reply that reports a
sub-device on line is true, or an offline reply for it follows (`OnlineInv`). A result that
was there on entry stays while the call polls (`EntryInv`): a call that leaves the poll
because the result changed has seen a reply.

What the attempts showed about the models:

- `AnswersMatch` used to say that a foreign answer is that of a command that timed
  out. It can be the answer of one that did not: after one timeout all later answers
  are shifted by one. It takes three commands to see it. The property now names the
  cause, and the proof that nothing else can be the cause is what it is worth.
- The end sign used to be reset in the step that leaves `at_obj_exec_cmd`. The code
  resets it after the lock is free; as a step of its own it can hit another thread's
  CIPSEND, the second cause in `AnswersMatch`.
- `DeliveredOnce` used to name two exceptions: a PUBACK that could not be written and
  a misread packet in the ring. The window bound and the order of first deliveries
  could not be proved, and TLC found why with more messages than the run has: the two
  behaviours of section 3, a misread that swallows a repeated packet and a message
  delivered out of turn. They are exceptions now, and the proof shows that there are
  no others.
- One CASE of LogUpload had overlapping arms, of which TLC took the first.
- The order in the lists of CoAP and shadow requests plays no part in any argument.

Only model-checked:

- all liveness properties, which need fairness and ENABLED;
- `gateway_prefix`, a violation.

## 5. Plan

Extensions that remain: the OTA client (upgrade states, resume, checksum, the
32-bit progress), the synchronous requests of the system time, remote
configuration and RRPC services (the reply-slot pattern of the gateway; RRPC keeps
one static process id, so a second request before the first reply redirects it),
reading of HTTP responses.

## 6. Not modelled

OTA, the synchronous MQTT requests, HTTP and dynamic registration: see the plan.
Packet encoding: no state and no concurrency. JSON, crypto, text and logging
utilities, the platform layer, samples and the vendored mbedTLS (most of the
repository's lines): sequential computations, thin wrappers or not the SDK's own
code. Construction and destruction of clients beyond the initial states they
give. The AT client without an operating system, its socket table and URC handlers
that read data. CoAP authentication. Clock arithmetic of timers: a timer may expire
at any moment after its start. Allocation failures, except where a code path shows
one as an ordinary result.
