--------------------------- MODULE GatewayProofs ----------------------------
(* The gateway client for any set of sub-devices, any relation between their *)
(* names and any number of calls and losses: a call's success is the answer  *)
(* to its own request or to a stray one, a bind list without strays is the   *)
(* server's (OutcomeIsOwn), and sessions agree with the server               *)
(* (SessionAgrees).                                                          *)
(*                                                                           *)
(* The argument. A request is under way at most once, as request, as reply   *)
(* or in the handler, and no longer when its result is in a slot (OnceInv,   *)
(* OverInv, NewInv); whatever is under way is what the call in progress      *)
(* waits for, or its call has stopped waiting and it is a stray (AwaitInv).  *)
(* So the result a slot holds is the call's own or a stray one (SlotInv),    *)
(* and without strays the list under construction holds one reply's devices  *)
(* (BindInv). All sessions are on line but the one an online call has just   *)
(* added (SessionInv); the server puts a sub-device off line only for a      *)
(* request that is the offline call's in progress or a stray (AgreeInv), and *)
(* a reply that reports a sub-device on line is true, or an offline reply    *)
(* for it follows (OnlineInv).                                               *)
EXTENDS Gateway, FiniteSetTheorems, TLAPS

-----------------------------------------------------------------------------
(* Types.                                                                    *)

Names    == Devices \cup {NoDevice}
Requests == [kind : Kinds, dev : Names, n : Nat]
Replies  == [kind : Kinds, dev : Names, n : Nat, result : {"ok", "refused"},
             list : SUBSET Names]
Sessions == [dev : Names, status : {"INIT", "ONLINE"}]
Slots    == [client_id : Names, result : {"ok", "refused", "pending"}, from : Nat,
             list : SUBSET Names]
Calls    == [pc : {"idle", "enter", "publish", "wait", "check", "done", "failed", "return"},
             kind : Kinds, dev : Names, n : Nat, loop_count : Nat, session : Names,
             res : {"ok", "refused", "pending"}]

TypeOK ==
  /\ session_list \in Seq(Sessions)
  /\ reply \in [Kinds -> Slots]
  /\ app \in Calls
  /\ handler \in [n : Nat, list : SUBSET Names]
  /\ server \in [online : SUBSET Names, bound : SUBSET Names]
  /\ requests \in Seq(Requests) /\ replies \in Seq(Replies)
  /\ unanswered \subseteq Requests
  /\ budget \in [requests : Nat, losses : Nat]

(* The call in progress has named the slot its reply will be written to.     *)
CallInv ==
  app.pc # "idle" =>
    /\ reply[app.kind].client_id = app.dev
    /\ app.kind = "describe_sub_devices" => app.dev = NoDevice

(* A bind list is asked for without a name and is never refused; nor is an   *)
(* offline request.                                                          *)
KindInv ==
  /\ \A i \in DOMAIN requests :
       requests[i].kind = "describe_sub_devices" => requests[i].dev = NoDevice
  /\ \A i \in DOMAIN replies :
       replies[i].kind = "describe_sub_devices" => replies[i].dev = NoDevice
  /\ \A i \in DOMAIN replies :
       replies[i].kind \in {"offline", "describe_sub_devices"} => replies[i].result = "ok"
  /\ reply["offline"].result # "refused" /\ reply["describe_sub_devices"].result # "refused"
  /\ \A u \in unanswered : u.kind = "describe_sub_devices" => u.dev = NoDevice
  /\ last.kind = "describe_sub_devices" => last.dev = NoDevice
  /\ handler.n = 0 => handler = NoHandler

(* Requests are numbered; a request is under way at most once, as request,   *)
(* as reply or in the handler ...                                            *)
BoundInv ==
  /\ \A i \in DOMAIN requests : requests[i].n \in 1..budget.requests
  /\ \A i \in DOMAIN replies : replies[i].n \in 1..budget.requests
  /\ handler.n <= budget.requests
  /\ app.pc # "idle" => app.n \in 1..budget.requests
  /\ \A k \in Kinds : reply[k].from <= budget.requests

OnceInv ==
  /\ \A i, j \in DOMAIN requests : i # j => requests[i].n # requests[j].n
  /\ \A i, j \in DOMAIN replies : i # j => replies[i].n # replies[j].n
  /\ \A i \in DOMAIN requests, j \in DOMAIN replies : requests[i].n # replies[j].n
  /\ \A i \in DOMAIN requests : requests[i].n # handler.n
  /\ \A i \in DOMAIN replies : replies[i].n # handler.n

(* ... not any more when its result is in a slot ...                         *)
OverInv ==
  \A k \in Kinds : /\ \A i \in DOMAIN requests : requests[i].n # reply[k].from
                   /\ \A i \in DOMAIN replies : replies[i].n # reply[k].from
                   /\ handler.n # 0 => handler.n # reply[k].from

(* ... and not yet before it is published.                                   *)
NewInv ==
  app.pc \in {"enter", "publish"} => /\ \A i \in DOMAIN requests : requests[i].n # app.n
                                     /\ \A i \in DOMAIN replies : replies[i].n # app.n
                                     /\ handler.n # app.n
                                     /\ \A k \in Kinds : reply[k].from # app.n

(* Whoever made a request that is under way waits for it or has given up.    *)
Stray(kind, dev, n) == \E u \in unanswered : u.kind = kind /\ u.dev = dev /\ u.n = n
Awaited(kind, dev, n) ==
  \/ app.pc = "wait" /\ app.kind = kind /\ app.dev = dev /\ app.n = n
  \/ Stray(kind, dev, n)

AwaitInv ==
  /\ \A i \in DOMAIN requests : Awaited(requests[i].kind, requests[i].dev, requests[i].n)
  /\ \A i \in DOMAIN replies : Awaited(replies[i].kind, replies[i].dev, replies[i].n)
  /\ handler.n # 0 => Awaited("describe_sub_devices", NoDevice, handler.n)

(* The result in the slot of the call is its own or a stray one.             *)
Own(kind, dev, n, from) ==
  from = n \/ \E u \in unanswered : u.kind = kind /\ Matches(u.dev, dev) /\ u.n = from

SlotInv ==
  app.pc # "idle" =>
    /\ reply[app.kind].result # "pending" => Own(app.kind, app.dev, app.n, reply[app.kind].from)
    /\ app.pc \in {"check", "done"} => reply[app.kind].result # "pending"
    /\ reply[app.kind].from = app.n => reply[app.kind].result # "pending"

LastInv == last.rc = "ok" => Own(last.kind, last.dev, last.n, last.from)

(* The bind list.                                                            *)
NoStray == \A u \in unanswered : u.kind # "describe_sub_devices"
Listing == app.pc # "idle" /\ app.kind = "describe_sub_devices"
Listed == reply["describe_sub_devices"]

FiniteInv ==
  /\ IsFiniteSet(server.bound) /\ IsFiniteSet(handler.list) /\ IsFiniteSet(Listed.list)
  /\ \A i \in DOMAIN replies : IsFiniteSet(replies[i].list)

BindInv ==
  NoStray /\ Listing =>
    /\ handler = NoHandler /\ Listed.result = "pending" => bind_list = <<>>
    /\ handler # NoHandler => bind_list = SetToSeq(handler.list)
    /\ Listed.result # "pending" => handler = NoHandler /\ bind_list = SetToSeq(Listed.list)
    /\ app.pc \in {"failed", "return"} => Listed.result = "pending"

HandInv ==
  last.rc = "ok" /\ last.kind = "describe_sub_devices" /\ NoStray =>
    ToSet(last.list) = last.sent /\ Len(last.list) = Cardinality(last.sent)

(* The sessions. All are on line but the one an online call has added.       *)
Adding == app.kind = "online" /\ app.pc \notin {"idle", "return"}
SessionInv ==
  /\ \A i, j \in DOMAIN session_list : i # j => session_list[i].dev # session_list[j].dev
  /\ ~Adding => \A i \in DOMAIN session_list : session_list[i].status = "ONLINE"
  /\ Adding => /\ session_list # <<>>
               /\ session_list[1].dev = app.dev /\ app.session = app.dev
               /\ session_list[1].status = "INIT"
               /\ \A i \in DOMAIN session_list : i # 1 => session_list[i].status = "ONLINE"

(* A sub-device is on line at the server, or a request that explains why not *)
(* has ended without its answer.                                             *)
Solid(d) ==
  \/ d \in server.online
  \/ \E u \in unanswered : \/ u.kind = "offline" /\ u.dev = d
                           \/ u.kind = "online" /\ <<u.dev, d>> \in NamePrefixes

Closing(d) == app.kind = "offline" /\ app.dev = d /\ app.pc \in {"wait", "check", "done"}

AgreeInv ==
  \A i \in DOMAIN session_list :
    session_list[i].status = "ONLINE" /\ session_list[i].dev \in Unambiguous =>
      Solid(session_list[i].dev) \/ Closing(session_list[i].dev)

OnlineInv ==
  /\ Adding /\ (reply["online"].result = "ok" \/ app.pc = "done") => Solid(app.dev)
  /\ \A i \in DOMAIN replies :
       replies[i].kind = "online" /\ replies[i].result = "ok" =>
         \/ Solid(replies[i].dev)
         \/ \E j \in DOMAIN replies :
              j > i /\ replies[j].kind = "offline" /\ replies[j].dev = replies[i].dev

(* A result that was there on entry is not taken back while the call polls.  *)
EntryInv ==
  app.pc # "idle" /\ app.res # "pending" => reply[app.kind].result # "pending"

CoreInv ==
  /\ TypeOK /\ CallInv /\ KindInv /\ BoundInv /\ OnceInv /\ OverInv /\ NewInv
  /\ AwaitInv /\ SlotInv /\ LastInv /\ FiniteInv /\ BindInv /\ HandInv
  /\ SessionInv /\ AgreeInv /\ OnlineInv

IInv == CoreInv /\ EntryInv

-----------------------------------------------------------------------------
(* Sessions, found and removed.                                              *)

(* Some of the numbers 1 to N have a least one.                              *)
LEMMA LeastIs ==
  ASSUME NEW N \in Nat, NEW S \in SUBSET (1..N), S # {}
  PROVE  Min(S) \in S /\ \A j \in S : Min(S) <= j
<1> DEFINE Below == {1..i : i \in S}
<1>1. IsFiniteSet(1..N)
  BY FS_Interval
<1>2. Below \subseteq FiniteSubsetsOf(1..N) /\ Below # {}
  <2>1. FiniteSubsetsOf(1..N) = SUBSET (1..N)
    BY <1>1, FS_FiniteSubsetsOfFinite
  <2>2. \A i \in S : 1..i \in SUBSET (1..N)
    OBVIOUS
  <2>3. PICK i \in S : TRUE
    OBVIOUS
  <2>4. 1..i \in Below
    BY Zenon
  <2>5. \A b \in Below : b \in SUBSET (1..N)
    BY <2>2
  <2> QED
    BY <2>1, <2>4, <2>5
<1>3. PICK b \in Below : \A c \in Below : ~(<<c, b>> \in StrictSubsetOrdering(1..N))
  BY <1>2, FS_StrictSubsetOrderingWellFounded, WFMin
<1>4. PICK i \in S : b = 1..i
  OBVIOUS
<1>5. ASSUME NEW j \in S, j < i PROVE FALSE
  <2>1. 1..j \in Below /\ 1..j \subseteq b /\ i \in b /\ i \notin 1..j /\ b \subseteq 1..N
    BY <1>4, <1>5
  <2> QED
    BY <1>3, <2>1 DEF StrictSubsetOrdering
<1>6. \A j \in S : i <= j
  BY <1>5
<1> QED
  BY <1>6 DEF Min

(* subdev_find_session finds the first session whose name starts with d.     *)
LEMMA FindIs ==
  ASSUME TypeOK, NEW d
  PROVE  /\ subdev_find_session(d) # 0 =>
              /\ subdev_find_session(d) \in DOMAIN session_list
              /\ Matches(d, session_list[subdev_find_session(d)].dev)
              /\ \A j \in DOMAIN session_list :
                   Matches(d, session_list[j].dev) => subdev_find_session(d) <= j
         /\ subdev_find_session(d) = 0 =>
              \A j \in DOMAIN session_list : ~Matches(d, session_list[j].dev)
<1> DEFINE I == {i \in 1..Len(session_list) : Matches(d, session_list[i].dev)}
<1>1. subdev_find_session(d) = IF I # {} THEN Min(I) ELSE 0
  BY DEF subdev_find_session, SelectInSeq
<1>2. /\ Len(session_list) \in Nat /\ DOMAIN session_list = 1..Len(session_list)
      /\ I \in SUBSET (1..Len(session_list))
  BY DEF TypeOK
<1> HIDE DEF I
<1>3. I # {} => Min(I) \in I /\ \A j \in I : Min(I) <= j
  BY <1>2, LeastIs
<1> QED
  BY <1>1, <1>2, <1>3 DEF I

(* A sequence without its element i.                                         *)
LEMMA RemoveAtIs ==
  ASSUME NEW S, NEW s \in Seq(S), NEW i \in DOMAIN s
  PROVE  /\ RemoveAt(s, i) \in Seq(S)
         /\ \A k \in DOMAIN RemoveAt(s, i) :
              /\ k \in Int /\ k \in DOMAIN s /\ k + 1 \in DOMAIN s
              /\ k < i => RemoveAt(s, i)[k] = s[k]
              /\ k >= i => RemoveAt(s, i)[k] = s[k + 1]
<1>0. i \in Int /\ i >= 1 /\ i <= Len(s) /\ Len(s) \in Nat /\ DOMAIN s = 1..Len(s)
  OBVIOUS
<1>1. PICK a : a = SubSeq(s, 1, i - 1)
  OBVIOUS
<1>2. PICK b : b = SubSeq(s, i + 1, Len(s))
  OBVIOUS
<1>3. a \in Seq(S) /\ Len(a) = i - 1 /\ \A k \in 1..(i - 1) : a[k] = s[k]
  BY <1>0, <1>1
<1>4. b \in Seq(S) /\ Len(b) = Len(s) - i /\ \A k \in 1..(Len(s) - i) : b[k] = s[k + i]
  BY <1>0, <1>2
<1>5. RemoveAt(s, i) = a \o b
  BY <1>1, <1>2 DEF RemoveAt
<1>6. a \o b \in Seq(S) /\ DOMAIN (a \o b) = 1..(Len(s) - 1)
  <2>1. a \in Seq(S) /\ b \in Seq(S)
    BY <1>3, <1>4
  <2>2. a \o b \in Seq(S) /\ Len(a \o b) = Len(a) + Len(b)
    BY <2>1
  <2>3. Len(a) + Len(b) = Len(s) - 1
    BY <1>0, <1>3, <1>4
  <2> QED
    BY <2>2, <2>3
<1>7. ASSUME NEW k \in 1..(Len(s) - 1), k < i PROVE (a \o b)[k] = s[k]
  BY <1>0, <1>3, <1>4, <1>7
<1>8. ASSUME NEW k \in 1..(Len(s) - 1), k >= i PROVE (a \o b)[k] = s[k + 1]
  <2>1. (a \o b)[k] = b[k - (i - 1)]
    <3>1. a \in Seq(S) /\ b \in Seq(S) /\ Len(a) = i - 1 /\ Len(b) = Len(s) - i
      BY <1>3, <1>4
    <3>2. k \in Int /\ k > Len(a) /\ k <= Len(a) + Len(b)
      BY <1>0, <1>8, <3>1
    <3>3. (a \o b)[k] = b[k - Len(a)]
      BY SMTT(30), <3>1, <3>2
    <3> QED
      BY <3>1, <3>3
  <2>2. k - (i - 1) \in 1..(Len(s) - i) /\ k - (i - 1) + i = k + 1
    BY <1>0, <1>8
  <2>3. b[k - (i - 1)] = s[k - (i - 1) + i]
    BY <1>4, <2>2
  <2> QED
    BY <2>1, <2>2, <2>3
<1>9. \A k \in 1..(Len(s) - 1) : k \in Int /\ k \in 1..Len(s) /\ k + 1 \in 1..Len(s)
  BY <1>0
<1> QED
  BY <1>0, <1>5, <1>6, <1>7, <1>8, <1>9

(* What subdev_remove_session leaves are the sessions of before but for the  *)
(* one subdev_find_session finds.                                            *)
LEMMA RemoveIs ==
  ASSUME TypeOK, NEW d, NEW i \in DOMAIN session_list, i = subdev_find_session(d)
  PROVE  /\ i \in Int /\ i >= 1
         /\ subdev_remove_session(d) \in Seq(Sessions)
         /\ \A k \in DOMAIN subdev_remove_session(d) :
              /\ k \in Int /\ k \in DOMAIN session_list /\ k + 1 \in DOMAIN session_list
              /\ k < i => subdev_remove_session(d)[k] = session_list[k]
              /\ k >= i => subdev_remove_session(d)[k] = session_list[k + 1]
<1>1. i \in Int /\ i >= 1 /\ session_list \in Seq(Sessions)
  BY DEF TypeOK
<1>2. subdev_remove_session(d) = RemoveAt(session_list, i)
  BY <1>1 DEF subdev_remove_session
<1> QED
  BY <1>1, <1>2, RemoveAtIs

(* A sequence without its head.                                              *)
LEMMA TailIs ==
  ASSUME NEW S, NEW s \in Seq(S), s # <<>>
  PROVE  /\ Tail(s) \in Seq(S) /\ Head(s) \in S /\ 1 \in DOMAIN s /\ Head(s) = s[1]
         /\ \A i \in DOMAIN Tail(s) :
              i \in Int /\ i >= 1 /\ i + 1 \in DOMAIN s /\ Tail(s)[i] = s[i + 1]
         /\ \A i \in DOMAIN s :
              i \in Int /\ i >= 1 /\ (i # 1 => i - 1 \in DOMAIN Tail(s) /\ Tail(s)[i - 1] = s[i])
<1>1. Len(s) \in Nat /\ Len(s) >= 1 /\ DOMAIN s = 1..Len(s)
  OBVIOUS
<1>2. /\ Tail(s) \in Seq(S) /\ Head(s) \in S /\ Head(s) = s[1]
      /\ DOMAIN Tail(s) = 1..(Len(s) - 1)
  BY <1>1
<1>3. \A i \in 1..(Len(s) - 1) : Tail(s)[i] = s[i + 1]
  BY <1>1
<1> QED
  BY <1>1, <1>2, <1>3

(* A sequence with one element more.                                         *)
LEMMA AppendIs ==
  ASSUME NEW S, NEW s \in Seq(S), NEW e \in S
  PROVE  \E n \in DOMAIN Append(s, e) :
           /\ Append(s, e) \in Seq(S) /\ n \notin DOMAIN s /\ Append(s, e)[n] = e
           /\ n \in Int
           /\ \A i \in DOMAIN s :
                i \in Int /\ i < n /\ i \in DOMAIN Append(s, e) /\ Append(s, e)[i] = s[i]
           /\ \A i \in DOMAIN Append(s, e) :
                i = n \/ (i \in DOMAIN s /\ Append(s, e)[i] = s[i])
<1>1. Len(s) \in Nat /\ DOMAIN s = 1..Len(s)
  OBVIOUS
<1>2. Append(s, e) \in Seq(S) /\ DOMAIN Append(s, e) = 1..(Len(s) + 1)
  BY <1>1
<1>3. Append(s, e)[Len(s) + 1] = e /\ \A i \in 1..Len(s) : Append(s, e)[i] = s[i]
  BY <1>1
<1>4. Len(s) + 1 \in 1..(Len(s) + 1) /\ Len(s) + 1 \notin 1..Len(s) /\ Len(s) + 1 \in Int
  BY <1>1
<1>5. \A i \in 1..Len(s) : i \in Int /\ i < Len(s) + 1 /\ i \in 1..(Len(s) + 1)
  BY <1>1
<1>6. \A i \in 1..(Len(s) + 1) : i = Len(s) + 1 \/ i \in 1..Len(s)
  BY <1>1
<1>7. PICK n : n = Len(s) + 1
  OBVIOUS
<1> QED
  BY <1>1, <1>2, <1>3, <1>4, <1>5, <1>6, <1>7

(* The devices of a finite set, in some order: each once.                    *)
LEMMA SetToSeqIs ==
  ASSUME NEW S, IsFiniteSet(S)
  PROVE  /\ SetToSeq(S) \in Seq(S)
         /\ ToSet(SetToSeq(S)) = S
         /\ Len(SetToSeq(S)) = Cardinality(S)
<1>1. PICK n \in Nat : n = Cardinality(S)
  BY FS_CardinalityType
<1>2. PICK g \in [1..n -> S] : IsInjective(g)
  BY <1>1, FS_CardinalityType DEF ExistsBijection, Bijection, Injection
<1>3. PICK f : f = SetToSeq(S)
  OBVIOUS
<1>4. f \in [1..n -> S] /\ IsInjective(f)
  <2>1. f = CHOOSE h \in [1..n -> S] : IsInjective(h)
    BY <1>1, <1>3 DEF SetToSeq
  <2> QED
    BY <1>2, <2>1
<1>5. f \in Injection(1..n, S)
  BY <1>4 DEF Injection
<1>6. Cardinality(1..n) = n
  BY <1>1, FS_Interval
<1>7. f \in Surjection(1..n, S)
  BY <1>1, <1>5, <1>6, FS_Injection
<1>8. \A t \in S : \E i \in 1..n : f[i] = t
  BY <1>7 DEF Surjection
<1>9. ToSet(f) = S
  BY <1>4, <1>8 DEF ToSet
<1>10. f \in Seq(S) /\ Len(f) = n
  BY <1>4
<1> QED
  BY <1>1, <1>3, <1>9, <1>10

-----------------------------------------------------------------------------
(* The calls.                                                                *)

(* The common part of the calls: what it writes.                             *)
LEMMA StartIs ==
  ASSUME TypeOK, NEW k \in Kinds, NEW d \in Names, NEW s \in Names, Start(k, d, s), MayStart
  PROVE  /\ app.pc = "idle" /\ app' \in Calls
         /\ app'.pc = "enter" /\ app'.kind = k /\ app'.dev = d
         /\ app'.n = budget.requests + 1
         /\ app'.session = s /\ app'.res = "pending"
         /\ reply' \in [Kinds -> Slots]
         /\ \A j \in Kinds : reply'[j].from = reply[j].from /\ reply'[j].list = reply[j].list
         /\ \A j \in Kinds : j # k => reply'[j] = reply[j]
         /\ reply'[k].client_id = d /\ reply'[k].result = "pending"
         /\ budget' \in [requests : Nat, losses : Nat]
         /\ budget'.requests = budget.requests + 1
         /\ budget.requests \in Nat
<1>1. app.pc = "idle"
  BY DEF MayStart
<1>2. /\ budget' \in [requests : Nat, losses : Nat]
      /\ budget'.requests = budget.requests + 1 /\ budget.requests \in Nat
  <2>1. budget \in [requests : Nat, losses : Nat]
    BY DEF TypeOK
  <2>2. budget' = [budget EXCEPT !.requests = @ + 1]
    BY DEF Start
  <2> QED
    BY <2>1, <2>2
<1>3. app' = [pc |-> "enter", kind |-> k, dev |-> d, n |-> budget.requests + 1,
              loop_count |-> 0, session |-> s, res |-> "pending"]
  BY DEF Start
<1>4. app' \in Calls
  BY <1>2, <1>3 DEF Calls
<1>5. reply' = [reply EXCEPT ![k] = [reply[k] EXCEPT !.client_id = d, !.result = "pending"]]
  BY DEF Start, TypeOK
<1>6. PICK e : e = [reply[k] EXCEPT !.client_id = d, !.result = "pending"]
  OBVIOUS
<1>7. reply[k] \in Slots
  BY DEF TypeOK
<1>8. /\ e \in Slots /\ e.client_id = d /\ e.result = "pending" /\ e.from = reply[k].from
      /\ e.list = reply[k].list
  BY <1>6, <1>7 DEF Slots
<1>9. reply' = [reply EXCEPT ![k] = e]
  BY <1>5, <1>6
<1> QED
  BY <1>1, <1>2, <1>3, <1>4, <1>8, <1>9 DEF TypeOK

(* Nothing under way is of the new request, and its slot is pending.         *)
LEMMA StartStep ==
  ASSUME CoreInv, NEW k \in Kinds, NEW d \in Names, NEW s \in Names, MayStart, Start(k, d, s),
         UNCHANGED <<handler, server, requests, replies, last, unanswered>>,
         session_list' \in Seq(Sessions),
         k = "describe_sub_devices" => bind_list' = <<>> /\ d = NoDevice
  PROVE  /\ TypeOK' /\ CallInv' /\ KindInv' /\ BoundInv' /\ OnceInv' /\ OverInv' /\ NewInv'
         /\ AwaitInv' /\ SlotInv' /\ LastInv' /\ FiniteInv' /\ BindInv' /\ HandInv'
<1>s. /\ TypeOK /\ CallInv /\ KindInv /\ BoundInv /\ OnceInv /\ OverInv /\ NewInv
      /\ AwaitInv /\ SlotInv /\ LastInv /\ FiniteInv /\ BindInv /\ HandInv
      /\ SessionInv /\ AgreeInv /\ OnlineInv
  BY DEF CoreInv
<1>a. /\ app.pc = "idle" /\ app' \in Calls
      /\ app'.pc = "enter" /\ app'.kind = k /\ app'.dev = d
      /\ app'.n = budget.requests + 1
      /\ app'.session = s
      /\ reply' \in [Kinds -> Slots]
      /\ \A j \in Kinds : reply'[j].from = reply[j].from /\ reply'[j].list = reply[j].list
      /\ \A j \in Kinds : j # k => reply'[j] = reply[j]
      /\ reply'[k].client_id = d /\ reply'[k].result = "pending"
      /\ budget' \in [requests : Nat, losses : Nat]
      /\ budget'.requests = budget.requests + 1
      /\ budget.requests \in Nat
  BY <1>s, StartIs
<1>u. UNCHANGED <<handler, server, requests, replies, last, unanswered>>
  OBVIOUS
<1>q. requests \in Seq(Requests) /\ replies \in Seq(Replies)
  BY <1>s DEF TypeOK
<1>t. /\ \A i \in DOMAIN requests : requests[i].n \in Nat
      /\ \A i \in DOMAIN replies : replies[i].n \in Nat
      /\ handler.n \in Nat /\ \A j \in Kinds : reply[j].from \in Nat
  <2>1. \A i \in DOMAIN requests : requests[i] \in Requests
    BY <1>q
  <2>2. \A i \in DOMAIN replies : replies[i] \in Replies
    BY <1>q
  <2>3. handler.n \in Nat /\ \A j \in Kinds : reply[j] \in Slots
    BY <1>s DEF TypeOK
  <2> QED
    BY <2>1, <2>2, <2>3 DEF Requests, Replies, Slots
<1>k. "describe_sub_devices" \in Kinds /\ "offline" \in Kinds /\ "online" \in Kinds
  BY DEF Kinds
<1>n. handler.n # 0 => ~NoStray
  BY <1>s, <1>a DEF AwaitInv, Awaited, Stray, NoStray
<1>1. TypeOK'
  BY <1>s, <1>a, <1>u DEF TypeOK
<1>2. CallInv'
  BY <1>s, <1>a, <1>u, <1>t, <1>k DEF CallInv
<1>3. KindInv'
  BY <1>s, <1>a, <1>u, <1>t, <1>k DEF KindInv
<1>4. BoundInv'
  BY <1>s, <1>a, <1>u, <1>t, <1>k DEF BoundInv
<1>5. OnceInv'
  BY <1>s, <1>a, <1>u, <1>t, <1>k DEF OnceInv
<1>6. OverInv'
  BY <1>s, <1>a, <1>u, <1>t, <1>k DEF OverInv
<1>7. NewInv'
  BY <1>s, <1>a, <1>u, <1>t DEF NewInv, BoundInv
<1>8. AwaitInv'
  BY <1>s, <1>a, <1>u, <1>t, <1>k DEF AwaitInv, Awaited, Stray
<1>9. SlotInv'
  BY <1>s, <1>a, <1>u, <1>t DEF SlotInv, BoundInv
<1>10. LastInv'
  BY <1>s, <1>a, <1>u, <1>t, <1>k DEF LastInv, Own
<1>11. FiniteInv'
  BY <1>s, <1>a, <1>u, <1>t, <1>k DEF FiniteInv, Listed
<1>12. BindInv'
  BY <1>s, <1>a, <1>u, <1>k, <1>n DEF BindInv, KindInv, Listing, Listed, NoStray
<1>13. HandInv'
  BY <1>s, <1>a, <1>u, <1>t, <1>k DEF HandInv, NoStray
<1> QED
  BY <1>1, <1>2, <1>3, <1>4, <1>5, <1>6, <1>7, <1>8, <1>9, <1>10, <1>11, <1>12, <1>13

(* An online call is for a sub-device no session's name starts with: all     *)
(* sessions are on line between the calls, and it is refused otherwise.      *)
LEMMA OnlineStep ==
  ASSUME CoreInv, NEW d \in Devices, IOT_Gateway_Subdev_Online(d)
  PROVE  CoreInv'
<1>s. TypeOK /\ SessionInv /\ AgreeInv /\ OnlineInv
  BY DEF CoreInv
<1>1. MayStart /\ app.pc = "idle" /\ d \in Names
  BY DEF IOT_Gateway_Subdev_Online, MayStart, Names
<1>2. session_list \in Seq(Sessions) /\ ~Adding
  BY <1>s, <1>1 DEF TypeOK, Adding
<1>3. \A j \in DOMAIN session_list : session_list[j].status = "ONLINE"
  BY <1>s, <1>2 DEF SessionInv
<1>4. subdev_find_session(d) = 0
  BY <1>s, <1>3, FindIs DEF IOT_Gateway_Subdev_Online
<1>5. \A j \in DOMAIN session_list : session_list[j].dev # d
  BY <1>s, <1>4, FindIs DEF Matches
<1>6. PICK e : e = [dev |-> d, status |-> "INIT"]
  OBVIOUS
<1>7. e \in Sessions /\ e.dev = d /\ e.status = "INIT"
  BY <1>1, <1>6 DEF Sessions
<1>8. session_list' = <<e>> \o session_list /\ Start("online", d, session_list'[1].dev)
  BY <1>4, <1>6 DEF IOT_Gateway_Subdev_Online, subdev_add_session
<1>9. /\ session_list' \in Seq(Sessions) /\ 1 \in DOMAIN session_list'
      /\ session_list'[1] = e
      /\ \A j \in DOMAIN session_list' :
           /\ j \in Int
           /\ j = 1 \/ (j - 1 \in DOMAIN session_list /\ session_list'[j] = session_list[j - 1])
  BY <1>2, <1>7, <1>8
<1>10. UNCHANGED <<handler, server, requests, replies, last, unanswered>>
  BY DEF IOT_Gateway_Subdev_Online
<1>11. "online" \in Kinds /\ Start("online", d, d)
  BY <1>7, <1>8, <1>9 DEF Kinds
<1>12. /\ app'.pc = "enter" /\ app'.kind = "online" /\ app'.dev = d /\ app'.session = d
       /\ reply'["online"].result = "pending"
  BY <1>s, <1>1, <1>11, StartIs
<1>13. /\ TypeOK' /\ CallInv' /\ KindInv' /\ BoundInv' /\ OnceInv' /\ OverInv' /\ NewInv'
       /\ AwaitInv' /\ SlotInv' /\ LastInv' /\ FiniteInv' /\ BindInv' /\ HandInv'
  <2>1. "online" # "describe_sub_devices"
    OBVIOUS
  <2> QED
    BY <1>1, <1>9, <1>10, <1>11, <2>1, StartStep
<1>14. SessionInv'
  <2>1. Adding' /\ session_list' # <<>>
    BY <1>9, <1>12 DEF Adding
  <2>2. \A i, j \in DOMAIN session_list' : i # j => session_list'[i].dev # session_list'[j].dev
    BY <1>s, <1>2, <1>5, <1>7, <1>9 DEF SessionInv
  <2>3. \A i \in DOMAIN session_list' : i # 1 => session_list'[i].status = "ONLINE"
    BY <1>3, <1>9
  <2> QED
    BY <1>7, <1>9, <1>12, <2>1, <2>2, <2>3 DEF SessionInv
<1>15. AgreeInv'
  <2>1. session_list'[1].status # "ONLINE"
    BY <1>7, <1>9
  <2>2. \A x : Solid(x)' <=> Solid(x)
    BY <1>10 DEF Solid
  <2>3. \A x : ~Closing(x)
    BY <1>1 DEF Closing
  <2>4. ASSUME NEW j \in DOMAIN session_list', session_list'[j].status = "ONLINE",
               session_list'[j].dev \in Unambiguous
        PROVE  Solid(session_list'[j].dev)
    <3>1. j - 1 \in DOMAIN session_list /\ session_list'[j] = session_list[j - 1]
      BY <1>9, <2>1, <2>4
    <3> QED
      BY <1>s, <2>3, <2>4, <3>1 DEF AgreeInv
  <2> QED
    BY <2>2, <2>4 DEF AgreeInv
<1>16. OnlineInv'
  BY <1>s, <1>10, <1>12 DEF OnlineInv, Solid, Adding
<1> QED
  BY <1>13, <1>14, <1>15, <1>16 DEF CoreInv

(* The other calls leave the sessions alone.                                 *)
LEMMA OtherStep ==
  ASSUME CoreInv, NEW k \in Kinds, NEW d \in Names, NEW s \in Names, k # "online", MayStart,
         Start(k, d, s),
         UNCHANGED <<session_list, handler, server, requests, replies, last, unanswered>>,
         k = "describe_sub_devices" => bind_list' = <<>> /\ d = NoDevice
  PROVE  CoreInv'
<1>s. TypeOK /\ SessionInv /\ AgreeInv /\ OnlineInv
  BY DEF CoreInv
<1>1. app.pc = "idle" /\ app'.pc = "enter" /\ app'.kind = k
  BY <1>s, StartIs
<1>2. session_list' \in Seq(Sessions)
  BY <1>s DEF TypeOK
<1>3. /\ TypeOK' /\ CallInv' /\ KindInv' /\ BoundInv' /\ OnceInv' /\ OverInv' /\ NewInv'
      /\ AwaitInv' /\ SlotInv' /\ LastInv' /\ FiniteInv' /\ BindInv' /\ HandInv'
  BY <1>2, StartStep
<1>4. SessionInv'
  BY <1>s, <1>1 DEF SessionInv, Adding
<1>5. AgreeInv'
  BY <1>s, <1>1 DEF AgreeInv, Solid, Closing
<1>6. OnlineInv'
  BY <1>s, <1>1 DEF OnlineInv, Solid, Adding
<1> QED
  BY <1>3, <1>4, <1>5, <1>6 DEF CoreInv

(* An offline call: a session was found, its request is still to be          *)
(* published.                                                                *)
LEMMA OfflineStep ==
  ASSUME CoreInv, NEW d \in Devices, IOT_Gateway_Subdev_Offline(d)
  PROVE  CoreInv'
<1>1. PICK i : i = subdev_find_session(d)
  OBVIOUS
<1>2. TypeOK /\ i # 0 /\ d \in Names
  BY <1>1 DEF CoreInv, IOT_Gateway_Subdev_Offline, Names
<1>3. i \in DOMAIN session_list /\ session_list \in Seq(Sessions)
  BY <1>1, <1>2, FindIs DEF TypeOK
<1>4. session_list[i] \in Sessions
  BY <1>3
<1>5. session_list[i].dev \in Names
  BY <1>4 DEF Sessions
<1>6. /\ MayStart /\ Start("offline", d, session_list[i].dev)
      /\ UNCHANGED <<session_list, handler, server, requests, replies, last, unanswered>>
  BY <1>1 DEF IOT_Gateway_Subdev_Offline
<1>7. "offline" \in Kinds /\ "offline" # "online" /\ "offline" # "describe_sub_devices"
  BY DEF Kinds
<1> QED
  BY <1>2, <1>5, <1>6, <1>7, OtherStep

(* A bind or an unbind call.                                                 *)
LEMMA BindStep ==
  ASSUME CoreInv, NEW d \in Devices, NEW k \in {"bind", "unbind"}, BindOrUnbind(k, d)
  PROVE  CoreInv'
<1>1. d \in Names /\ NoDevice \in Names
  BY DEF Names
<1>2. k \in Kinds /\ k # "online" /\ k # "describe_sub_devices"
  BY DEF Kinds
<1>3. /\ MayStart /\ Start(k, d, NoDevice)
      /\ UNCHANGED <<session_list, handler, server, requests, replies, last, unanswered>>
  BY DEF BindOrUnbind
<1> QED
  BY <1>1, <1>2, <1>3, OtherStep

(* A call for the bind list, which is emptied first.                         *)
LEMMA GetBindListStep ==
  ASSUME CoreInv, IOT_Gateway_Subdev_GetBindList
  PROVE  CoreInv'
<1>1. NoDevice \in Names
  BY DEF Names
<1>2. "describe_sub_devices" \in Kinds /\ "describe_sub_devices" # "online"
  BY DEF Kinds
<1>3. /\ MayStart /\ Start("describe_sub_devices", NoDevice, NoDevice) /\ bind_list' = <<>>
      /\ UNCHANGED <<session_list, handler, server, requests, replies, last, unanswered>>
  BY DEF IOT_Gateway_Subdev_GetBindList
<1> QED
  BY <1>1, <1>2, <1>3, OtherStep

-----------------------------------------------------------------------------
(* Publishing and polling.                                                   *)

(* The call reads the result and is about to publish.                        *)
LEMMA EnterStep ==
  ASSUME CoreInv, EnterSync
  PROVE  CoreInv'
<1>s. /\ TypeOK /\ CallInv /\ KindInv /\ BoundInv /\ OnceInv /\ OverInv /\ NewInv
      /\ AwaitInv /\ SlotInv /\ LastInv /\ FiniteInv /\ BindInv /\ HandInv
      /\ SessionInv /\ AgreeInv /\ OnlineInv
  BY DEF CoreInv
<1>c. app \in Calls
  BY <1>s DEF TypeOK
<1>p. app.pc = "enter"
  BY DEF EnterSync
<1>r. Result \in {"ok", "refused", "pending"}
  <2>1. reply[app.kind] \in Slots
    BY <1>s, <1>c DEF TypeOK, Calls
  <2> QED
    BY <2>1 DEF Slots, Result
<1>a. /\ app' \in Calls /\ app'.pc = "publish"
      /\ app'.kind = app.kind /\ app'.dev = app.dev /\ app'.n = app.n
      /\ app'.session = app.session
  <2>1. app' = [app EXCEPT !.pc = "publish", !.res = Result]
    BY DEF EnterSync
  <2> QED
    BY <1>c, <1>r, <2>1 DEF Calls
<1>u. UNCHANGED <<session_list, reply, bind_list, handler, server, requests, replies, last,
                  unanswered, budget>>
  BY DEF EnterSync
<1>1. TypeOK'
  BY <1>s, <1>a, <1>u DEF TypeOK
<1>2. CallInv'
  BY <1>s, <1>p, <1>a, <1>u DEF CallInv
<1>3. KindInv'
  BY <1>s, <1>p, <1>a, <1>u DEF KindInv
<1>4. BoundInv'
  BY <1>s, <1>p, <1>a, <1>u DEF BoundInv
<1>5. OnceInv'
  BY <1>s, <1>p, <1>a, <1>u DEF OnceInv
<1>6. OverInv'
  BY <1>s, <1>p, <1>a, <1>u DEF OverInv
<1>7. NewInv'
  BY <1>s, <1>p, <1>a, <1>u DEF NewInv
<1>8. AwaitInv'
  BY <1>s, <1>p, <1>a, <1>u DEF AwaitInv, Awaited, Stray
<1>9. SlotInv'
  BY <1>s, <1>p, <1>a, <1>u DEF SlotInv, Own
<1>10. LastInv'
  BY <1>s, <1>p, <1>a, <1>u DEF LastInv, Own
<1>11. FiniteInv'
  BY <1>s, <1>p, <1>a, <1>u DEF FiniteInv, Listed
<1>12. BindInv'
  BY <1>s, <1>p, <1>a, <1>u DEF BindInv, NoStray, Listing, Listed
<1>13. HandInv'
  BY <1>s, <1>p, <1>a, <1>u DEF HandInv, NoStray
<1>14. SessionInv'
  BY <1>s, <1>p, <1>a, <1>u DEF SessionInv, Adding
<1>15. AgreeInv'
  BY <1>s, <1>p, <1>a, <1>u DEF AgreeInv, Solid, Closing
<1>16. OnlineInv'
  BY <1>s, <1>p, <1>a, <1>u DEF OnlineInv, Solid, Adding
<1> QED
  BY <1>1, <1>2, <1>3, <1>4, <1>5, <1>6, <1>7, <1>8, <1>9, <1>10, <1>11, <1>12, <1>13,
       <1>14, <1>15, <1>16
    DEF CoreInv

(* The request is on its way and its call waits for it.                      *)
LEMMA PublishStep ==
  ASSUME CoreInv, Publish(TRUE)
  PROVE  CoreInv'
<1>s. /\ TypeOK /\ CallInv /\ KindInv /\ BoundInv /\ OnceInv /\ OverInv /\ NewInv
      /\ AwaitInv /\ SlotInv /\ LastInv /\ FiniteInv /\ BindInv /\ HandInv
      /\ SessionInv /\ AgreeInv /\ OnlineInv
  BY DEF CoreInv
<1>c. app \in Calls
  BY <1>s DEF TypeOK
<1>p. app.pc = "publish"
  BY DEF Publish
<1>a. /\ app' \in Calls /\ app'.pc = "wait"
      /\ app'.kind = app.kind /\ app'.dev = app.dev /\ app'.n = app.n
      /\ app'.session = app.session
  BY <1>s, <1>c DEF Publish, Calls
<1>u. UNCHANGED <<session_list, reply, bind_list, handler, server, replies, last,
                  unanswered, budget>>
  BY DEF Publish
<1>e. PICK e : e = [kind |-> app.kind, dev |-> app.dev, n |-> app.n]
  OBVIOUS
<1>f. e \in Requests /\ e.kind = app.kind /\ e.dev = app.dev /\ e.n = app.n
  BY <1>c, <1>e DEF Requests, Calls
<1>q. requests \in Seq(Requests) /\ replies \in Seq(Replies)
  BY <1>s DEF TypeOK
<1>t. /\ \A i \in DOMAIN requests : requests[i].n \in Nat
      /\ \A i \in DOMAIN replies : replies[i].n \in Nat
      /\ handler.n \in Nat /\ \A j \in Kinds : reply[j].from \in Nat
  <2>1. \A i \in DOMAIN requests : requests[i] \in Requests
    BY <1>q
  <2>2. \A i \in DOMAIN replies : replies[i] \in Replies
    BY <1>q
  <2>3. handler.n \in Nat /\ \A j \in Kinds : reply[j] \in Slots
    BY <1>s DEF TypeOK
  <2> QED
    BY <2>1, <2>2, <2>3 DEF Requests, Replies, Slots
<1>k. "describe_sub_devices" \in Kinds /\ "offline" \in Kinds /\ "online" \in Kinds
  BY DEF Kinds
<1>r. requests' = Append(requests, e)
  BY <1>e DEF Publish
<1>n. PICK m \in DOMAIN requests' :
        /\ requests' \in Seq(Requests) /\ m \notin DOMAIN requests /\ requests'[m] = e
        /\ m \in Int
        /\ \A i \in DOMAIN requests :
             i \in Int /\ i < m /\ i \in DOMAIN requests' /\ requests'[i] = requests[i]
        /\ \A i \in DOMAIN requests' : i = m \/ (i \in DOMAIN requests /\ requests'[i] = requests[i])
  BY <1>q, <1>f, <1>r, AppendIs
<1>1. TypeOK'
  BY <1>s, <1>a, <1>u, <1>n DEF TypeOK
<1>2. CallInv'
  BY <1>s, <1>p, <1>a, <1>u, <1>f, <1>n DEF CallInv
<1>3. KindInv'
  BY <1>s, <1>p, <1>a, <1>u, <1>f, <1>n DEF KindInv, CallInv
<1>4. BoundInv'
  BY <1>s, <1>p, <1>a, <1>u, <1>f, <1>n DEF BoundInv
<1>5. OnceInv'
  BY <1>s, <1>p, <1>a, <1>u, <1>f, <1>n DEF OnceInv, NewInv
<1>6. OverInv'
  BY <1>s, <1>p, <1>a, <1>u, <1>f, <1>n DEF OverInv, NewInv
<1>7. NewInv'
  BY <1>s, <1>p, <1>a, <1>u, <1>f, <1>n DEF NewInv
<1>8. AwaitInv'
  BY <1>s, <1>p, <1>a, <1>u, <1>f, <1>n DEF AwaitInv, Awaited, Stray
<1>9. SlotInv'
  BY <1>s, <1>p, <1>a, <1>u, <1>f, <1>n DEF SlotInv, Own
<1>10. LastInv'
  BY <1>s, <1>p, <1>a, <1>u, <1>f, <1>n DEF LastInv, Own
<1>11. FiniteInv'
  BY <1>s, <1>p, <1>a, <1>u, <1>f, <1>n DEF FiniteInv, Listed
<1>12. BindInv'
  BY <1>s, <1>p, <1>a, <1>u, <1>f, <1>n DEF BindInv, NoStray, Listing, Listed
<1>13. HandInv'
  BY <1>s, <1>p, <1>a, <1>u, <1>f, <1>n DEF HandInv, NoStray
<1>14. SessionInv'
  BY <1>s, <1>p, <1>a, <1>u, <1>f, <1>n DEF SessionInv, Adding
<1>15. AgreeInv'
  BY <1>s, <1>p, <1>a, <1>u, <1>f, <1>n DEF AgreeInv, Solid, Closing
<1>16. OnlineInv'
  BY <1>s, <1>p, <1>a, <1>u, <1>f, <1>n DEF OnlineInv, Solid, Adding
<1> QED
  BY <1>1, <1>2, <1>3, <1>4, <1>5, <1>6, <1>7, <1>8, <1>9, <1>10, <1>11, <1>12, <1>13,
       <1>14, <1>15, <1>16
    DEF CoreInv

(* The request never leaves.                                                 *)
LEMMA PublishFailsStep ==
  ASSUME CoreInv, Publish(FALSE)
  PROVE  CoreInv'
<1>s. /\ TypeOK /\ CallInv /\ KindInv /\ BoundInv /\ OnceInv /\ OverInv /\ NewInv
      /\ AwaitInv /\ SlotInv /\ LastInv /\ FiniteInv /\ BindInv /\ HandInv
      /\ SessionInv /\ AgreeInv /\ OnlineInv
  BY DEF CoreInv
<1>c. app \in Calls
  BY <1>s DEF TypeOK
<1>p. app.pc = "publish"
  BY DEF Publish
<1>a. /\ app' \in Calls /\ app'.pc = "failed"
      /\ app'.kind = app.kind /\ app'.dev = app.dev /\ app'.n = app.n
      /\ app'.session = app.session
  BY <1>s, <1>c DEF Publish, Calls
<1>u. UNCHANGED <<session_list, reply, bind_list, handler, server, requests, replies, last,
                  unanswered>>
  BY DEF Publish
<1>b. budget' \in [requests : Nat, losses : Nat] /\ budget'.requests = budget.requests
  BY <1>s DEF Publish, TypeOK
<1>q. requests \in Seq(Requests) /\ replies \in Seq(Replies)
  BY <1>s DEF TypeOK
<1>t. /\ \A i \in DOMAIN requests : requests[i].n \in Nat
      /\ \A i \in DOMAIN replies : replies[i].n \in Nat
      /\ handler.n \in Nat /\ \A j \in Kinds : reply[j].from \in Nat
  <2>1. \A i \in DOMAIN requests : requests[i] \in Requests
    BY <1>q
  <2>2. \A i \in DOMAIN replies : replies[i] \in Replies
    BY <1>q
  <2>3. handler.n \in Nat /\ \A j \in Kinds : reply[j] \in Slots
    BY <1>s DEF TypeOK
  <2> QED
    BY <2>1, <2>2, <2>3 DEF Requests, Replies, Slots
<1>k. "describe_sub_devices" \in Kinds /\ "offline" \in Kinds /\ "online" \in Kinds
  BY DEF Kinds
<1>x. NoStray /\ Listing => Listed.result = "pending"
  BY <1>s, <1>p, <1>k DEF SlotInv, Own, NewInv, NoStray, Listing, Listed
<1>1. TypeOK'
  BY <1>s, <1>a, <1>u, <1>b DEF TypeOK
<1>2. CallInv'
  BY <1>s, <1>p, <1>a, <1>u, <1>b, <1>k DEF CallInv
<1>3. KindInv'
  BY <1>s, <1>p, <1>a, <1>u, <1>b, <1>k DEF KindInv
<1>4. BoundInv'
  BY <1>s, <1>p, <1>a, <1>u, <1>b, <1>k DEF BoundInv
<1>5. OnceInv'
  BY <1>s, <1>p, <1>a, <1>u, <1>b, <1>k DEF OnceInv
<1>6. OverInv'
  BY <1>s, <1>p, <1>a, <1>u, <1>b, <1>k DEF OverInv
<1>7. NewInv'
  BY <1>s, <1>p, <1>a, <1>u, <1>b, <1>k DEF NewInv
<1>8. AwaitInv'
  BY <1>s, <1>p, <1>a, <1>u, <1>b, <1>k DEF AwaitInv, Awaited, Stray
<1>9. SlotInv'
  BY <1>s, <1>p, <1>a, <1>u, <1>b, <1>k DEF SlotInv, Own
<1>10. LastInv'
  BY <1>s, <1>p, <1>a, <1>u, <1>b, <1>k DEF LastInv, Own
<1>11. FiniteInv'
  BY <1>s, <1>p, <1>a, <1>u, <1>b, <1>k DEF FiniteInv, Listed
<1>12. BindInv'
  BY <1>s, <1>p, <1>a, <1>u, <1>x DEF BindInv, NoStray, Listing, Listed
<1>13. HandInv'
  BY <1>s, <1>p, <1>a, <1>u, <1>b, <1>k DEF HandInv, NoStray
<1>14. SessionInv'
  BY <1>s, <1>p, <1>a, <1>u, <1>b, <1>k DEF SessionInv, Adding, TypeOK
<1>15. AgreeInv'
  BY <1>s, <1>p, <1>a, <1>u, <1>b, <1>k DEF AgreeInv, Solid, Closing
<1>16. OnlineInv'
  BY <1>s, <1>p, <1>a, <1>u, <1>b, <1>k DEF OnlineInv, Solid, Adding
<1> QED
  BY <1>1, <1>2, <1>3, <1>4, <1>5, <1>6, <1>7, <1>8, <1>9, <1>10, <1>11, <1>12, <1>13,
       <1>14, <1>15, <1>16
    DEF CoreInv

(* The call goes on polling.                                                 *)
LEMMA PollAgainStep ==
  ASSUME CoreInv, Poll, Result = app.res, app.loop_count <= GATEWAY_LOOP_MAX_COUNT
  PROVE  CoreInv'
<1>s. /\ TypeOK /\ CallInv /\ KindInv /\ BoundInv /\ OnceInv /\ OverInv /\ NewInv
      /\ AwaitInv /\ SlotInv /\ LastInv /\ FiniteInv /\ BindInv /\ HandInv
      /\ SessionInv /\ AgreeInv /\ OnlineInv
  BY DEF CoreInv
<1>c. app \in Calls
  BY <1>s DEF TypeOK
<1>p. app.pc = "wait"
  BY DEF Poll
<1>a. /\ app' \in Calls /\ app'.pc = "wait"
      /\ app'.kind = app.kind /\ app'.dev = app.dev /\ app'.n = app.n
      /\ app'.session = app.session
  BY <1>s, <1>c, <1>p DEF Poll, Calls
<1>u. UNCHANGED <<session_list, reply, bind_list, handler, server, requests, replies, last,
                  unanswered, budget>>
  BY DEF Poll
<1>1. TypeOK'
  BY <1>s, <1>a, <1>u DEF TypeOK
<1>2. CallInv'
  BY <1>s, <1>p, <1>a, <1>u DEF CallInv
<1>3. KindInv'
  BY <1>s, <1>p, <1>a, <1>u DEF KindInv
<1>4. BoundInv'
  BY <1>s, <1>p, <1>a, <1>u DEF BoundInv
<1>5. OnceInv'
  BY <1>s, <1>p, <1>a, <1>u DEF OnceInv
<1>6. OverInv'
  BY <1>s, <1>p, <1>a, <1>u DEF OverInv
<1>7. NewInv'
  BY <1>s, <1>p, <1>a, <1>u DEF NewInv
<1>8. AwaitInv'
  BY <1>s, <1>p, <1>a, <1>u DEF AwaitInv, Awaited, Stray
<1>9. SlotInv'
  BY <1>s, <1>p, <1>a, <1>u DEF SlotInv, Own
<1>10. LastInv'
  BY <1>s, <1>p, <1>a, <1>u DEF LastInv, Own
<1>11. FiniteInv'
  BY <1>s, <1>p, <1>a, <1>u DEF FiniteInv, Listed
<1>12. BindInv'
  BY <1>s, <1>p, <1>a, <1>u DEF BindInv, NoStray, Listing, Listed
<1>13. HandInv'
  BY <1>s, <1>p, <1>a, <1>u DEF HandInv, NoStray
<1>14. SessionInv'
  BY <1>s, <1>p, <1>a, <1>u DEF SessionInv, Adding
<1>15. AgreeInv'
  BY <1>s, <1>p, <1>a, <1>u DEF AgreeInv, Solid, Closing
<1>16. OnlineInv'
  BY <1>s, <1>p, <1>a, <1>u DEF OnlineInv, Solid, Adding
<1> QED
  BY <1>1, <1>2, <1>3, <1>4, <1>5, <1>6, <1>7, <1>8, <1>9, <1>10, <1>11, <1>12, <1>13,
       <1>14, <1>15, <1>16
    DEF CoreInv

(* The call stops waiting; unless the reply to its own request has changed   *)
(* the slot, that request is a stray one from now on.                        *)
LEMMA PollEndsStep ==
  ASSUME CoreInv, EntryInv, Poll, ~(Result = app.res /\ app.loop_count <= GATEWAY_LOOP_MAX_COUNT)
  PROVE  CoreInv'
<1>s. /\ TypeOK /\ CallInv /\ KindInv /\ BoundInv /\ OnceInv /\ OverInv /\ NewInv
      /\ AwaitInv /\ SlotInv /\ LastInv /\ FiniteInv /\ BindInv /\ HandInv
      /\ SessionInv /\ AgreeInv /\ OnlineInv
  BY DEF CoreInv
<1>c. app \in Calls
  BY <1>s DEF TypeOK
<1>p. app.pc = "wait"
  BY DEF Poll
<1>a. /\ app' \in Calls /\ app'.pc \in {"failed", "check"}
      /\ (app'.pc = "failed" <=> Result = app.res)
      /\ app'.kind = app.kind /\ app'.dev = app.dev /\ app'.n = app.n
      /\ app'.session = app.session
  BY <1>s, <1>c, <1>p DEF Poll, Calls
<1>u. UNCHANGED <<session_list, reply, bind_list, handler, server, requests, replies, last,
                  budget>>
  BY DEF Poll
<1>e. PICK e : e = [kind |-> app.kind, dev |-> app.dev, n |-> app.n]
  OBVIOUS
<1>f. e \in Requests /\ e.kind = app.kind /\ e.dev = app.dev /\ e.n = app.n
  BY <1>c, <1>e DEF Requests, Calls
<1>w. /\ Result # app.res /\ reply[app.kind].from = app.n => unanswered' = unanswered
      /\ ~(Result # app.res /\ reply[app.kind].from = app.n) => unanswered' = unanswered \cup {e}
  BY <1>e DEF Poll
<1>x. app.kind \in Kinds
  BY <1>c DEF Calls
<1>y. unanswered' \subseteq Requests /\ unanswered \subseteq unanswered'
  BY <1>s, <1>f, <1>w DEF TypeOK
<1>z. Result = app.res => e \in unanswered'
  BY <1>w
<1>v. Result # app.res => Result # "pending"
  BY <1>p DEF EntryInv, Result
<1>1. TypeOK'
  BY <1>s, <1>a, <1>u, <1>y DEF TypeOK
<1>2. CallInv'
  BY <1>s, <1>p, <1>a, <1>u, <1>f, <1>w, <1>y DEF CallInv
<1>3. KindInv'
  BY <1>s, <1>p, <1>u, <1>f, <1>w DEF KindInv, CallInv
<1>4. BoundInv'
  BY <1>s, <1>p, <1>a, <1>u, <1>f, <1>w, <1>y DEF BoundInv
<1>5. OnceInv'
  BY <1>s, <1>p, <1>a, <1>u, <1>f, <1>w, <1>y DEF OnceInv
<1>6. OverInv'
  BY <1>s, <1>p, <1>a, <1>u, <1>f, <1>w, <1>y DEF OverInv
<1>7. NewInv'
  BY <1>s, <1>p, <1>a, <1>u, <1>f, <1>w, <1>y DEF NewInv
<1>8. AwaitInv'
  <2>1. \A kind, dev, n : Stray(kind, dev, n) => Stray(kind, dev, n)'
    BY <1>y DEF Stray
  <2>2. CASE Result # app.res /\ reply[app.kind].from = app.n
    BY <1>s, <1>p, <1>u, <1>x, <2>1, <2>2 DEF AwaitInv, Awaited, OverInv
  <2>3. CASE ~(Result # app.res /\ reply[app.kind].from = app.n)
    <3>1. Stray(app.kind, app.dev, app.n)'
      BY <1>f, <1>w, <1>a, <2>3 DEF Stray
    <3>2. \A kind, dev, n : Awaited(kind, dev, n) => Awaited(kind, dev, n)'
      BY <1>a, <2>1, <3>1 DEF Awaited
    <3> QED
      BY <1>s, <1>u, <3>2 DEF AwaitInv
  <2> QED
    BY <2>2, <2>3
<1>9. SlotInv'
  BY <1>s, <1>p, <1>a, <1>u, <1>y, <1>v DEF SlotInv, Own, Result
<1>10. LastInv'
  BY <1>s, <1>p, <1>a, <1>u, <1>f, <1>w, <1>y DEF LastInv, Own
<1>11. FiniteInv'
  BY <1>s, <1>p, <1>a, <1>u, <1>f, <1>w, <1>y DEF FiniteInv, Listed
<1>12. BindInv'
  <2>1. SUFFICES ASSUME NoStray', Listing'
                 PROVE  app'.pc # "failed" /\ NoStray /\ Listing
    BY <1>s, <1>a, <1>u DEF BindInv, Listed, Listing, Result
  <2>2. NoStray /\ Listing
    BY <1>p, <1>a, <1>y, <2>1 DEF NoStray, Listing
  <2> QED
    BY <1>a, <1>f, <1>z, <2>1, <2>2 DEF NoStray, Listing
<1>13. HandInv'
  BY <1>s, <1>p, <1>a, <1>u, <1>f, <1>w, <1>y DEF HandInv, NoStray
<1>14. SessionInv'
  BY <1>s, <1>p, <1>a, <1>u, <1>f, <1>w, <1>y DEF SessionInv, Adding
<1>15. AgreeInv'
  <2>1. \A x : Solid(x) => Solid(x)'
    BY <1>u, <1>y DEF Solid
  <2>2. \A x : Closing(x) => Closing(x)' \/ Solid(x)'
    BY <1>p, <1>a, <1>f, <1>z DEF Closing, Solid
  <2> QED
    BY <1>s, <1>u, <2>1, <2>2 DEF AgreeInv
<1>16. OnlineInv'
  <2>1. \A x : Solid(x) => Solid(x)'
    BY <1>u, <1>y DEF Solid
  <2>2. (Adding' => Adding) /\ app'.pc # "done" /\ app'.dev = app.dev
    BY <1>p, <1>a DEF Adding
  <2> QED
    BY <1>s, <1>u, <2>1, <2>2 DEF OnlineInv
<1> QED
  BY <1>1, <1>2, <1>3, <1>4, <1>5, <1>6, <1>7, <1>8, <1>9, <1>10, <1>11, <1>12, <1>13,
       <1>14, <1>15, <1>16
    DEF CoreInv

(* The result is still there. A bind list and an offline request are never   *)
(* refused.                                                                  *)
LEMMA CheckStep ==
  ASSUME CoreInv, CheckResult
  PROVE  CoreInv'
<1>s. /\ TypeOK /\ CallInv /\ KindInv /\ BoundInv /\ OnceInv /\ OverInv /\ NewInv
      /\ AwaitInv /\ SlotInv /\ LastInv /\ FiniteInv /\ BindInv /\ HandInv
      /\ SessionInv /\ AgreeInv /\ OnlineInv
  BY DEF CoreInv
<1>c. app \in Calls
  BY <1>s DEF TypeOK
<1>p. app.pc = "check"
  BY DEF CheckResult
<1>a. /\ app' \in Calls /\ app'.pc \in {"failed", "done"}
      /\ (app'.pc = "done" <=> Result = "ok")
      /\ app'.kind = app.kind /\ app'.dev = app.dev /\ app'.n = app.n
      /\ app'.session = app.session
  BY <1>s, <1>c, <1>p DEF CheckResult, Calls
<1>u. UNCHANGED <<session_list, reply, bind_list, handler, server, requests, replies, last,
                  unanswered, budget>>
  BY DEF CheckResult
<1>x. app.kind \in Kinds
  BY <1>c DEF Calls
<1>y. /\ Result \in {"ok", "refused"}
      /\ (app.kind \in {"offline", "describe_sub_devices"} => Result = "ok")
  <2>1. reply[app.kind] \in Slots
    BY <1>s, <1>x DEF TypeOK
  <2> QED
    BY <1>s, <1>p, <2>1 DEF SlotInv, KindInv, Result, Slots
<1>1. TypeOK'
  BY <1>s, <1>a, <1>u DEF TypeOK
<1>2. CallInv'
  BY <1>s, <1>p, <1>a, <1>u, <1>y DEF CallInv
<1>3. KindInv'
  BY <1>s, <1>p, <1>a, <1>u, <1>y DEF KindInv
<1>4. BoundInv'
  BY <1>s, <1>p, <1>a, <1>u, <1>y DEF BoundInv
<1>5. OnceInv'
  BY <1>s, <1>p, <1>a, <1>u, <1>y DEF OnceInv
<1>6. OverInv'
  BY <1>s, <1>p, <1>a, <1>u, <1>y DEF OverInv
<1>7. NewInv'
  BY <1>s, <1>p, <1>a, <1>u, <1>y DEF NewInv
<1>8. AwaitInv'
  BY <1>s, <1>p, <1>a, <1>u, <1>y DEF AwaitInv, Awaited, Stray
<1>9. SlotInv'
  BY <1>s, <1>p, <1>a, <1>u, <1>y DEF SlotInv, Own, Result
<1>10. LastInv'
  BY <1>s, <1>p, <1>a, <1>u, <1>y DEF LastInv, Own
<1>11. FiniteInv'
  BY <1>s, <1>p, <1>a, <1>u, <1>y DEF FiniteInv, Listed
<1>12. BindInv'
  BY <1>s, <1>p, <1>a, <1>u, <1>y DEF BindInv, NoStray, Listing, Listed, Result
<1>13. HandInv'
  BY <1>s, <1>p, <1>a, <1>u, <1>y DEF HandInv, NoStray
<1>14. SessionInv'
  BY <1>s, <1>p, <1>a, <1>u, <1>y DEF SessionInv, Adding
<1>15. AgreeInv'
  BY <1>s, <1>p, <1>a, <1>u, <1>y DEF AgreeInv, Solid, Closing
<1>16. OnlineInv'
  BY <1>s, <1>p, <1>a, <1>u, <1>y DEF OnlineInv, Solid, Adding, Result
<1> QED
  BY <1>1, <1>2, <1>3, <1>4, <1>5, <1>6, <1>7, <1>8, <1>9, <1>10, <1>11, <1>12, <1>13,
       <1>14, <1>15, <1>16
    DEF CoreInv

-----------------------------------------------------------------------------
(* The ends of the calls.                                                    *)

(* The sessions, and what the call returns.                                  *)
LEMMA DoneStep ==
  ASSUME CoreInv, Done
  PROVE  CoreInv'
<1>s. /\ TypeOK /\ CallInv /\ KindInv /\ BoundInv /\ OnceInv /\ OverInv /\ NewInv
      /\ AwaitInv /\ SlotInv /\ LastInv /\ FiniteInv /\ BindInv /\ HandInv
      /\ SessionInv /\ AgreeInv /\ OnlineInv
  BY DEF CoreInv
<1>c. app \in Calls
  BY <1>s DEF TypeOK
<1>x. app.kind \in Kinds
  BY <1>c DEF Calls
<1>p. app.pc = "done"
  BY DEF Done
<1>a. app' \in Calls /\ app'.pc = "idle"
  BY DEF Done, Return, Idle, Calls, Names, Kinds
<1>u. UNCHANGED <<reply, handler, server, requests, replies, unanswered, budget>>
  BY DEF Done
<1>l. /\ last'.kind = app.kind /\ last'.dev = app.dev /\ last'.n = app.n /\ last'.rc = "ok"
      /\ last'.from = reply[app.kind].from
      /\ last'.list = (IF app.kind = "describe_sub_devices" THEN bind_list ELSE <<>>)
      /\ last'.sent = reply[app.kind].list
  BY DEF Done, Return
<1>y. reply[app.kind].result # "pending"
  BY <1>s, <1>p DEF SlotInv
<1>v. session_list \in Seq(Sessions)
  BY <1>s DEF TypeOK
<1>w. /\ session_list' \in Seq(Sessions)
      /\ \A i, j \in DOMAIN session_list' : i # j => session_list'[i].dev # session_list'[j].dev
      /\ \A i \in DOMAIN session_list' :
           /\ session_list'[i].status = "ONLINE"
           /\ session_list'[i].dev \in Unambiguous => Solid(session_list'[i].dev)
  <2>1. CASE app.kind = "online"
    <3>1. /\ DOMAIN session_list' = DOMAIN session_list
          /\ DOMAIN session_list = 1..Len(session_list) /\ Len(session_list) \in Nat
      BY <1>v, <2>1 DEF Done
    <3>2. \A i \in DOMAIN session_list : session_list[i] \in Sessions
      BY <1>v
    <3>3. \A i \in DOMAIN session_list :
            session_list'[i] = IF session_list[i].dev = app.session
                               THEN [session_list[i] EXCEPT !.status = "ONLINE"] ELSE session_list[i]
      BY <2>1 DEF Done
    <3>4. \A i \in DOMAIN session_list :
            /\ session_list'[i] \in Sessions /\ session_list'[i].dev = session_list[i].dev
            /\ session_list[i].dev = app.session => session_list'[i].status = "ONLINE"
            /\ session_list[i].dev # app.session => session_list'[i].status = session_list[i].status
      BY <3>2, <3>3 DEF Sessions
    <3>5. session_list' = [i \in 1..Len(session_list) |-> session_list'[i]]
      BY <3>1, <2>1 DEF Done
    <3>6. session_list' \in Seq(Sessions)
      BY <3>1, <3>4, <3>5
    <3>7. Adding /\ Solid(app.dev)
      BY <1>s, <1>p, <2>1 DEF Adding, OnlineInv
    <3>8. ~Closing(app.dev) /\ \A x : ~Closing(x)
      BY <2>1 DEF Closing
    <3>9. \A i \in DOMAIN session_list : (i = 1 <=> session_list[i].dev = app.session)
                                         /\ (i # 1 => session_list[i].status = "ONLINE")
      BY <1>s, <3>7, <3>1 DEF SessionInv
    <3>10. \A i \in DOMAIN session_list :
             session_list'[i].dev \in Unambiguous => Solid(session_list'[i].dev)
      BY <1>s, <3>4, <3>7, <3>8, <3>9 DEF AgreeInv, SessionInv
    <3> QED
      BY <1>s, <3>1, <3>4, <3>6, <3>9, <3>10 DEF SessionInv
  <2>2. CASE app.kind = "offline"
    <3>0. session_list' = subdev_remove_session(app.dev) /\ ~Adding
      BY <2>2 DEF Done, Adding
    <3>1. CASE subdev_find_session(app.dev) = 0
      <4>1. \A j \in DOMAIN session_list : session_list[j].dev # app.dev
        BY <1>s, <3>1, FindIs DEF Matches
      <4>2. session_list' = session_list
        BY <3>0, <3>1 DEF subdev_remove_session
      <4> QED
        BY <1>s, <1>v, <3>0, <4>1, <4>2 DEF SessionInv, AgreeInv, Closing
    <3>2. CASE subdev_find_session(app.dev) # 0
      <4>1. PICK i \in DOMAIN session_list : i = subdev_find_session(app.dev)
        BY <1>s, <3>2, FindIs
      <4>2. Matches(app.dev, session_list[i].dev)
        BY <1>s, <3>2, <4>1, FindIs
      <4>3. /\ i \in Int /\ session_list' \in Seq(Sessions)
            /\ \A k \in DOMAIN session_list' :
                 /\ k \in Int /\ k \in DOMAIN session_list /\ k + 1 \in DOMAIN session_list
                 /\ k < i => session_list'[k] = session_list[k]
                 /\ k >= i => session_list'[k] = session_list[k + 1]
        BY <1>s, <3>0, <4>1, RemoveIs
      <4>4. ASSUME NEW k \in DOMAIN session_list'
            PROVE  \E j \in DOMAIN session_list : j # i /\ session_list'[k] = session_list[j]
        <5>1. CASE k < i
          BY <4>3, <5>1
        <5>2. CASE k >= i
          BY <4>3, <5>2
        <5> QED
          BY <4>3, <5>1, <5>2
      <4>5. \A k, m \in DOMAIN session_list' : k # m => session_list'[k].dev # session_list'[m].dev
        BY SMTT(30), <1>s, <4>1, <4>3 DEF SessionInv
      <4>6. \A j \in DOMAIN session_list : session_list[j].status = "ONLINE"
        BY <1>s, <3>0 DEF SessionInv
      <4>7. ASSUME NEW j \in DOMAIN session_list, j # i, session_list[j].dev \in Unambiguous
            PROVE  Solid(session_list[j].dev)
        <5>1. CASE session_list[j].dev = app.dev
          <6>1. session_list[i] \in Sessions
            BY <1>v, <4>1
          <6>2. session_list[i].dev = app.dev \/ <<app.dev, session_list[i].dev>> \in NamePrefixes
            BY <4>2 DEF Matches
          <6>3. session_list[i].dev # app.dev
            BY <1>s, <4>1, <4>7, <5>1 DEF SessionInv
          <6>4. session_list[i].dev \in Devices
            BY <6>2, <6>3, PrefixAssumption
          <6> QED
            BY <4>7, <5>1, <6>2, <6>3, <6>4 DEF Unambiguous
        <5>2. CASE session_list[j].dev # app.dev
          BY <1>s, <4>6, <4>7, <5>2 DEF AgreeInv, Closing
        <5> QED
          BY <5>1, <5>2
      <4>8. \A k \in DOMAIN session_list' :
              /\ session_list'[k].status = "ONLINE"
              /\ session_list'[k].dev \in Unambiguous => Solid(session_list'[k].dev)
        BY <4>4, <4>6, <4>7
      <4> QED
        BY <4>3, <4>5, <4>8
    <3> QED
      BY <3>1, <3>2
  <2>3. CASE app.kind \notin {"online", "offline"}
    <3>1. session_list' = session_list /\ ~Adding /\ \A x : ~Closing(x)
      BY <2>3 DEF Done, Adding, Closing
    <3> QED
      BY <1>s, <1>v, <3>1 DEF SessionInv, AgreeInv
  <2> QED
    BY <2>1, <2>2, <2>3
<1>z. "describe_sub_devices" \in Kinds /\ "online" \in Kinds
  BY DEF Kinds
<1>1. TypeOK'
  BY <1>s, <1>a, <1>u, <1>w DEF TypeOK
<1>2. CallInv'
  BY <1>s, <1>a, <1>u, <1>p DEF CallInv
<1>3. KindInv'
  BY <1>s, <1>p, <1>u, <1>l DEF KindInv, CallInv
<1>4. BoundInv'
  BY <1>s, <1>a, <1>u, <1>p DEF BoundInv
<1>5. OnceInv'
  BY <1>s, <1>a, <1>u, <1>p DEF OnceInv
<1>6. OverInv'
  BY <1>s, <1>a, <1>u, <1>p DEF OverInv
<1>7. NewInv'
  BY <1>s, <1>a, <1>u, <1>p DEF NewInv
<1>8. AwaitInv'
  BY <1>s, <1>p, <1>u DEF AwaitInv, Awaited, Stray
<1>9. SlotInv'
  BY <1>s, <1>a, <1>u, <1>p DEF SlotInv, Own
<1>10. LastInv'
  BY <1>s, <1>p, <1>u, <1>l, <1>y DEF LastInv, SlotInv, Own
<1>11. FiniteInv'
  BY <1>s, <1>a, <1>u, <1>p DEF FiniteInv, Listed
<1>12. BindInv'
  BY <1>s, <1>a, <1>u, <1>p DEF BindInv, NoStray, Listing, Listed
<1>13. HandInv'
  <2>1. SUFFICES ASSUME app.kind = "describe_sub_devices", NoStray
                 PROVE  ToSet(last'.list) = last'.sent /\ Len(last'.list) = Cardinality(last'.sent)
    BY <1>u, <1>l DEF HandInv, NoStray
  <2>2. bind_list = SetToSeq(Listed.list)
    BY <1>s, <1>p, <1>y, <2>1 DEF BindInv, Listing, Listed
  <2>3. IsFiniteSet(Listed.list)
    BY <1>s DEF FiniteInv
  <2>4. last'.list = bind_list /\ last'.sent = Listed.list
    BY <1>l, <2>1 DEF Listed
  <2> QED
    BY <2>2, <2>3, <2>4, SetToSeqIs
<1>14. SessionInv'
  BY <1>a, <1>w DEF SessionInv, Adding
<1>15. AgreeInv'
  <2>1. \A x : Solid(x) => Solid(x)'
    BY <1>u DEF Solid
  <2> QED
    BY <1>w, <2>1 DEF AgreeInv
<1>16. OnlineInv'
  BY <1>s, <1>a, <1>u, <1>p DEF OnlineInv, Solid, Adding
<1> QED
  BY <1>1, <1>2, <1>3, <1>4, <1>5, <1>6, <1>7, <1>8, <1>9, <1>10, <1>11, <1>12, <1>13,
       <1>14, <1>15, <1>16
    DEF CoreInv

(* The session an online call has added is the one that is removed.          *)
LEMMA UndoStep ==
  ASSUME CoreInv, Undo
  PROVE  CoreInv'
<1>s. /\ TypeOK /\ CallInv /\ KindInv /\ BoundInv /\ OnceInv /\ OverInv /\ NewInv
      /\ AwaitInv /\ SlotInv /\ LastInv /\ FiniteInv /\ BindInv /\ HandInv
      /\ SessionInv /\ AgreeInv /\ OnlineInv
  BY DEF CoreInv
<1>c. app \in Calls
  BY <1>s DEF TypeOK
<1>p. app.pc = "failed"
  BY DEF Undo
<1>a. /\ app' \in Calls /\ app'.pc = "return"
      /\ app'.kind = app.kind /\ app'.dev = app.dev /\ app'.n = app.n
      /\ app'.session = app.session
  BY <1>s, <1>c, <1>p DEF Undo, Calls
<1>u. UNCHANGED <<reply, bind_list, handler, server, requests, replies, last, unanswered,
                  budget>>
  BY DEF Undo
<1>v. session_list \in Seq(Sessions)
  BY <1>s DEF TypeOK
<1>w. /\ session_list' \in Seq(Sessions)
      /\ \A i, j \in DOMAIN session_list' : i # j => session_list'[i].dev # session_list'[j].dev
      /\ \A i \in DOMAIN session_list' :
           /\ session_list'[i].status = "ONLINE"
           /\ \E j \in DOMAIN session_list : session_list'[i] = session_list[j]
  <2>1. CASE app.kind = "online"
    <3>1. Adding /\ session_list' = subdev_remove_session(app.dev)
      BY <1>p, <2>1 DEF Undo, Adding
    <3>2. 1 \in DOMAIN session_list /\ session_list[1].dev = app.dev
      BY <1>s, <1>v, <3>1 DEF SessionInv
    <3>3. subdev_find_session(app.dev) # 0
      BY <1>s, <3>2, FindIs DEF Matches
    <3>4. /\ subdev_find_session(app.dev) \in DOMAIN session_list
          /\ subdev_find_session(app.dev) <= 1
      BY <1>s, <3>2, <3>3, FindIs DEF Matches
    <3>5. 1 = subdev_find_session(app.dev)
      BY <1>v, <3>4
    <3>6. /\ session_list' \in Seq(Sessions)
          /\ \A k \in DOMAIN session_list' :
               /\ k \in Int /\ k \in DOMAIN session_list /\ k + 1 \in DOMAIN session_list
               /\ k >= 1 => session_list'[k] = session_list[k + 1]
      BY <1>s, <3>1, <3>2, <3>5, RemoveIs
    <3>7. \A k \in DOMAIN session_list' : k + 1 # 1 /\ session_list'[k] = session_list[k + 1]
      BY <3>6, <1>v
    <3> QED
      BY <1>s, <3>1, <3>6, <3>7 DEF SessionInv
  <2>2. CASE app.kind # "online"
    <3>1. session_list' = session_list /\ ~Adding
      BY <2>2 DEF Undo, Adding
    <3> QED
      BY <1>s, <1>v, <3>1 DEF SessionInv
  <2> QED
    BY <2>1, <2>2
<1>1. TypeOK'
  BY <1>s, <1>a, <1>u, <1>w DEF TypeOK
<1>2. CallInv'
  BY <1>s, <1>p, <1>a, <1>u DEF CallInv
<1>3. KindInv'
  BY <1>s, <1>p, <1>a, <1>u DEF KindInv
<1>4. BoundInv'
  BY <1>s, <1>p, <1>a, <1>u DEF BoundInv
<1>5. OnceInv'
  BY <1>s, <1>p, <1>a, <1>u DEF OnceInv
<1>6. OverInv'
  BY <1>s, <1>p, <1>a, <1>u DEF OverInv
<1>7. NewInv'
  BY <1>s, <1>p, <1>a, <1>u DEF NewInv
<1>8. AwaitInv'
  BY <1>s, <1>p, <1>a, <1>u DEF AwaitInv, Awaited, Stray
<1>9. SlotInv'
  BY <1>s, <1>p, <1>a, <1>u DEF SlotInv, Own
<1>10. LastInv'
  BY <1>s, <1>p, <1>a, <1>u DEF LastInv, Own
<1>11. FiniteInv'
  BY <1>s, <1>p, <1>a, <1>u DEF FiniteInv, Listed
<1>12. BindInv'
  BY <1>s, <1>p, <1>a, <1>u DEF BindInv, NoStray, Listing, Listed
<1>13. HandInv'
  BY <1>s, <1>p, <1>a, <1>u DEF HandInv, NoStray
<1>14. SessionInv'
  BY <1>a, <1>w DEF SessionInv, Adding
<1>15. AgreeInv'
  <2>1. \A x : ~Closing(x) /\ (Solid(x) => Solid(x)')
    BY <1>p, <1>u DEF Solid, Closing
  <2> QED
    BY <1>s, <1>w, <2>1 DEF AgreeInv
<1>16. OnlineInv'
  BY <1>s, <1>p, <1>a, <1>u DEF OnlineInv, Solid, Adding
<1> QED
  BY <1>1, <1>2, <1>3, <1>4, <1>5, <1>6, <1>7, <1>8, <1>9, <1>10, <1>11, <1>12, <1>13,
       <1>14, <1>15, <1>16
    DEF CoreInv

(* A failed call returns what its slot holds by then: pending, or a result   *)
(* that is its own or a stray one.                                           *)
LEMMA ReturnStep ==
  ASSUME CoreInv, ReturnResult
  PROVE  CoreInv'
<1>s. /\ TypeOK /\ CallInv /\ KindInv /\ BoundInv /\ OnceInv /\ OverInv /\ NewInv
      /\ AwaitInv /\ SlotInv /\ LastInv /\ FiniteInv /\ BindInv /\ HandInv
      /\ SessionInv /\ AgreeInv /\ OnlineInv
  BY DEF CoreInv
<1>c. app \in Calls
  BY <1>s DEF TypeOK
<1>p. app.pc = "return"
  BY DEF ReturnResult
<1>a. app' \in Calls /\ app'.pc = "idle"
  BY DEF ReturnResult, Return, Idle, Calls, Names, Kinds
<1>u. UNCHANGED <<session_list, reply, bind_list, handler, server, requests, replies,
                  unanswered, budget>>
  BY DEF ReturnResult
<1>l. /\ last'.kind = app.kind /\ last'.dev = app.dev /\ last'.n = app.n
      /\ last'.rc = Result
      /\ last'.from = reply[app.kind].from /\ last'.list = <<>>
      /\ last'.sent = reply[app.kind].list
  BY DEF ReturnResult, Return
<1>1. TypeOK'
  BY <1>s, <1>a, <1>u DEF TypeOK
<1>2. CallInv'
  BY <1>s, <1>p, <1>a, <1>u DEF CallInv
<1>3. KindInv'
  BY <1>s, <1>p, <1>u, <1>l DEF KindInv, CallInv
<1>4. BoundInv'
  BY <1>s, <1>p, <1>a, <1>u DEF BoundInv
<1>5. OnceInv'
  BY <1>s, <1>p, <1>a, <1>u DEF OnceInv
<1>6. OverInv'
  BY <1>s, <1>p, <1>a, <1>u DEF OverInv
<1>7. NewInv'
  BY <1>s, <1>p, <1>a, <1>u DEF NewInv
<1>8. AwaitInv'
  BY <1>s, <1>p, <1>a, <1>u DEF AwaitInv, Awaited, Stray
<1>9. SlotInv'
  BY <1>s, <1>p, <1>a, <1>u DEF SlotInv, Own
<1>10. LastInv'
  BY <1>s, <1>p, <1>u, <1>l DEF LastInv, SlotInv, Own, Result
<1>11. FiniteInv'
  BY <1>s, <1>p, <1>a, <1>u DEF FiniteInv, Listed
<1>12. BindInv'
  BY <1>s, <1>p, <1>a, <1>u DEF BindInv, NoStray, Listing, Listed
<1>13. HandInv'
  BY <1>s, <1>p, <1>u, <1>l DEF HandInv, BindInv, NoStray, Listing, Listed, Result
<1>14. SessionInv'
  BY <1>s, <1>p, <1>a, <1>u DEF SessionInv, Adding
<1>15. AgreeInv'
  BY <1>s, <1>p, <1>a, <1>u DEF AgreeInv, Solid, Closing
<1>16. OnlineInv'
  BY <1>s, <1>p, <1>a, <1>u DEF OnlineInv, Solid, Adding
<1> QED
  BY <1>1, <1>2, <1>3, <1>4, <1>5, <1>6, <1>7, <1>8, <1>9, <1>10, <1>11, <1>12, <1>13,
       <1>14, <1>15, <1>16
    DEF CoreInv

-----------------------------------------------------------------------------
(* The message handler.                                                      *)

(* A reply is written to the slot of its kind when that slot has its name or *)
(* a longer one: it is the reply its call waits for or a stray one.          *)
LEMMA HandleResultStep ==
  ASSUME CoreInv, HandleResult
  PROVE  CoreInv'
<1>s. /\ TypeOK /\ CallInv /\ KindInv /\ BoundInv /\ OnceInv /\ OverInv /\ NewInv
      /\ AwaitInv /\ SlotInv /\ LastInv /\ FiniteInv /\ BindInv /\ HandInv
      /\ SessionInv /\ AgreeInv /\ OnlineInv
  BY DEF CoreInv
<1>v. PICK r : r = Head(replies)
  OBVIOUS
<1>h. /\ replies # <<>> /\ replies' = Tail(replies) /\ handler = NoHandler
      /\ r = Head(replies) /\ r.kind # "describe_sub_devices"
  BY <1>v DEF HandleResult
<1>u. UNCHANGED <<session_list, bind_list, app, handler, server, requests, last, unanswered,
                  budget>>
  BY DEF HandleResult
<1>q. requests \in Seq(Requests) /\ replies \in Seq(Replies)
  BY <1>s DEF TypeOK
<1>t. /\ \A i \in DOMAIN requests : requests[i].n \in Nat
      /\ \A i \in DOMAIN replies : replies[i].n \in Nat
      /\ handler.n \in Nat /\ \A j \in Kinds : reply[j].from \in Nat
  <2>1. \A i \in DOMAIN requests : requests[i] \in Requests
    BY <1>q
  <2>2. \A i \in DOMAIN replies : replies[i] \in Replies
    BY <1>q
  <2>3. handler.n \in Nat /\ \A j \in Kinds : reply[j] \in Slots
    BY <1>s DEF TypeOK
  <2> QED
    BY <2>1, <2>2, <2>3 DEF Requests, Replies, Slots
<1>k. "describe_sub_devices" \in Kinds /\ "offline" \in Kinds /\ "online" \in Kinds
  BY DEF Kinds
<1>d. /\ replies' \in Seq(Replies) /\ r \in Replies /\ 1 \in DOMAIN replies
      /\ r = replies[1]
      /\ \A i \in DOMAIN replies' :
           /\ i \in Int /\ i >= 1 /\ i + 1 \in DOMAIN replies /\ i + 1 # 1
           /\ replies'[i] = replies[i + 1]
      /\ \A i \in DOMAIN replies :
           i \in Int /\ i >= 1 /\ (i # 1 =>
                  i - 1 \in DOMAIN replies' /\ replies'[i - 1] = replies[i])
  <2>1. replies # <<>> /\ replies' = Tail(replies)
    BY <1>h
  <2>2. /\ replies' \in Seq(Replies) /\ r \in Replies /\ 1 \in DOMAIN replies
        /\ r = replies[1]
        /\ \A i \in DOMAIN replies' :
             i \in Int /\ i >= 1 /\ i + 1 \in DOMAIN replies /\ replies'[i] = replies[i + 1]
        /\ \A i \in DOMAIN replies :
             i \in Int /\ i >= 1 /\ (i # 1 =>
                    i - 1 \in DOMAIN replies' /\ replies'[i - 1] = replies[i])
    BY <1>q, <1>h, <2>1, TailIs
  <2> QED
    BY <2>2
<1>f. r.kind \in Kinds /\ r.dev \in Names /\ r.n \in Nat /\ r.result \in {"ok", "refused"}
  BY <1>d DEF Replies
<1>g. /\ Matches(r.dev, reply[r.kind].client_id) =>
           reply' = [reply EXCEPT ![r.kind] =
                       [reply[r.kind] EXCEPT !.result = r.result, !.from = r.n]]
      /\ ~Matches(r.dev, reply[r.kind].client_id) => reply' = reply
  BY <1>s, <1>f, <1>v DEF HandleResult, TypeOK
<1>m. /\ reply' \in [Kinds -> Slots]
      /\ \A k \in Kinds : reply'[k].client_id = reply[k].client_id /\ reply'[k].list = reply[k].list
      /\ \A k \in Kinds : \/ reply'[k] = reply[k]
                          \/ /\ k = r.kind /\ Matches(r.dev, reply[k].client_id)
                             /\ reply'[k].result = r.result /\ reply'[k].from = r.n
  <2>1. PICK e : e = [reply[r.kind] EXCEPT !.result = r.result, !.from = r.n]
    OBVIOUS
  <2>2. reply[r.kind] \in Slots
    BY <1>s, <1>f DEF TypeOK
  <2>3. /\ e \in Slots /\ e.client_id = reply[r.kind].client_id
        /\ e.list = reply[r.kind].list
        /\ e.result = r.result /\ e.from = r.n
    BY <1>f, <2>1, <2>2 DEF Slots
  <2>4. CASE Matches(r.dev, reply[r.kind].client_id)
    <3>1. reply' = [reply EXCEPT ![r.kind] = e]
      BY <1>g, <2>1, <2>4
    <3>2. reply \in [Kinds -> Slots]
      BY <1>s DEF TypeOK
    <3>3. reply'[r.kind] = e /\ \A k \in Kinds : k # r.kind => reply'[k] = reply[k]
      BY <1>f, <3>1, <3>2
    <3>4. reply' \in [Kinds -> Slots]
      BY <1>f, <2>3, <3>1, <3>2
    <3> QED
      BY <2>3, <2>4, <3>3, <3>4
  <2>5. CASE ~Matches(r.dev, reply[r.kind].client_id)
    BY <1>s, <1>g, <2>5 DEF TypeOK
  <2> QED
    BY <2>4, <2>5
<1>w. Awaited(r.kind, r.dev, r.n)
  BY <1>s, <1>d DEF AwaitInv
<1>o. \A i \in DOMAIN replies' : replies'[i].n # r.n
  BY <1>s, <1>d DEF OnceInv
<1>1. TypeOK'
  BY <1>s, <1>u, <1>d, <1>m DEF TypeOK
<1>2. CallInv'
  <2>1. app.kind \in Kinds
    BY <1>s DEF TypeOK, Calls
  <2> QED
    BY <1>s, <1>u, <1>m, <2>1 DEF CallInv
<1>3. KindInv'
  <2>1. /\ reply'["offline"].result # "refused"
        /\ reply'["describe_sub_devices"].result # "refused"
    BY <1>s, <1>k, <1>d, <1>h, <1>m DEF KindInv
  <2> QED
    BY <1>s, <1>d, <1>u, <2>1 DEF KindInv
<1>4. BoundInv'
  <2>1. r.n <= budget.requests
    BY <1>s, <1>d, <1>f DEF BoundInv, TypeOK
  <2> QED
    BY <1>s, <1>d, <1>u, <1>m, <2>1 DEF BoundInv
<1>5. OnceInv'
  BY <1>s, <1>d, <1>f, <1>u, <1>m, <1>k DEF OnceInv
<1>6. OverInv'
  BY <1>s, <1>d, <1>o, <1>u, <1>m, <1>h DEF OverInv, OnceInv, NoHandler
<1>7. NewInv'
  BY <1>s, <1>d, <1>u, <1>m DEF NewInv
<1>8. AwaitInv'
  BY <1>s, <1>d, <1>f, <1>u, <1>m, <1>k DEF AwaitInv, Awaited, Stray
<1>9. SlotInv'
  <2>1. app.kind \in Kinds
    BY <1>s DEF TypeOK, Calls
  <2>2. CASE reply'[app.kind] = reply[app.kind]
    BY <1>s, <1>u, <2>2 DEF SlotInv, Own
  <2>3. CASE /\ app.kind = r.kind /\ Matches(r.dev, reply[app.kind].client_id)
             /\ reply'[app.kind].result = r.result /\ reply'[app.kind].from = r.n
    <3>1. ASSUME app.pc # "idle" PROVE Own(app.kind, app.dev, app.n, r.n)
      BY <1>s, <1>w, <2>3, <3>1 DEF CallInv, Awaited, Stray, Own
    <3>2. Own(app.kind, app.dev, app.n, r.n)' <=> Own(app.kind, app.dev, app.n, r.n)
      BY <1>u, <1>d DEF Own
    <3> QED
      BY <1>u, <1>f, <2>3, <3>1 DEF SlotInv, Own
  <2> QED
    BY <1>m, <2>1, <2>2, <2>3
<1>10. LastInv'
  BY <1>s, <1>d, <1>f, <1>u, <1>m, <1>k DEF LastInv, Own
<1>11. FiniteInv'
  BY <1>s, <1>d, <1>u, <1>m, <1>k DEF FiniteInv, Listed
<1>12. BindInv'
  <2>1. Listed' = Listed
    BY <1>m, <1>k, <1>h DEF Listed
  <2> QED
    BY <1>s, <1>u, <2>1 DEF BindInv, NoStray, Listing
<1>13. HandInv'
  BY <1>s, <1>d, <1>f, <1>u, <1>m, <1>k DEF HandInv, NoStray
<1>14. SessionInv'
  BY <1>s, <1>d, <1>f, <1>u, <1>m, <1>k DEF SessionInv, Adding
<1>15. AgreeInv'
  BY <1>s, <1>d, <1>f, <1>u, <1>m, <1>k DEF AgreeInv, Solid, Closing
<1>16. OnlineInv'
  <2>1. ASSUME NEW i \in DOMAIN replies', replies'[i].kind = "online", replies'[i].result = "ok"
        PROVE  \/ Solid(replies'[i].dev)
               \/ \E j \in DOMAIN replies' :
                    j > i /\ replies'[j].kind = "offline" /\ replies'[j].dev = replies'[i].dev
    <3>1. CASE Solid(replies[i + 1].dev)
      BY <1>d, <2>1, <3>1
    <3>2. CASE \E j \in DOMAIN replies :
                 j > i + 1 /\ replies[j].kind = "offline" /\ replies[j].dev = replies[i + 1].dev
      <4>1. PICK j \in DOMAIN replies :
                 j > i + 1 /\ replies[j].kind = "offline" /\ replies[j].dev = replies[i + 1].dev
        BY <3>2
      <4>2. j \in Int /\ i \in Int /\ i >= 1 /\ j # 1 /\ j - 1 > i
        BY <1>d, <2>1, <4>1
      <4>3. j - 1 \in DOMAIN replies' /\ replies'[j - 1] = replies[j]
        BY <1>d, <4>1, <4>2
      <4>4. replies'[i] = replies[i + 1]
        BY <1>d
      <4>5. /\ j - 1 > i /\ replies'[j - 1].kind = "offline"
            /\ replies'[j - 1].dev = replies'[i].dev
        BY <4>1, <4>2, <4>3, <4>4
      <4> QED
        BY <4>3, <4>5
    <3> QED
      BY <1>s, <1>d, <2>1, <3>1, <3>2 DEF OnlineInv
  <2>2. ASSUME Adding, reply'["online"].result = "ok" \/ app.pc = "done" PROVE Solid(app.dev)
    <3>1. CASE reply'["online"] = reply["online"]
      BY <1>s, <2>2, <3>1 DEF OnlineInv
    <3>2. CASE /\ r.kind = "online" /\ Matches(r.dev, reply["online"].client_id)
               /\ reply'["online"].result = r.result
      <4>1. app.kind = "online" /\ app.dev = reply["online"].client_id /\ app.pc # "idle"
        BY <1>s, <2>2 DEF Adding, CallInv
      <4>2. CASE app.pc = "done"
        BY <1>s, <2>2, <4>2 DEF OnlineInv
      <4>3. CASE <<r.dev, app.dev>> \in NamePrefixes
        <5>1. r.dev # app.dev
          BY <4>3, PrefixAssumption
        <5>2. Stray("online", r.dev, r.n)
          BY <1>w, <3>2, <5>1 DEF Awaited
        <5> QED
          BY <4>3, <5>2 DEF Stray, Solid
      <4>4. CASE r.dev = app.dev /\ r.result = "ok"
        <5>1. CASE Solid(r.dev)
          BY <4>4, <5>1
        <5>2. CASE \E j \in DOMAIN replies : replies[j].kind = "offline" /\ replies[j].dev = r.dev
          <6>1. PICK j \in DOMAIN replies : replies[j].kind = "offline" /\ replies[j].dev = r.dev
            BY <5>2
          <6>2. Awaited("offline", r.dev, replies[j].n)
            BY <1>s, <6>1 DEF AwaitInv
          <6>3. Stray("offline", r.dev, replies[j].n)
            BY <4>1, <6>2 DEF Awaited
          <6> QED
            BY <4>4, <6>3 DEF Stray, Solid
        <5> QED
          BY <1>s, <1>d, <3>2, <4>4, <5>1, <5>2 DEF OnlineInv
      <4> QED
        BY <2>2, <3>2, <4>1, <4>2, <4>3, <4>4 DEF Matches
    <3> QED
      BY <1>m, <1>k, <3>1, <3>2
  <2>3. \A x : Solid(x)' <=> Solid(x)
    BY <1>u DEF Solid
  <2> QED
    BY <1>u, <2>1, <2>2, <2>3 DEF OnlineInv, Adding
<1> QED
  BY <1>1, <1>2, <1>3, <1>4, <1>5, <1>6, <1>7, <1>8, <1>9, <1>10, <1>11, <1>12, <1>13,
       <1>14, <1>15, <1>16
    DEF CoreInv

(* The handler starts on a bind list; without strays it is the first since   *)
(* the call started, in front of an empty list.                              *)
LEMMA ProcBindListStep ==
  ASSUME CoreInv, _subdev_proc_get_bindlist
  PROVE  CoreInv'
<1>s. /\ TypeOK /\ CallInv /\ KindInv /\ BoundInv /\ OnceInv /\ OverInv /\ NewInv
      /\ AwaitInv /\ SlotInv /\ LastInv /\ FiniteInv /\ BindInv /\ HandInv
      /\ SessionInv /\ AgreeInv /\ OnlineInv
  BY DEF CoreInv
<1>v. PICK r : r = Head(replies)
  OBVIOUS
<1>h. /\ replies # <<>> /\ replies' = Tail(replies) /\ handler = NoHandler
      /\ r = Head(replies) /\ r.kind = "describe_sub_devices"
  BY <1>v DEF _subdev_proc_get_bindlist
<1>u. UNCHANGED <<session_list, reply, app, server, requests, last, unanswered, budget>>
  BY DEF _subdev_proc_get_bindlist
<1>q. requests \in Seq(Requests) /\ replies \in Seq(Replies)
  BY <1>s DEF TypeOK
<1>t. /\ \A i \in DOMAIN requests : requests[i].n \in Nat
      /\ \A i \in DOMAIN replies : replies[i].n \in Nat
      /\ handler.n \in Nat /\ \A j \in Kinds : reply[j].from \in Nat
  <2>1. \A i \in DOMAIN requests : requests[i] \in Requests
    BY <1>q
  <2>2. \A i \in DOMAIN replies : replies[i] \in Replies
    BY <1>q
  <2>3. handler.n \in Nat /\ \A j \in Kinds : reply[j] \in Slots
    BY <1>s DEF TypeOK
  <2> QED
    BY <2>1, <2>2, <2>3 DEF Requests, Replies, Slots
<1>k. "describe_sub_devices" \in Kinds /\ "offline" \in Kinds /\ "online" \in Kinds
  BY DEF Kinds
<1>d. /\ replies' \in Seq(Replies) /\ r \in Replies /\ 1 \in DOMAIN replies
      /\ r = replies[1]
      /\ \A i \in DOMAIN replies' :
           /\ i \in Int /\ i >= 1 /\ i + 1 \in DOMAIN replies /\ i + 1 # 1
           /\ replies'[i] = replies[i + 1]
      /\ \A i \in DOMAIN replies :
           i \in Int /\ i >= 1 /\ (i # 1 =>
                  i - 1 \in DOMAIN replies' /\ replies'[i - 1] = replies[i])
  <2>1. replies # <<>> /\ replies' = Tail(replies)
    BY <1>h
  <2>2. /\ replies' \in Seq(Replies) /\ r \in Replies /\ 1 \in DOMAIN replies
        /\ r = replies[1]
        /\ \A i \in DOMAIN replies' :
             i \in Int /\ i >= 1 /\ i + 1 \in DOMAIN replies /\ replies'[i] = replies[i + 1]
        /\ \A i \in DOMAIN replies :
             i \in Int /\ i >= 1 /\ (i # 1 =>
                    i - 1 \in DOMAIN replies' /\ replies'[i - 1] = replies[i])
    BY <1>q, <1>h, <2>1, TailIs
  <2> QED
    BY <2>2
<1>f. /\ r.n \in Nat /\ r.list \in SUBSET Names /\ r.n \in 1..budget.requests /\ r.n # 0
      /\ r.dev = NoDevice /\ IsFiniteSet(r.list)
  <2>1. r.n \in Nat /\ r.list \in SUBSET Names
    BY <1>d DEF Replies
  <2>2. budget.requests \in Nat
    BY <1>s DEF TypeOK
  <2> QED
    BY <1>s, <1>d, <1>h, <2>1, <2>2 DEF BoundInv, KindInv, FiniteInv
<1>g. handler' = [n |-> r.n, list |-> r.list]
  BY <1>v DEF _subdev_proc_get_bindlist
<1>m. /\ handler'.n = r.n /\ handler'.list = r.list
      /\ handler' \in [n : Nat, list : SUBSET Names]
  BY <1>f, <1>g
<1>b. bind_list' = SetToSeq(r.list) \o bind_list
  BY <1>v DEF _subdev_proc_get_bindlist
<1>w. Awaited("describe_sub_devices", NoDevice, r.n)
  BY <1>s, <1>d, <1>h, <1>f DEF AwaitInv
<1>o. \A i \in DOMAIN replies' : replies'[i].n # r.n
  BY <1>s, <1>d DEF OnceInv
<1>1. TypeOK'
  BY <1>s, <1>u, <1>d, <1>m DEF TypeOK
<1>2. CallInv'
  BY <1>s, <1>d, <1>f, <1>u, <1>m, <1>k DEF CallInv
<1>3. KindInv'
  BY <1>s, <1>d, <1>f, <1>u, <1>m, <1>k DEF KindInv
<1>4. BoundInv'
  <2>1. r.n <= budget.requests
    BY <1>s, <1>f DEF TypeOK
  <2> QED
    BY <1>s, <1>d, <1>u, <1>m, <2>1 DEF BoundInv
<1>5. OnceInv'
  BY <1>s, <1>d, <1>o, <1>u, <1>m, <1>h DEF OnceInv
<1>6. OverInv'
  BY <1>s, <1>d, <1>f, <1>u, <1>m, <1>k DEF OverInv
<1>7. NewInv'
  BY <1>s, <1>d, <1>f, <1>u, <1>m, <1>k DEF NewInv
<1>8. AwaitInv'
  <2>1. \A kind, dev, n : Awaited(kind, dev, n)' <=> Awaited(kind, dev, n)
    BY <1>u DEF Awaited, Stray
  <2>2. \A i \in DOMAIN replies' : Awaited(replies'[i].kind, replies'[i].dev, replies'[i].n)
    BY <1>s, <1>d DEF AwaitInv
  <2>3. \A i \in DOMAIN requests : Awaited(requests[i].kind, requests[i].dev, requests[i].n)
    BY <1>s DEF AwaitInv
  <2> QED
    BY <1>u, <1>m, <1>w, <2>1, <2>2, <2>3 DEF AwaitInv
<1>9. SlotInv'
  BY <1>s, <1>d, <1>f, <1>u, <1>m, <1>k DEF SlotInv, Own
<1>10. LastInv'
  BY <1>s, <1>d, <1>f, <1>u, <1>m, <1>k DEF LastInv, Own
<1>11. FiniteInv'
  BY <1>s, <1>d, <1>f, <1>u, <1>m, <1>k DEF FiniteInv, Listed
<1>12. BindInv'
  <2>1. SUFFICES ASSUME NoStray, Listing PROVE BindInv'
    BY <1>u DEF BindInv, NoStray, Listing
  <2>2. app.pc = "wait" /\ app.n = r.n
    BY <1>w, <2>1 DEF Awaited, Stray, NoStray
  <2>3. Listed.from # r.n
    BY <1>s, <1>d, <1>k DEF OverInv, Listed
  <2>4. Listed.result = "pending"
    BY <1>s, <2>1, <2>2, <2>3 DEF SlotInv, Own, NoStray, Listing, Listed
  <2>5. bind_list = <<>>
    BY <1>s, <1>h, <2>1, <2>4 DEF BindInv
  <2>6. SetToSeq(r.list) \in Seq(r.list)
    BY <1>f, SetToSeqIs
  <2>7. bind_list' = SetToSeq(handler'.list)
    BY <1>b, <1>m, <2>5, <2>6
  <2>8. handler' # NoHandler /\ Listed' = Listed
    BY <1>f, <1>m, <1>u DEF NoHandler, Listed
  <2> QED
    BY <1>u, <2>1, <2>2, <2>4, <2>7, <2>8 DEF BindInv
<1>13. HandInv'
  BY <1>s, <1>d, <1>f, <1>u, <1>m, <1>k DEF HandInv, NoStray
<1>14. SessionInv'
  BY <1>s, <1>d, <1>f, <1>u, <1>m, <1>k DEF SessionInv, Adding
<1>15. AgreeInv'
  BY <1>s, <1>d, <1>f, <1>u, <1>m, <1>k DEF AgreeInv, Solid, Closing
<1>16. OnlineInv'
  <2>1. ASSUME NEW i \in DOMAIN replies', replies'[i].kind = "online", replies'[i].result = "ok"
        PROVE  \/ Solid(replies'[i].dev)
               \/ \E j \in DOMAIN replies' :
                    j > i /\ replies'[j].kind = "offline" /\ replies'[j].dev = replies'[i].dev
    <3>1. CASE Solid(replies[i + 1].dev)
      BY <1>d, <2>1, <3>1
    <3>2. CASE \E j \in DOMAIN replies :
                 j > i + 1 /\ replies[j].kind = "offline" /\ replies[j].dev = replies[i + 1].dev
      <4>1. PICK j \in DOMAIN replies :
                 j > i + 1 /\ replies[j].kind = "offline" /\ replies[j].dev = replies[i + 1].dev
        BY <3>2
      <4>2. j \in Int /\ i \in Int /\ i >= 1 /\ j # 1 /\ j - 1 > i
        BY <1>d, <2>1, <4>1
      <4>3. j - 1 \in DOMAIN replies' /\ replies'[j - 1] = replies[j]
        BY <1>d, <4>1, <4>2
      <4>4. replies'[i] = replies[i + 1]
        BY <1>d
      <4>5. /\ j - 1 > i /\ replies'[j - 1].kind = "offline"
            /\ replies'[j - 1].dev = replies'[i].dev
        BY <4>1, <4>2, <4>3, <4>4
      <4> QED
        BY <4>3, <4>5
    <3> QED
      BY <1>s, <1>d, <2>1, <3>1, <3>2 DEF OnlineInv
  <2>2. \A x : Solid(x)' <=> Solid(x)
    BY <1>u DEF Solid
  <2> QED
    BY <1>s, <1>u, <2>1, <2>2 DEF OnlineInv, Adding
<1> QED
  BY <1>1, <1>2, <1>3, <1>4, <1>5, <1>6, <1>7, <1>8, <1>9, <1>10, <1>11, <1>12, <1>13,
       <1>14, <1>15, <1>16
    DEF CoreInv

(* The result of the bind list the handler has read.                         *)
LEMMA BindListReadyStep ==
  ASSUME CoreInv, BindListReady
  PROVE  CoreInv'
<1>s. /\ TypeOK /\ CallInv /\ KindInv /\ BoundInv /\ OnceInv /\ OverInv /\ NewInv
      /\ AwaitInv /\ SlotInv /\ LastInv /\ FiniteInv /\ BindInv /\ HandInv
      /\ SessionInv /\ AgreeInv /\ OnlineInv
  BY DEF CoreInv
<1>u. UNCHANGED <<session_list, bind_list, app, server, requests, replies, last, unanswered,
                  budget>>
  BY DEF BindListReady
<1>q. requests \in Seq(Requests) /\ replies \in Seq(Replies)
  BY <1>s DEF TypeOK
<1>t. /\ \A i \in DOMAIN requests : requests[i].n \in Nat
      /\ \A i \in DOMAIN replies : replies[i].n \in Nat
      /\ handler.n \in Nat /\ \A j \in Kinds : reply[j].from \in Nat
  <2>1. \A i \in DOMAIN requests : requests[i] \in Requests
    BY <1>q
  <2>2. \A i \in DOMAIN replies : replies[i] \in Replies
    BY <1>q
  <2>3. handler.n \in Nat /\ \A j \in Kinds : reply[j] \in Slots
    BY <1>s DEF TypeOK
  <2> QED
    BY <2>1, <2>2, <2>3 DEF Requests, Replies, Slots
<1>k. "describe_sub_devices" \in Kinds /\ "offline" \in Kinds /\ "online" \in Kinds
  BY DEF Kinds
<1>f. /\ handler # NoHandler /\ handler' = NoHandler /\ handler'.n = 0 /\ handler'.list = {}
      /\ handler.n # 0
  BY <1>s DEF BindListReady, NoHandler, KindInv
<1>g. reply' = [reply EXCEPT !["describe_sub_devices"] =
                  [reply["describe_sub_devices"] EXCEPT !.result = "ok",
                                                        !.from = handler.n,
                                                        !.list = handler.list]]
  BY <1>s, <1>k DEF BindListReady, TypeOK
<1>m. /\ reply' \in [Kinds -> Slots]
      /\ \A k \in Kinds : reply'[k].client_id = reply[k].client_id
      /\ \A k \in Kinds : k # "describe_sub_devices" => reply'[k] = reply[k]
      /\ Listed'.result = "ok" /\ Listed'.from = handler.n /\ Listed'.list = handler.list
  <2>1. PICK e : e = [reply["describe_sub_devices"] EXCEPT !.result = "ok",
                                                           !.from = handler.n,
                                                           !.list = handler.list]
    OBVIOUS
  <2>2. /\ reply["describe_sub_devices"] \in Slots /\ handler.n \in Nat
        /\ handler.list \in SUBSET Names
    BY <1>s, <1>k DEF TypeOK
  <2>3. /\ e \in Slots /\ e.client_id = reply["describe_sub_devices"].client_id
        /\ e.result = "ok" /\ e.from = handler.n /\ e.list = handler.list
    BY <2>1, <2>2 DEF Slots
  <2>4. reply' = [reply EXCEPT !["describe_sub_devices"] = e] /\ reply \in [Kinds -> Slots]
    BY <1>s, <1>g, <2>1 DEF TypeOK
  <2>5. /\ reply'["describe_sub_devices"] = e
        /\ \A k \in Kinds : k # "describe_sub_devices" => reply'[k] = reply[k]
    BY <1>k, <2>4
  <2>6. reply' \in [Kinds -> Slots]
    BY <1>k, <2>3, <2>4
  <2> QED
    BY <2>3, <2>5, <2>6 DEF Listed
<1>w. Awaited("describe_sub_devices", NoDevice, handler.n)
  BY <1>s, <1>f DEF AwaitInv
<1>y. app.kind \in Kinds
  BY <1>s DEF TypeOK, Calls
<1>1. TypeOK'
  BY <1>s, <1>u, <1>f, <1>m DEF TypeOK, NoHandler
<1>2. CallInv'
  BY <1>s, <1>u, <1>m, <1>y DEF CallInv
<1>3. KindInv'
  BY <1>s, <1>u, <1>f, <1>m, <1>k DEF KindInv, Listed
<1>4. BoundInv'
  <2>1. budget.requests \in Nat /\ handler'.n <= budget.requests
    BY <1>s, <1>f DEF TypeOK
  <2>2. \A k \in Kinds : reply'[k].from <= budget.requests
    BY <1>s, <1>m DEF BoundInv, Listed
  <2> QED
    BY <1>s, <1>u, <2>1, <2>2 DEF BoundInv
<1>5. OnceInv'
  <2>1. \A i \in DOMAIN requests : requests[i].n # 0
    BY <1>s, <1>t DEF BoundInv, TypeOK
  <2>2. \A i \in DOMAIN replies : replies[i].n # 0
    BY <1>s, <1>t DEF BoundInv, TypeOK
  <2> QED
    BY <1>s, <1>u, <1>f, <2>1, <2>2 DEF OnceInv
<1>6. OverInv'
  BY <1>s, <1>u, <1>f, <1>m DEF OverInv, OnceInv, Listed
<1>7. NewInv'
  <2>1. app.pc \in {"enter", "publish"} => app.n # 0
    BY <1>s DEF BoundInv, TypeOK
  <2> QED
    BY <1>s, <1>u, <1>f, <1>m, <2>1 DEF NewInv, Listed
<1>8. AwaitInv'
  BY <1>s, <1>f, <1>u, <1>m, <1>k DEF AwaitInv, Awaited, Stray
<1>9. SlotInv'
  <2>1. CASE app.kind # "describe_sub_devices"
    BY <1>s, <1>u, <1>m, <1>y, <2>1 DEF SlotInv, Own
  <2>2. CASE app.kind = "describe_sub_devices"
    <3>1. ASSUME app.pc # "idle" PROVE Own(app.kind, app.dev, app.n, handler.n)
      BY <1>s, <1>w, <2>2, <3>1 DEF CallInv, Awaited, Stray, Own, Matches
    <3> QED
      BY <1>u, <1>m, <2>2, <3>1 DEF SlotInv, Own, Listed
  <2> QED
    BY <2>1, <2>2
<1>10. LastInv'
  BY <1>s, <1>f, <1>u, <1>m, <1>k DEF LastInv, Own
<1>11. FiniteInv'
  BY <1>s, <1>u, <1>f, <1>m, FS_EmptySet DEF FiniteInv, Listed
<1>12. BindInv'
  <2>1. SUFFICES ASSUME NoStray, Listing PROVE BindInv'
    BY <1>u DEF BindInv, NoStray, Listing
  <2>2. app.pc = "wait" /\ bind_list = SetToSeq(handler.list)
    BY <1>s, <1>f, <1>w, <2>1 DEF Awaited, Stray, NoStray, BindInv
  <2> QED
    BY <1>u, <1>f, <1>m, <2>2 DEF BindInv
<1>13. HandInv'
  BY <1>s, <1>f, <1>u, <1>m, <1>k DEF HandInv, NoStray
<1>14. SessionInv'
  BY <1>s, <1>f, <1>u, <1>m, <1>k DEF SessionInv, Adding
<1>15. AgreeInv'
  BY <1>s, <1>f, <1>u, <1>m, <1>k DEF AgreeInv, Solid, Closing
<1>16. OnlineInv'
  <2>1. (\A x : Solid(x)' <=> Solid(x)) /\ (Adding' <=> Adding)
    BY <1>u DEF Solid, Adding
  <2>2. reply'["online"] = reply["online"] /\ UNCHANGED <<app, replies>>
    BY <1>u, <1>m, <1>k
  <2> QED
    BY <1>s, <2>1, <2>2 DEF OnlineInv
<1> QED
  BY <1>1, <1>2, <1>3, <1>4, <1>5, <1>6, <1>7, <1>8, <1>9, <1>10, <1>11, <1>12, <1>13,
       <1>14, <1>15, <1>16
    DEF CoreInv

-----------------------------------------------------------------------------
(* The server and the network.                                               *)

(* The server does what the request says: it may put a sub-device off line   *)
(* whose session is on line, but then the request is that of the offline     *)
(* call in progress or of one that has given up.                             *)
LEMMA ServerAcceptsStep ==
  ASSUME CoreInv, ServerAccepts
  PROVE  CoreInv'
<1>s. /\ TypeOK /\ CallInv /\ KindInv /\ BoundInv /\ OnceInv /\ OverInv /\ NewInv
      /\ AwaitInv /\ SlotInv /\ LastInv /\ FiniteInv /\ BindInv /\ HandInv
      /\ SessionInv /\ AgreeInv /\ OnlineInv
  BY DEF CoreInv
<1>v. PICK r : r = Head(requests)
  OBVIOUS
<1>h. requests # <<>> /\ requests' = Tail(requests) /\ r = Head(requests)
  BY <1>v DEF ServerAccepts
<1>u. UNCHANGED <<session_list, reply, bind_list, app, handler, last, unanswered, budget>>
  BY DEF ServerAccepts
<1>q. requests \in Seq(Requests) /\ replies \in Seq(Replies)
  BY <1>s DEF TypeOK
<1>t. /\ \A i \in DOMAIN requests : requests[i].n \in Nat
      /\ \A i \in DOMAIN replies : replies[i].n \in Nat
      /\ handler.n \in Nat /\ \A j \in Kinds : reply[j].from \in Nat
  <2>1. \A i \in DOMAIN requests : requests[i] \in Requests
    BY <1>q
  <2>2. \A i \in DOMAIN replies : replies[i] \in Replies
    BY <1>q
  <2>3. handler.n \in Nat /\ \A j \in Kinds : reply[j] \in Slots
    BY <1>s DEF TypeOK
  <2> QED
    BY <2>1, <2>2, <2>3 DEF Requests, Replies, Slots
<1>k. "describe_sub_devices" \in Kinds /\ "offline" \in Kinds /\ "online" \in Kinds
  BY DEF Kinds
<1>d. /\ requests' \in Seq(Requests) /\ r \in Requests /\ 1 \in DOMAIN requests
      /\ r = requests[1]
      /\ \A i \in DOMAIN requests' :
           /\ i \in Int /\ i >= 1 /\ i + 1 \in DOMAIN requests /\ i + 1 # 1
           /\ requests'[i] = requests[i + 1]
      /\ \A i \in DOMAIN requests :
           i \in Int /\ i >= 1 /\ (i # 1 =>
                  i - 1 \in DOMAIN requests' /\ requests'[i - 1] = requests[i])
  <2>1. requests # <<>> /\ requests' = Tail(requests)
    BY <1>h
  <2>2. /\ requests' \in Seq(Requests) /\ r \in Requests /\ 1 \in DOMAIN requests
        /\ r = requests[1]
        /\ \A i \in DOMAIN requests' :
             i \in Int /\ i >= 1 /\ i + 1 \in DOMAIN requests /\ requests'[i] = requests[i + 1]
        /\ \A i \in DOMAIN requests :
             i \in Int /\ i >= 1 /\ (i # 1 =>
                    i - 1 \in DOMAIN requests' /\ requests'[i - 1] = requests[i])
    BY <1>q, <1>h, <2>1, TailIs
  <2> QED
    BY <2>2
<1>f. r.kind \in Kinds /\ r.dev \in Names /\ r.n \in Nat
  BY <1>d DEF Requests
<1>l. PICK l : l = (IF r.kind = "describe_sub_devices" THEN server.bound ELSE {})
  OBVIOUS
<1>i. l \in SUBSET Names /\ IsFiniteSet(l)
  BY <1>s, <1>l, FS_EmptySet DEF TypeOK, FiniteInv
<1>e. PICK e : e = [kind |-> r.kind, dev |-> r.dev, n |-> r.n, result |-> "ok", list |-> l]
  OBVIOUS
<1>g. /\ e \in Replies /\ e.kind = r.kind /\ e.dev = r.dev /\ e.n = r.n /\ e.result = "ok"
      /\ e.list = l
  BY <1>f, <1>i, <1>e DEF Replies
<1>r. replies' = Append(replies, e)
  BY <1>v, <1>l, <1>e DEF ServerAccepts, Answer
<1>n. PICK m \in DOMAIN replies' :
        /\ replies' \in Seq(Replies) /\ m \notin DOMAIN replies /\ replies'[m] = e
        /\ m \in Int
        /\ \A i \in DOMAIN replies :
             i \in Int /\ i < m /\ i \in DOMAIN replies' /\ replies'[i] = replies[i]
        /\ \A i \in DOMAIN replies' : i = m \/ (i \in DOMAIN replies /\ replies'[i] = replies[i])
  BY <1>q, <1>g, <1>r, AppendIs
<1>w. Awaited(r.kind, r.dev, r.n)
  BY <1>s, <1>d DEF AwaitInv
<1>o. /\ \A i \in DOMAIN requests' : requests'[i].n # r.n
      /\ \A i \in DOMAIN replies : replies[i].n # r.n
  BY <1>s, <1>d DEF OnceInv
<1>x. /\ server' \in [online : SUBSET Names, bound : SUBSET Names]
      /\ IsFiniteSet(server'.bound)
      /\ r.kind = "online" => r.dev \in server'.online
      /\ \A x \in server.online : x \in server'.online \/ (r.kind = "offline" /\ x = r.dev)
  <2>1. /\ server \in [online : SUBSET Names, bound : SUBSET Names]
        /\ IsFiniteSet(server.bound)
    BY <1>s DEF TypeOK, FiniteInv
  <2>2. r.dev \in Names
    BY <1>f
  <2>3. CASE r.kind = "online"
    BY <1>v, <2>1, <2>2, <2>3 DEF ServerAccepts
  <2>4. CASE r.kind = "offline"
    BY <1>v, <2>1, <2>4 DEF ServerAccepts
  <2>5. CASE r.kind = "bind"
    <3>1. server' = [server EXCEPT !.bound = @ \cup {r.dev}]
      BY <1>v, <2>5 DEF ServerAccepts
    <3>2. IsFiniteSet(server.bound \cup {r.dev})
      BY <2>1, FS_AddElement
    <3> QED
      BY <2>1, <2>2, <2>5, <3>1, <3>2
  <2>6. CASE r.kind = "unbind"
    <3>1. server' = [server EXCEPT !.bound = @ \ {r.dev}]
      BY <1>v, <2>6 DEF ServerAccepts
    <3>2. IsFiniteSet(server.bound \ {r.dev})
      BY <2>1, FS_RemoveElement
    <3> QED
      BY <2>1, <2>6, <3>1, <3>2
  <2>7. CASE r.kind = "describe_sub_devices"
    BY <1>v, <2>1, <2>7 DEF ServerAccepts
  <2> QED
    BY <1>f, <2>3, <2>4, <2>5, <2>6, <2>7 DEF Kinds
<1>y. \A x : Solid(x) => Solid(x)' \/ Closing(x)' \/ (r.kind = "offline" /\ x = r.dev)
  BY <1>u, <1>x DEF Solid
<1>1. TypeOK'
  BY <1>s, <1>u, <1>d, <1>n, <1>x DEF TypeOK
<1>2. CallInv'
  BY <1>s, <1>u, <1>d, <1>g, <1>n DEF CallInv
<1>3. KindInv'
  <2>1. \A i \in DOMAIN requests' :
          requests'[i].kind = "describe_sub_devices" => requests'[i].dev = NoDevice
    BY <1>s, <1>d DEF KindInv
  <2>0. r.kind = "describe_sub_devices" => r.dev = NoDevice
    BY <1>s, <1>d DEF KindInv
  <2>2. \A i \in DOMAIN replies' :
          replies'[i].kind = "describe_sub_devices" => replies'[i].dev = NoDevice
    BY <1>s, <1>g, <1>n, <2>0 DEF KindInv
  <2>3. \A i \in DOMAIN replies' :
          replies'[i].kind \in {"offline", "describe_sub_devices"} => replies'[i].result = "ok"
    BY <1>s, <1>g, <1>n DEF KindInv
  <2> QED
    BY <1>s, <1>u, <2>1, <2>2, <2>3 DEF KindInv
<1>4. BoundInv'
  BY <1>s, <1>u, <1>d, <1>g, <1>n DEF BoundInv
<1>5. OnceInv'
  <2>1. \A i, j \in DOMAIN requests' : i # j => requests'[i].n # requests'[j].n
    BY <1>s, <1>d DEF OnceInv
  <2>2. \A i, j \in DOMAIN replies' : i # j => replies'[i].n # replies'[j].n
    BY <1>s, <1>g, <1>n, <1>o DEF OnceInv
  <2>3. \A i \in DOMAIN requests', j \in DOMAIN replies' : requests'[i].n # replies'[j].n
    BY <1>s, <1>d, <1>g, <1>n, <1>o DEF OnceInv
  <2>4. \A i \in DOMAIN requests' : requests'[i].n # handler.n
    BY <1>s, <1>d DEF OnceInv
  <2>5. \A i \in DOMAIN replies' : replies'[i].n # handler.n
    BY <1>s, <1>d, <1>g, <1>n DEF OnceInv
  <2> QED
    BY <1>u, <2>1, <2>2, <2>3, <2>4, <2>5 DEF OnceInv
<1>6. OverInv'
  BY <1>s, <1>u, <1>d, <1>g, <1>n DEF OverInv
<1>7. NewInv'
  BY <1>s, <1>u, <1>d, <1>g, <1>n DEF NewInv
<1>8. AwaitInv'
  <2>1. \A kind, dev, n : Awaited(kind, dev, n)' <=> Awaited(kind, dev, n)
    BY <1>u DEF Awaited, Stray
  <2>2. \A i \in DOMAIN replies' : Awaited(replies'[i].kind, replies'[i].dev, replies'[i].n)
    BY <1>s, <1>g, <1>n, <1>w DEF AwaitInv
  <2>3. \A i \in DOMAIN requests' : Awaited(requests'[i].kind, requests'[i].dev, requests'[i].n)
    BY <1>s, <1>d DEF AwaitInv
  <2> QED
    BY <1>s, <1>u, <2>1, <2>2, <2>3 DEF AwaitInv
<1>9. SlotInv'
  BY <1>s, <1>u, <1>d, <1>g, <1>n DEF SlotInv, Own
<1>10. LastInv'
  BY <1>s, <1>u, <1>d, <1>g, <1>n DEF LastInv, Own
<1>11. FiniteInv'
  BY <1>s, <1>u, <1>g, <1>i, <1>n, <1>x DEF FiniteInv, Listed
<1>12. BindInv'
  BY <1>s, <1>u, <1>d, <1>g, <1>n DEF BindInv, NoStray, Listing, Listed
<1>13. HandInv'
  BY <1>s, <1>u, <1>d, <1>g, <1>n DEF HandInv, NoStray
<1>14. SessionInv'
  BY <1>s, <1>u, <1>d, <1>g, <1>n DEF SessionInv, Adding
<1>15. AgreeInv'
  <2>1. \A x : Closing(x)' <=> Closing(x)
    BY <1>u DEF Closing
  <2>2. r.kind = "offline" => Closing(r.dev) \/ Solid(r.dev)'
    BY <1>u, <1>w DEF Awaited, Stray, Closing, Solid
  <2> QED
    BY <1>s, <1>u, <1>y, <2>1, <2>2 DEF AgreeInv
<1>16. OnlineInv'
  <2>1. ASSUME Adding, reply["online"].result = "ok" \/ app.pc = "done" PROVE Solid(app.dev)'
    <3>1. Solid(app.dev)
      BY <1>s, <2>1 DEF OnlineInv
    <3>2. r.kind = "offline" => Stray(r.kind, r.dev, r.n)
      BY <1>w, <2>1 DEF Awaited, Adding
    <3> QED
      BY <1>u, <1>x, <3>1, <3>2 DEF Solid, Stray
  <2>2. ASSUME NEW i \in DOMAIN replies', replies'[i].kind = "online", replies'[i].result = "ok"
        PROVE  \/ Solid(replies[i].dev)'
               \/ \E j \in DOMAIN replies' :
                    j > i /\ replies'[j].kind = "offline" /\ replies'[j].dev = replies'[i].dev
    <3>1. CASE i = m
      BY <1>g, <1>n, <1>x, <2>2, <3>1 DEF Solid
    <3>2. CASE i \in DOMAIN replies /\ replies'[i] = replies[i]
      <4>1. CASE Solid(replies[i].dev)
        BY <1>u, <1>g, <1>n, <1>x, <3>2, <4>1 DEF Solid
      <4>2. CASE \E j \in DOMAIN replies :
                   j > i /\ replies[j].kind = "offline" /\ replies[j].dev = replies[i].dev
        BY <1>n, <3>2, <4>2
      <4> QED
        BY <1>s, <2>2, <3>2, <4>1, <4>2 DEF OnlineInv
    <3> QED
      BY <1>n, <3>1, <3>2
  <2> QED
    BY <1>u, <2>1, <2>2 DEF OnlineInv, Adding
<1> QED
  BY <1>1, <1>2, <1>3, <1>4, <1>5, <1>6, <1>7, <1>8, <1>9, <1>10, <1>11, <1>12, <1>13,
       <1>14, <1>15, <1>16
    DEF CoreInv

(* A refusal changes nothing at the server.                                  *)
LEMMA ServerRefusesStep ==
  ASSUME CoreInv, ServerRefuses
  PROVE  CoreInv'
<1>s. /\ TypeOK /\ CallInv /\ KindInv /\ BoundInv /\ OnceInv /\ OverInv /\ NewInv
      /\ AwaitInv /\ SlotInv /\ LastInv /\ FiniteInv /\ BindInv /\ HandInv
      /\ SessionInv /\ AgreeInv /\ OnlineInv
  BY DEF CoreInv
<1>v. PICK r : r = Head(requests)
  OBVIOUS
<1>h. requests # <<>> /\ requests' = Tail(requests) /\ r = Head(requests)
  BY <1>v DEF ServerRefuses
<1>u. UNCHANGED <<session_list, reply, bind_list, app, handler, server, last, unanswered,
                  budget>>
  BY DEF ServerRefuses
<1>q. requests \in Seq(Requests) /\ replies \in Seq(Replies)
  BY <1>s DEF TypeOK
<1>t. /\ \A i \in DOMAIN requests : requests[i].n \in Nat
      /\ \A i \in DOMAIN replies : replies[i].n \in Nat
      /\ handler.n \in Nat /\ \A j \in Kinds : reply[j].from \in Nat
  <2>1. \A i \in DOMAIN requests : requests[i] \in Requests
    BY <1>q
  <2>2. \A i \in DOMAIN replies : replies[i] \in Replies
    BY <1>q
  <2>3. handler.n \in Nat /\ \A j \in Kinds : reply[j] \in Slots
    BY <1>s DEF TypeOK
  <2> QED
    BY <2>1, <2>2, <2>3 DEF Requests, Replies, Slots
<1>k. "describe_sub_devices" \in Kinds /\ "offline" \in Kinds /\ "online" \in Kinds
  BY DEF Kinds
<1>d. /\ requests' \in Seq(Requests) /\ r \in Requests /\ 1 \in DOMAIN requests
      /\ r = requests[1]
      /\ \A i \in DOMAIN requests' :
           /\ i \in Int /\ i >= 1 /\ i + 1 \in DOMAIN requests /\ i + 1 # 1
           /\ requests'[i] = requests[i + 1]
      /\ \A i \in DOMAIN requests :
           i \in Int /\ i >= 1 /\ (i # 1 =>
                  i - 1 \in DOMAIN requests' /\ requests'[i - 1] = requests[i])
  <2>1. requests # <<>> /\ requests' = Tail(requests)
    BY <1>h
  <2>2. /\ requests' \in Seq(Requests) /\ r \in Requests /\ 1 \in DOMAIN requests
        /\ r = requests[1]
        /\ \A i \in DOMAIN requests' :
             i \in Int /\ i >= 1 /\ i + 1 \in DOMAIN requests /\ requests'[i] = requests[i + 1]
        /\ \A i \in DOMAIN requests :
             i \in Int /\ i >= 1 /\ (i # 1 =>
                    i - 1 \in DOMAIN requests' /\ requests'[i - 1] = requests[i])
    BY <1>q, <1>h, <2>1, TailIs
  <2> QED
    BY <2>2
<1>f. r.kind \in Kinds /\ r.dev \in Names /\ r.n \in Nat
  BY <1>d DEF Requests
<1>l. PICK l : l = {}
  OBVIOUS
<1>i. l \in SUBSET Names /\ IsFiniteSet(l)
  BY <1>s, <1>l, FS_EmptySet DEF TypeOK, FiniteInv
<1>e. PICK e : e = [kind |-> r.kind, dev |-> r.dev, n |-> r.n, result |-> "refused", list |-> l]
  OBVIOUS
<1>g. /\ e \in Replies /\ e.kind = r.kind /\ e.dev = r.dev /\ e.n = r.n
      /\ e.result = "refused" /\ e.list = l
  BY <1>f, <1>i, <1>e DEF Replies
<1>r. replies' = Append(replies, e)
  BY <1>v, <1>l, <1>e DEF ServerRefuses, Answer
<1>n. PICK m \in DOMAIN replies' :
        /\ replies' \in Seq(Replies) /\ m \notin DOMAIN replies /\ replies'[m] = e
        /\ m \in Int
        /\ \A i \in DOMAIN replies :
             i \in Int /\ i < m /\ i \in DOMAIN replies' /\ replies'[i] = replies[i]
        /\ \A i \in DOMAIN replies' : i = m \/ (i \in DOMAIN replies /\ replies'[i] = replies[i])
  BY <1>q, <1>g, <1>r, AppendIs
<1>w. Awaited(r.kind, r.dev, r.n)
  BY <1>s, <1>d DEF AwaitInv
<1>o. /\ \A i \in DOMAIN requests' : requests'[i].n # r.n
      /\ \A i \in DOMAIN replies : replies[i].n # r.n
  BY <1>s, <1>d DEF OnceInv
<1>k2. r.kind \in {"online", "bind"}
  BY <1>v DEF ServerRefuses
<1>1. TypeOK'
  BY <1>s, <1>u, <1>d, <1>n DEF TypeOK
<1>2. CallInv'
  BY <1>s, <1>u, <1>d, <1>g, <1>n DEF CallInv
<1>3. KindInv'
  <2>1. \A i \in DOMAIN requests' :
          requests'[i].kind = "describe_sub_devices" => requests'[i].dev = NoDevice
    BY <1>s, <1>d DEF KindInv
  <2>0. r.kind = "describe_sub_devices" => r.dev = NoDevice
    BY <1>s, <1>d DEF KindInv
  <2>2. \A i \in DOMAIN replies' :
          replies'[i].kind = "describe_sub_devices" => replies'[i].dev = NoDevice
    BY <1>s, <1>g, <1>n, <2>0 DEF KindInv
  <2>3. \A i \in DOMAIN replies' :
          replies'[i].kind \in {"offline", "describe_sub_devices"} => replies'[i].result = "ok"
    BY <1>s, <1>g, <1>n, <1>k2 DEF KindInv
  <2> QED
    BY <1>s, <1>u, <2>1, <2>2, <2>3 DEF KindInv
<1>4. BoundInv'
  BY <1>s, <1>u, <1>d, <1>g, <1>n DEF BoundInv
<1>5. OnceInv'
  <2>1. \A i, j \in DOMAIN requests' : i # j => requests'[i].n # requests'[j].n
    BY <1>s, <1>d DEF OnceInv
  <2>2. \A i, j \in DOMAIN replies' : i # j => replies'[i].n # replies'[j].n
    BY <1>s, <1>g, <1>n, <1>o DEF OnceInv
  <2>3. \A i \in DOMAIN requests', j \in DOMAIN replies' : requests'[i].n # replies'[j].n
    BY <1>s, <1>d, <1>g, <1>n, <1>o DEF OnceInv
  <2>4. \A i \in DOMAIN requests' : requests'[i].n # handler.n
    BY <1>s, <1>d DEF OnceInv
  <2>5. \A i \in DOMAIN replies' : replies'[i].n # handler.n
    BY <1>s, <1>d, <1>g, <1>n DEF OnceInv
  <2> QED
    BY <1>u, <2>1, <2>2, <2>3, <2>4, <2>5 DEF OnceInv
<1>6. OverInv'
  BY <1>s, <1>u, <1>d, <1>g, <1>n DEF OverInv
<1>7. NewInv'
  BY <1>s, <1>u, <1>d, <1>g, <1>n DEF NewInv
<1>8. AwaitInv'
  <2>1. \A kind, dev, n : Awaited(kind, dev, n)' <=> Awaited(kind, dev, n)
    BY <1>u DEF Awaited, Stray
  <2>2. \A i \in DOMAIN replies' : Awaited(replies'[i].kind, replies'[i].dev, replies'[i].n)
    BY <1>s, <1>g, <1>n, <1>w DEF AwaitInv
  <2>3. \A i \in DOMAIN requests' : Awaited(requests'[i].kind, requests'[i].dev, requests'[i].n)
    BY <1>s, <1>d DEF AwaitInv
  <2> QED
    BY <1>s, <1>u, <2>1, <2>2, <2>3 DEF AwaitInv
<1>9. SlotInv'
  BY <1>s, <1>u, <1>d, <1>g, <1>n DEF SlotInv, Own
<1>10. LastInv'
  BY <1>s, <1>u, <1>d, <1>g, <1>n DEF LastInv, Own
<1>11. FiniteInv'
  BY <1>s, <1>u, <1>g, <1>i, <1>n DEF FiniteInv, Listed
<1>12. BindInv'
  BY <1>s, <1>u, <1>d, <1>g, <1>n DEF BindInv, NoStray, Listing, Listed
<1>13. HandInv'
  BY <1>s, <1>u, <1>d, <1>g, <1>n DEF HandInv, NoStray
<1>14. SessionInv'
  BY <1>s, <1>u, <1>d, <1>g, <1>n DEF SessionInv, Adding
<1>15. AgreeInv'
  BY <1>s, <1>u, <1>d, <1>g, <1>n DEF AgreeInv, Solid, Closing
<1>16. OnlineInv'
  <2>1. \A x : Solid(x)' <=> Solid(x)
    BY <1>u DEF Solid
  <2>2. ASSUME NEW i \in DOMAIN replies', replies'[i].kind = "online", replies'[i].result = "ok"
        PROVE  \/ Solid(replies'[i].dev)
               \/ \E j \in DOMAIN replies' :
                    j > i /\ replies'[j].kind = "offline" /\ replies'[j].dev = replies'[i].dev
    BY <1>s, <1>g, <1>n, <2>2 DEF OnlineInv
  <2> QED
    BY <1>s, <1>u, <2>1, <2>2 DEF OnlineInv, Adding
<1> QED
  BY <1>1, <1>2, <1>3, <1>4, <1>5, <1>6, <1>7, <1>8, <1>9, <1>10, <1>11, <1>12, <1>13,
       <1>14, <1>15, <1>16
    DEF CoreInv

(* A request is lost.                                                        *)
LEMMA LoseRequestStep ==
  ASSUME CoreInv, Lose, requests # <<>>, requests' = Tail(requests), UNCHANGED replies
  PROVE  CoreInv'
<1>s. /\ TypeOK /\ CallInv /\ KindInv /\ BoundInv /\ OnceInv /\ OverInv /\ NewInv
      /\ AwaitInv /\ SlotInv /\ LastInv /\ FiniteInv /\ BindInv /\ HandInv
      /\ SessionInv /\ AgreeInv /\ OnlineInv
  BY DEF CoreInv
<1>v. PICK r : r = Head(requests)
  OBVIOUS
<1>h. requests # <<>> /\ requests' = Tail(requests) /\ r = Head(requests)
  BY <1>v
<1>u. UNCHANGED <<session_list, reply, bind_list, app, handler, server, replies, last,
                  unanswered>>
  BY DEF Lose
<1>e. /\ budget' = [budget EXCEPT !.losses = @ + 1]
      /\ budget \in [requests : Nat, losses : Nat]
  BY <1>s DEF Lose, TypeOK
<1>b. budget' \in [requests : Nat, losses : Nat] /\ budget'.requests = budget.requests
  BY <1>e
<1>q. requests \in Seq(Requests) /\ replies \in Seq(Replies)
  BY <1>s DEF TypeOK
<1>t. /\ \A i \in DOMAIN requests : requests[i].n \in Nat
      /\ \A i \in DOMAIN replies : replies[i].n \in Nat
      /\ handler.n \in Nat /\ \A j \in Kinds : reply[j].from \in Nat
  <2>1. \A i \in DOMAIN requests : requests[i] \in Requests
    BY <1>q
  <2>2. \A i \in DOMAIN replies : replies[i] \in Replies
    BY <1>q
  <2>3. handler.n \in Nat /\ \A j \in Kinds : reply[j] \in Slots
    BY <1>s DEF TypeOK
  <2> QED
    BY <2>1, <2>2, <2>3 DEF Requests, Replies, Slots
<1>k. "describe_sub_devices" \in Kinds /\ "offline" \in Kinds /\ "online" \in Kinds
  BY DEF Kinds
<1>d. /\ requests' \in Seq(Requests) /\ r \in Requests /\ 1 \in DOMAIN requests
      /\ r = requests[1]
      /\ \A i \in DOMAIN requests' :
           /\ i \in Int /\ i >= 1 /\ i + 1 \in DOMAIN requests /\ i + 1 # 1
           /\ requests'[i] = requests[i + 1]
      /\ \A i \in DOMAIN requests :
           i \in Int /\ i >= 1 /\ (i # 1 =>
                  i - 1 \in DOMAIN requests' /\ requests'[i - 1] = requests[i])
  <2>1. requests # <<>> /\ requests' = Tail(requests)
    BY <1>h
  <2>2. /\ requests' \in Seq(Requests) /\ r \in Requests /\ 1 \in DOMAIN requests
        /\ r = requests[1]
        /\ \A i \in DOMAIN requests' :
             i \in Int /\ i >= 1 /\ i + 1 \in DOMAIN requests /\ requests'[i] = requests[i + 1]
        /\ \A i \in DOMAIN requests :
             i \in Int /\ i >= 1 /\ (i # 1 =>
                    i - 1 \in DOMAIN requests' /\ requests'[i - 1] = requests[i])
    BY <1>q, <1>h, <2>1, TailIs
  <2> QED
    BY <2>2
<1>1. TypeOK'
  BY <1>s, <1>u, <1>b, <1>d DEF TypeOK
<1>2. CallInv'
  BY <1>s, <1>u, <1>b, <1>d DEF CallInv
<1>3. KindInv'
  BY <1>s, <1>u, <1>b, <1>d DEF KindInv
<1>4. BoundInv'
  BY <1>s, <1>u, <1>b, <1>d DEF BoundInv
<1>5. OnceInv'
  BY <1>s, <1>u, <1>b, <1>d DEF OnceInv
<1>6. OverInv'
  BY <1>s, <1>u, <1>b, <1>d DEF OverInv
<1>7. NewInv'
  BY <1>s, <1>u, <1>b, <1>d DEF NewInv
<1>8. AwaitInv'
  BY <1>s, <1>u, <1>b, <1>d DEF AwaitInv, Awaited, Stray
<1>9. SlotInv'
  BY <1>s, <1>u, <1>b, <1>d DEF SlotInv, Own
<1>10. LastInv'
  BY <1>s, <1>u, <1>b, <1>d DEF LastInv, Own
<1>11. FiniteInv'
  BY <1>s, <1>u, <1>b, <1>d DEF FiniteInv, Listed
<1>12. BindInv'
  BY <1>s, <1>u, <1>b, <1>d DEF BindInv, NoStray, Listing, Listed
<1>13. HandInv'
  BY <1>s, <1>u, <1>b, <1>d DEF HandInv, NoStray
<1>14. SessionInv'
  BY <1>s, <1>u, <1>b, <1>d DEF SessionInv, Adding
<1>15. AgreeInv'
  BY <1>s, <1>u, <1>b, <1>d DEF AgreeInv, Solid, Closing
<1>16. OnlineInv'
  <2>1. (\A x : Solid(x)' <=> Solid(x)) /\ (Adding' <=> Adding)
    BY <1>u DEF Solid, Adding
  <2> QED
    BY <1>s, <1>u, <2>1 DEF OnlineInv
<1> QED
  BY <1>1, <1>2, <1>3, <1>4, <1>5, <1>6, <1>7, <1>8, <1>9, <1>10, <1>11, <1>12, <1>13,
       <1>14, <1>15, <1>16
    DEF CoreInv

(* A reply is lost.                                                          *)
LEMMA LoseReplyStep ==
  ASSUME CoreInv, Lose, replies # <<>>, replies' = Tail(replies), UNCHANGED requests
  PROVE  CoreInv'
<1>s. /\ TypeOK /\ CallInv /\ KindInv /\ BoundInv /\ OnceInv /\ OverInv /\ NewInv
      /\ AwaitInv /\ SlotInv /\ LastInv /\ FiniteInv /\ BindInv /\ HandInv
      /\ SessionInv /\ AgreeInv /\ OnlineInv
  BY DEF CoreInv
<1>v. PICK r : r = Head(replies)
  OBVIOUS
<1>h. replies # <<>> /\ replies' = Tail(replies) /\ r = Head(replies)
  BY <1>v
<1>u. UNCHANGED <<session_list, reply, bind_list, app, handler, server, requests, last,
                  unanswered>>
  BY DEF Lose
<1>e. /\ budget' = [budget EXCEPT !.losses = @ + 1]
      /\ budget \in [requests : Nat, losses : Nat]
  BY <1>s DEF Lose, TypeOK
<1>b. budget' \in [requests : Nat, losses : Nat] /\ budget'.requests = budget.requests
  BY <1>e
<1>q. requests \in Seq(Requests) /\ replies \in Seq(Replies)
  BY <1>s DEF TypeOK
<1>t. /\ \A i \in DOMAIN requests : requests[i].n \in Nat
      /\ \A i \in DOMAIN replies : replies[i].n \in Nat
      /\ handler.n \in Nat /\ \A j \in Kinds : reply[j].from \in Nat
  <2>1. \A i \in DOMAIN requests : requests[i] \in Requests
    BY <1>q
  <2>2. \A i \in DOMAIN replies : replies[i] \in Replies
    BY <1>q
  <2>3. handler.n \in Nat /\ \A j \in Kinds : reply[j] \in Slots
    BY <1>s DEF TypeOK
  <2> QED
    BY <2>1, <2>2, <2>3 DEF Requests, Replies, Slots
<1>k. "describe_sub_devices" \in Kinds /\ "offline" \in Kinds /\ "online" \in Kinds
  BY DEF Kinds
<1>d. /\ replies' \in Seq(Replies) /\ r \in Replies /\ 1 \in DOMAIN replies
      /\ r = replies[1]
      /\ \A i \in DOMAIN replies' :
           /\ i \in Int /\ i >= 1 /\ i + 1 \in DOMAIN replies /\ i + 1 # 1
           /\ replies'[i] = replies[i + 1]
      /\ \A i \in DOMAIN replies :
           i \in Int /\ i >= 1 /\ (i # 1 =>
                  i - 1 \in DOMAIN replies' /\ replies'[i - 1] = replies[i])
  <2>1. replies # <<>> /\ replies' = Tail(replies)
    BY <1>h
  <2>2. /\ replies' \in Seq(Replies) /\ r \in Replies /\ 1 \in DOMAIN replies
        /\ r = replies[1]
        /\ \A i \in DOMAIN replies' :
             i \in Int /\ i >= 1 /\ i + 1 \in DOMAIN replies /\ replies'[i] = replies[i + 1]
        /\ \A i \in DOMAIN replies :
             i \in Int /\ i >= 1 /\ (i # 1 =>
                    i - 1 \in DOMAIN replies' /\ replies'[i - 1] = replies[i])
    BY <1>q, <1>h, <2>1, TailIs
  <2> QED
    BY <2>2
<1>1. TypeOK'
  BY <1>s, <1>u, <1>b, <1>d DEF TypeOK
<1>2. CallInv'
  BY <1>s, <1>u, <1>b, <1>d DEF CallInv
<1>3. KindInv'
  BY <1>s, <1>u, <1>b, <1>d DEF KindInv
<1>4. BoundInv'
  BY <1>s, <1>u, <1>b, <1>d DEF BoundInv
<1>5. OnceInv'
  BY <1>s, <1>u, <1>b, <1>d DEF OnceInv
<1>6. OverInv'
  BY <1>s, <1>u, <1>b, <1>d DEF OverInv
<1>7. NewInv'
  BY <1>s, <1>u, <1>b, <1>d DEF NewInv
<1>8. AwaitInv'
  BY <1>s, <1>u, <1>b, <1>d DEF AwaitInv, Awaited, Stray
<1>9. SlotInv'
  BY <1>s, <1>u, <1>b, <1>d DEF SlotInv, Own
<1>10. LastInv'
  BY <1>s, <1>u, <1>b, <1>d DEF LastInv, Own
<1>11. FiniteInv'
  BY <1>s, <1>u, <1>b, <1>d DEF FiniteInv, Listed
<1>12. BindInv'
  BY <1>s, <1>u, <1>b, <1>d DEF BindInv, NoStray, Listing, Listed
<1>13. HandInv'
  BY <1>s, <1>u, <1>b, <1>d DEF HandInv, NoStray
<1>14. SessionInv'
  BY <1>s, <1>u, <1>b, <1>d DEF SessionInv, Adding
<1>15. AgreeInv'
  BY <1>s, <1>u, <1>b, <1>d DEF AgreeInv, Solid, Closing
<1>16. OnlineInv'
  <2>1. ASSUME NEW i \in DOMAIN replies', replies'[i].kind = "online", replies'[i].result = "ok"
        PROVE  \/ Solid(replies'[i].dev)
               \/ \E j \in DOMAIN replies' :
                    j > i /\ replies'[j].kind = "offline" /\ replies'[j].dev = replies'[i].dev
    <3>1. CASE Solid(replies[i + 1].dev)
      BY <1>d, <2>1, <3>1
    <3>2. CASE \E j \in DOMAIN replies :
                 j > i + 1 /\ replies[j].kind = "offline" /\ replies[j].dev = replies[i + 1].dev
      <4>1. PICK j \in DOMAIN replies :
                 j > i + 1 /\ replies[j].kind = "offline" /\ replies[j].dev = replies[i + 1].dev
        BY <3>2
      <4>2. j \in Int /\ i \in Int /\ i >= 1 /\ j # 1 /\ j - 1 > i
        BY <1>d, <2>1, <4>1
      <4>3. j - 1 \in DOMAIN replies' /\ replies'[j - 1] = replies[j]
        BY <1>d, <4>1, <4>2
      <4>4. replies'[i] = replies[i + 1]
        BY <1>d
      <4>5. /\ j - 1 > i /\ replies'[j - 1].kind = "offline"
            /\ replies'[j - 1].dev = replies'[i].dev
        BY <4>1, <4>2, <4>3, <4>4
      <4> QED
        BY <4>3, <4>5
    <3> QED
      BY <1>s, <1>d, <2>1, <3>1, <3>2 DEF OnlineInv
  <2>2. \A x : Solid(x)' <=> Solid(x)
    BY <1>u DEF Solid
  <2> QED
    BY <1>s, <1>u, <2>1, <2>2 DEF OnlineInv, Adding
<1> QED
  BY <1>1, <1>2, <1>3, <1>4, <1>5, <1>6, <1>7, <1>8, <1>9, <1>10, <1>11, <1>12, <1>13,
       <1>14, <1>15, <1>16
    DEF CoreInv

-----------------------------------------------------------------------------
(* The theorems.                                                             *)

(* The invariant holds at the start.                                         *)
LEMMA InitStep == Init => CoreInv
<1> SUFFICES ASSUME Init PROVE CoreInv
  OBVIOUS
<1>1. app.pc = "idle" /\ app \in Calls
  BY DEF Init, Idle, Calls, Names, Kinds
<1>2. /\ session_list = <<>> /\ requests = <<>> /\ replies = <<>> /\ unanswered = {}
      /\ handler = NoHandler /\ handler.n = 0 /\ handler.list = {}
      /\ handler \in [n : Nat, list : SUBSET Names]
      /\ last.rc = "pending" /\ last.kind = "bind"
  BY DEF Init, NoHandler
<1>3. /\ server \in [online : SUBSET Names, bound : SUBSET Names] /\ server.bound = {}
      /\ budget \in [requests : Nat, losses : Nat] /\ budget.requests = 0
  BY DEF Init
<1>4. PICK e : e = [client_id |-> NoDevice, result |-> "ok", from |-> 0, list |-> {}]
  OBVIOUS
<1>5. e \in Slots /\ e.result = "ok" /\ e.from = 0 /\ e.list = {}
  BY <1>4 DEF Slots, Names
<1>6. reply = [k \in Kinds |-> e]
  BY <1>4 DEF Init
<1>7. reply \in [Kinds -> Slots] /\ \A k \in Kinds : reply[k] = e
  BY <1>5, <1>6
<1>8. "describe_sub_devices" \in Kinds /\ "offline" \in Kinds
  BY DEF Kinds
<1>9. DOMAIN requests = {} /\ DOMAIN replies = {} /\ DOMAIN session_list = {}
  BY <1>2
<1>10. TypeOK
  <2>1. /\ session_list \in Seq(Sessions) /\ requests \in Seq(Requests)
        /\ replies \in Seq(Replies)
    BY <1>2
  <2>2. unanswered \subseteq Requests
    BY <1>2
  <2> QED
    BY <1>1, <1>2, <1>3, <1>7, <2>1, <2>2 DEF TypeOK
<1>11. CallInv /\ SlotInv /\ NewInv
  BY <1>1 DEF CallInv, SlotInv, NewInv
<1>12. KindInv
  BY <1>2, <1>5, <1>7, <1>8, <1>9 DEF KindInv
<1>13. BoundInv /\ OnceInv /\ OverInv
  BY <1>1, <1>2, <1>3, <1>5, <1>7, <1>9 DEF BoundInv, OnceInv, OverInv
<1>14. AwaitInv /\ LastInv /\ HandInv
  BY <1>2, <1>9 DEF AwaitInv, LastInv, HandInv
<1>15. FiniteInv
  BY <1>2, <1>3, <1>5, <1>7, <1>8, <1>9, FS_EmptySet DEF FiniteInv, Listed
<1>16. BindInv
  BY <1>1 DEF BindInv, Listing
<1>17. SessionInv /\ AgreeInv /\ OnlineInv
  BY <1>1, <1>9 DEF SessionInv, AgreeInv, OnlineInv, Adding
<1> QED
  BY <1>10, <1>11, <1>12, <1>13, <1>14, <1>15, <1>16, <1>17 DEF CoreInv

(* A stuttering step keeps it.                                               *)
LEMMA StutterStep ==
  ASSUME CoreInv, UNCHANGED vars
  PROVE  CoreInv'
<1>1. /\ TypeOK' /\ CallInv' /\ KindInv' /\ BoundInv' /\ OnceInv' /\ OverInv' /\ NewInv'
  BY DEF CoreInv, vars, TypeOK, CallInv, KindInv, BoundInv, OnceInv, OverInv, NewInv
<1>2. /\ AwaitInv' /\ SlotInv' /\ LastInv' /\ FiniteInv'
  BY DEF CoreInv, vars, AwaitInv, Awaited, Stray, SlotInv, LastInv, Own, FiniteInv, Listed
<1>3. BindInv' /\ HandInv'
  BY DEF CoreInv, vars, BindInv, HandInv, NoStray, Listing, Listed
<1>4. SessionInv' /\ AgreeInv' /\ OnlineInv'
  <2>1. /\ SessionInv /\ AgreeInv /\ OnlineInv
        /\ UNCHANGED <<session_list, reply, app, server, replies, unanswered>>
    BY DEF CoreInv, vars
  <2>2. \A x : (Solid(x)' <=> Solid(x)) /\ (Closing(x)' <=> Closing(x))
    BY <2>1 DEF Solid, Closing
  <2>3. Adding' <=> Adding
    BY <2>1 DEF Adding
  <2>4. SessionInv'
    BY <2>1, <2>3 DEF SessionInv
  <2>5. AgreeInv'
    BY <2>1, <2>2 DEF AgreeInv
  <2>6. OnlineInv'
    BY <2>1, <2>2, <2>3 DEF OnlineInv
  <2> QED
    BY <2>4, <2>5, <2>6
<1> QED
  BY <1>1, <1>2, <1>3, <1>4 DEF CoreInv

(* What the result was on entry is read from the slot, which no step of a    *)
(* call or of the handler makes pending again.                               *)
LEMMA EntryStep ==
  ASSUME TypeOK, EntryInv, Next
  PROVE  EntryInv'
<1>c. app \in Calls /\ reply \in [Kinds -> Slots] /\ replies \in Seq(Replies)
  BY DEF TypeOK
<1>1. ASSUME NEW k, NEW d, NEW s, Start(k, d, s) PROVE EntryInv'
  BY <1>1 DEF Start, EntryInv
<1>2. ASSUME app'.kind = app.kind, app'.res = app.res, app'.pc # "idle" => app.pc # "idle",
             app.pc # "idle" /\ reply[app.kind].result # "pending" =>
               reply'[app.kind].result # "pending"
      PROVE  EntryInv'
  BY <1>2 DEF EntryInv
<1>3. CASE EnterSync
  <2>1. app' = [app EXCEPT !.pc = "publish", !.res = Result] /\ reply' = reply
    BY <1>3 DEF EnterSync
  <2>2. app'.res = reply'[app'.kind].result
    BY <1>c, <2>1 DEF Calls, Result
  <2> QED
    BY <2>2 DEF EntryInv
<1>4. ASSUME NEW accepted \in BOOLEAN, Publish(accepted) PROVE EntryInv'
  <2>1. app.pc = "publish" /\ reply' = reply
    BY <1>4 DEF Publish
  <2>2. app'.kind = app.kind /\ app'.res = app.res
    BY <1>c, <1>4 DEF Publish, Calls
  <2> QED
    BY <1>2, <2>1, <2>2
<1>5. CASE Poll \/ CheckResult \/ Undo
  <2>1. app.pc # "idle" /\ reply' = reply
    BY <1>5 DEF Poll, CheckResult, Undo
  <2>2. app'.kind = app.kind /\ app'.res = app.res
    BY <1>c, <1>5 DEF Poll, CheckResult, Undo, Calls
  <2> QED
    BY <1>2, <2>1, <2>2
<1>6. CASE Done \/ ReturnResult
  BY <1>6 DEF Done, ReturnResult, Return, Idle, EntryInv
<1>7. CASE HandleResult
  <2>1. PICK r : r = Head(replies)
    OBVIOUS
  <2>2. r \in Replies
    BY <1>c, <1>7, <2>1 DEF HandleResult
  <2>3. r.result # "pending"
    BY <2>2 DEF Replies
  <2>4. app' = app /\ (reply' = [reply EXCEPT ![r.kind].result = r.result, ![r.kind].from = r.n]
                      \/ reply' = reply)
    BY <1>7, <2>1 DEF HandleResult
  <2>5. ASSUME NEW k \in Kinds, reply[k].result # "pending" PROVE reply'[k].result # "pending"
    <3>1. r.kind \in Kinds
      BY <2>2 DEF Replies
    <3> QED
      BY <1>c, <2>3, <2>4, <2>5, <3>1 DEF Slots
  <2>6. app.kind \in Kinds
    BY <1>c DEF Calls
  <2> QED
    BY <1>2, <2>4, <2>5, <2>6
<1>8. CASE BindListReady
  <2>1. app' = app
    BY <1>8 DEF BindListReady
  <2>2. ASSUME NEW k \in Kinds, reply[k].result # "pending" PROVE reply'[k].result # "pending"
    BY <1>c, <1>8, <2>2 DEF BindListReady, Slots
  <2>3. app.kind \in Kinds
    BY <1>c DEF Calls
  <2> QED
    BY <1>2, <2>1, <2>2, <2>3
<1>9. CASE UNCHANGED <<app, reply>>
  BY <1>2, <1>9
<1> QED
  <2>1. ASSUME NEW d \in Devices, IOT_Gateway_Subdev_Online(d) PROVE EntryInv'
    BY <1>1, <2>1 DEF IOT_Gateway_Subdev_Online
  <2>2. ASSUME NEW d \in Devices, IOT_Gateway_Subdev_Offline(d) PROVE EntryInv'
    BY <1>1, <2>2 DEF IOT_Gateway_Subdev_Offline
  <2>3. ASSUME NEW d \in Devices, NEW k \in {"bind", "unbind"}, BindOrUnbind(k, d)
        PROVE  EntryInv'
    BY <1>1, <2>3 DEF BindOrUnbind
  <2>4. CASE IOT_Gateway_Subdev_GetBindList
    BY <1>1, <2>4 DEF IOT_Gateway_Subdev_GetBindList
  <2>5. CASE _subdev_proc_get_bindlist \/ ServerAccepts \/ ServerRefuses \/ Lose
    BY <1>9, <2>5 DEF _subdev_proc_get_bindlist, ServerAccepts, ServerRefuses, Lose
  <2> QED
    BY <1>3, <1>4, <1>5, <1>6, <1>7, <1>8, <2>1, <2>2, <2>3, <2>4, <2>5 DEF Next

(* The invariant is inductive, so that it holds in every reachable state.    *)
THEOREM Invariance == Spec => []IInv
<1>1. ASSUME CoreInv, EntryInv, Next PROVE CoreInv'
  <2>1. ASSUME NEW d \in Devices, IOT_Gateway_Subdev_Online(d) PROVE CoreInv'
    BY <1>1, <2>1, OnlineStep
  <2>2. ASSUME NEW d \in Devices, IOT_Gateway_Subdev_Offline(d) PROVE CoreInv'
    BY <1>1, <2>2, OfflineStep
  <2>3. ASSUME NEW d \in Devices, NEW k \in {"bind", "unbind"}, BindOrUnbind(k, d) PROVE CoreInv'
    BY <1>1, <2>3, BindStep
  <2>4. CASE IOT_Gateway_Subdev_GetBindList
    BY <1>1, <2>4, GetBindListStep
  <2>5. ASSUME NEW accepted \in BOOLEAN, Publish(accepted) PROVE CoreInv'
    <3>1. CASE accepted
      <4>1. accepted = TRUE
        BY <3>1
      <4>2. Publish(TRUE)
        BY <2>5, <4>1
      <4> QED
        BY <1>1, <4>2, PublishStep
    <3>2. CASE ~accepted
      <4>1. accepted = FALSE
        BY <3>2
      <4>2. Publish(FALSE)
        BY <2>5, <4>1
      <4> QED
        BY <1>1, <4>2, PublishFailsStep
    <3> QED
      BY <3>1, <3>2
  <2>11. CASE EnterSync
    BY <1>1, <2>11, EnterStep
  <2>6. CASE Poll
    <3>1. CASE Result = app.res /\ app.loop_count <= GATEWAY_LOOP_MAX_COUNT
      BY <1>1, <2>6, <3>1, PollAgainStep
    <3>2. CASE ~(Result = app.res /\ app.loop_count <= GATEWAY_LOOP_MAX_COUNT)
      BY <1>1, <2>6, <3>2, PollEndsStep
    <3> QED
      BY <3>1, <3>2
  <2>7. CASE CheckResult \/ Done \/ Undo \/ ReturnResult
    BY <1>1, <2>7, CheckStep, DoneStep, UndoStep, ReturnStep
  <2>8. CASE HandleResult \/ _subdev_proc_get_bindlist \/ BindListReady
    BY <1>1, <2>8, HandleResultStep, ProcBindListStep, BindListReadyStep
  <2>9. CASE ServerAccepts \/ ServerRefuses
    BY <1>1, <2>9, ServerAcceptsStep, ServerRefusesStep
  <2>10. CASE Lose
    <3>1. \/ requests # <<>> /\ requests' = Tail(requests) /\ UNCHANGED replies
          \/ replies # <<>> /\ replies' = Tail(replies) /\ UNCHANGED requests
      BY <2>10 DEF Lose
    <3> QED
      BY <1>1, <2>10, <3>1, LoseRequestStep, LoseReplyStep
  <2> QED
    BY <1>1, <2>1, <2>2, <2>3, <2>4, <2>5, <2>6, <2>7, <2>8, <2>9, <2>10, <2>11 DEF Next
<1>2. IInv /\ Next => IInv'
  BY <1>1, EntryStep DEF IInv, CoreInv
<1>3. IInv /\ UNCHANGED vars => IInv'
  BY StutterStep DEF IInv, EntryInv, vars
<1>4. Init => IInv
  BY InitStep DEF IInv, EntryInv, Init, Idle
<1>5. IInv /\ [Next]_vars => IInv'
  BY <1>2, <1>3
<1> QED
  BY <1>4, <1>5, PTL DEF Spec

(* A call that reports success was answered by the reply to its own request  *)
(* or by a stray one, and a bind list handed over without strays is exactly  *)
(* the list the server sent (gateway_common.c:177-240), for every number of  *)
(* requests, losses and sub-devices.                                         *)
THEOREM OutcomesOwn == Spec => []OutcomeIsOwn
<1>1. IInv => OutcomeIsOwn
  <2>1. SUFFICES ASSUME IInv, last.rc = "ok"
                 PROVE  /\ last.from = last.n \/ (\E u \in Strays : u.n = last.from)
                        /\ last.kind = "describe_sub_devices" /\ Strays = {} =>
                             /\ ToSet(last.list) = last.sent
                             /\ Len(last.list) = Cardinality(last.sent)
    BY DEF OutcomeIsOwn
  <2>2. last.from = last.n \/ (\E u \in Strays : u.n = last.from)
    BY <2>1 DEF IInv, CoreInv, LastInv, Own, Strays
  <2>3. ASSUME last.kind = "describe_sub_devices", Strays = {} PROVE NoStray
    BY <2>1, <2>3 DEF IInv, CoreInv, KindInv, Strays, NoStray, Matches
  <2> QED
    BY <2>1, <2>2, <2>3 DEF IInv, CoreInv, HandInv
<1> QED
  BY <1>1, Invariance, PTL

(* A sub-device whose session is on line is on line at the server, but for   *)
(* the strays and the offline call in progress that SessionAgrees names.     *)
THEOREM SessionsAgree == Spec => []SessionAgrees
<1>1. IInv => SessionAgrees
  <2>1. SUFFICES ASSUME IInv, NEW i \in DOMAIN session_list,
         session_list[i].status = "ONLINE", session_list[i].dev \in Unambiguous
                 PROVE  LET d == session_list[i].dev IN
                        \/ d \in server.online
                        \/ app.pc # "idle" /\ app.kind = "offline" /\ app.dev = d
                        \/ \E u \in unanswered : \/ u.kind = "offline" /\ u.dev = d
                                                 \/ u.kind = "online" /\ <<u.dev, d>> \in NamePrefixes
    BY DEF SessionAgrees
  <2>2. Solid(session_list[i].dev) \/ Closing(session_list[i].dev)
    BY <2>1 DEF IInv, CoreInv, AgreeInv
  <2> QED
    BY <2>2 DEF Solid, Closing
<1> QED
  BY <1>1, Invariance, PTL
=============================================================================
