------------------------ MODULE MqttSubscribeProofs ------------------------
(* Safety of subscribing for any number of application threads, filters,     *)
(* handlers, calls and connection losses, and any size of the handler table. *)
(*                                                                           *)
(* A filter copy has one owner at a time: OwnInv says which copies slots and *)
(* waiting requests own, LeakInv that every allocated copy is owned. OpenInv *)
(* follows a request to its answer: while it is unsent, on its way, or its   *)
(* answer is on its way, it is in one of these places only, is not in the    *)
(* table and was not granted, so that its ack finds its copy allocated       *)
(* (FreeInv says which late events excuse the code from that). CountInv      *)
(* bounds the numbers that resubscriptions use up.                           *)
(*                                                                           *)
(* That the table agrees with the server (TableInv) needs what the server    *)
(* will have once it has handled the packets on their way (WillHave), that a *)
(* grant still to be installed is for such a filter (GrantInv), and that an  *)
(* unsubscribe call has its filter for itself (AloneInv).                    *)
EXTENDS MqttSubscribe, FiniteSetTheorems, WellFoundedInduction, TLAPS

Holding(t) == call[t].pc \in {"send", "remove"}
Ups   == {up[i] : i \in DOMAIN up}
Downs == {down[i][1] : i \in DOMAIN down}
Locking == {t \in Threads : call[t].pc = "lock"}
ToResub == IF ~is_connected THEN MAX_MESSAGE_HANDLERS
           ELSE IF y_pc \in {"resub", "copy"} THEN MAX_MESSAGE_HANDLERS + 1 - y_slot ELSE 0

(* A call in flight was counted, a resubscription has a slot of its own.     *)
CountInv == /\ IsFiniteSet(Locking)
            /\ requests + Cardinality(Locking) + ToResub <= calls + drops * MAX_MESSAGE_HANDLERS

(* The yield thread does one thing at a time, and knows where it is.         *)
PlaceInv == /\ y_pc \in {"copy", "deliver"} => y_slot \in Slots
            /\ ~is_connected => y_pc = "read" /\ up = <<>> /\ down = <<>>
            /\ call[Yielder].pc # "idle" => y_pc = "resub"
            /\ call[Yielder].type = "SUBSCRIBE"

(* The owner of lock_write_buf is the one thread that works on a new node.   *)
LockInv == \A t \in Threads : Holding(t) => lock_write_buf = t

(* A number that was not given out is nowhere.                               *)
FreshInv == /\ heap \cup list_sub_wait_ack \cup Ups \cup Downs \subseteq 1 .. requests
            /\ \A i \in Slots : sub_handles[i].topic_filter <= requests
            /\ \A n \in Requests : n > requests => reported[n] = {}

(* The wait list keeps its limit.                                            *)
ListInv == IsFiniteSet(list_sub_wait_ack) /\ ListBounded

(* A filter copy is owned by one slot or by one waiting request.             *)
OwnInv ==
    /\ \A i \in Slots : Used(i) => /\ sub_handles[i].topic_filter \in heap
                                   /\ \A j \in Slots : sub_handles[j].topic_filter = sub_handles[i].topic_filter => j = i
    /\ \A n \in list_sub_wait_ack : info[n].node_state = "NORMAL"
          => /\ n \in heap /\ reported[n] = {}
             /\ \A i \in Slots : sub_handles[i].topic_filter # n

(* A request without an answer: not sent yet, or on its way, or answered and *)
(* the answer on its way, in one place only.                                 *)
Open(n) == /\ "SUCCESS" \notin reported[n]
           /\ n \in list_sub_wait_ack => info[n].node_state = "NORMAL"
           /\ \A i \in Slots : sub_handles[i].topic_filter # n
OpenInv ==
    /\ \A t \in Threads : Holding(t) => call[t].node \in (1..requests) \ (Ups \cup Downs) /\ Open(call[t].node)
    /\ Ups \cap Downs = {}
    /\ \A n \in Ups \cup Downs : Open(n)
    /\ \A i, j \in DOMAIN up : up[i] = up[j] => i = j
    /\ \A i, j \in DOMAIN down : down[i][1] = down[j][1] => i = j

(* An answer is of the kind of its request.                                  *)
KindInv == /\ \A t \in Threads : Holding(t) => /\ info[call[t].node].type = call[t].type
                                               /\ info[call[t].node].filter = call[t].filter
           /\ \A i \in DOMAIN down : IF down[i][2] = "SUBACK" THEN info[down[i][1]].type = "SUBSCRIBE"
                                     ELSE info[down[i][1]].type = "UNSUBSCRIBE"

(* AckToCome, by places.                                                     *)
ToCome(n) == n \in Ups \cup Downs \/ \E t \in Threads : call[t].pc = "send" /\ call[t].node = n

(* Requests and calls are about filters.                                     *)
FilterInv == /\ \A n \in heap \cup Ups : info[n].filter \in Filters
             /\ \A t \in Threads : call[t].pc # "idle" => call[t].filter \in Filters

(* What is freed outside the table was allocated, but for the two faults.    *)
FreeInv ==
    /\ \A t \in Threads : call[t].pc = "remove" => faults \cap {"send_failure", "late_send_failure"} # {}
    /\ "late_send_failure" \notin faults =>
          \A t \in Threads : call[t].pc = "remove" => OnTime(call[t].node)
    /\ "late_unsuback" \notin faults =>
          \A n \in Requests : info[n].type = "UNSUBSCRIBE" /\ ToCome(n) => OnTime(n)

(* A granted subscription has no other outcome before it.                    *)
SuccessInv ==
    \A n \in Requests : info[n].type = "SUBSCRIBE" /\ "SUCCESS" \in reported[n]
        => /\ reported[n] = {"SUCCESS"}
           /\ n \in list_sub_wait_ack => info[n].node_state = "INVALID"

(* The slot the yield thread works on keeps its filter.                      *)
WorkInv == "unsubscribe_overlap" \notin faults =>
    /\ y_pc = "copy" => Used(y_slot) /\ y_topic = sub_handles[y_slot].topic_filter
    /\ y_pc = "deliver" => Used(y_slot)

(* The server has the filter once it has handled what is on its way to it.   *)
UnsubscribesAfter(f, k) == \E l \in DOMAIN up : /\ l > k
                                                /\ info[up[l]].type = "UNSUBSCRIBE" /\ info[up[l]].filter = f
WillHave(f) == \/ f \in server /\ ~UnsubscribesAfter(f, 0)
               \/ \E k \in DOMAIN up : /\ info[up[k]].type = "SUBSCRIBE" /\ info[up[k]].filter = f
                                       /\ ~UnsubscribesAfter(f, k)
ToAsk(i) == \/ y_pc \in {"resub", "copy"} /\ i >= y_slot
            \/ call[Yielder].pc \in {"lock", "send"} /\ call[Yielder].filter = FilterIn(i)

(* Without the faults that excuse it: the server has, or will have, or is    *)
(* still to be asked for the filter of every used slot.                      *)
Excused == ~(faults \subseteq {"late_unsuback", "table_full"})
TableInv == ~Excused /\ is_connected =>
    \A i \in Slots : Used(i) => WillHave(FilterIn(i)) \/ ToAsk(i)

(* It has, or will have, every filter whose grant can still be installed.    *)
GrantInv == ~Excused =>
    \A n \in (Ups \cup Downs) \cap list_sub_wait_ack :
        info[n].type = "SUBSCRIBE" => WillHave(info[n].filter)

(* An unsubscribe call is alone with its filter.                             *)
Unsubscribing(t) == call[t].pc # "idle" /\ call[t].type = "UNSUBSCRIBE"
AloneInv == ~Excused =>
    \A t \in Threads : Unsubscribing(t) =>
        /\ \A i \in Slots : Used(i) => FilterIn(i) # call[t].filter
        /\ \A n \in list_sub_wait_ack : info[n].type = "SUBSCRIBE" /\ info[n].node_state = "NORMAL"
                                        => info[n].filter # call[t].filter
        /\ \A u \in Threads : call[u].pc # "idle" /\ call[u].filter = call[t].filter => u = t

(* NoLeak, copy by copy.                                                     *)
Owned(n) == \/ \E i \in Slots : sub_handles[i].topic_filter = n
            \/ n \in list_sub_wait_ack /\ info[n].node_state = "NORMAL"
            \/ \E t \in Threads : call[t].pc = "remove" /\ call[t].node = n
LeakInv == "table_full" \notin faults => \A n \in heap : Owned(n)

IInv == /\ TypeOK /\ CountInv /\ PlaceInv /\ LockInv /\ FreshInv /\ ListInv /\ OwnInv /\ OpenInv
        /\ KindInv /\ FilterInv /\ FreeInv /\ SuccessInv /\ WorkInv /\ TableInv /\ GrantInv /\ AloneInv
        /\ FreedOnce /\ LeakInv /\ NoDuplicateHandlers

USE SubThreadsAssumption, SubSetsAssumption, SubBoundsAssumption

(* Appending and taking the head, by places.                                 *)
LEMMA AppendFacts ==
  ASSUME NEW S, NEW s \in Seq(S), NEW e \in S
  PROVE  /\ Append(s, e) \in Seq(S)
         /\ Len(s) \in Nat /\ DOMAIN s = 1..Len(s)
         /\ DOMAIN Append(s, e) = 1..(Len(s) + 1)
         /\ \A i \in 1..Len(s) : Append(s, e)[i] = s[i]
         /\ Append(s, e)[Len(s) + 1] = e
OBVIOUS

(* The rest of a sequence, by places.                                        *)
LEMMA TailFacts ==
  ASSUME NEW S, NEW s \in Seq(S), s # <<>>
  PROVE  /\ Tail(s) \in Seq(S)
         /\ Len(s) \in Nat \ {0} /\ DOMAIN s = 1..Len(s)
         /\ DOMAIN Tail(s) = 1..(Len(s) - 1)
         /\ \A i \in 1..(Len(s) - 1) : i + 1 \in 1..Len(s) /\ Tail(s)[i] = s[i + 1]
         /\ Head(s) = s[1] /\ 1 \in 1..Len(s)
OBVIOUS

(* The two ways to say that an ack is still to come.                         *)
LEMMA AckToComeIs ==
  ASSUME NEW n PROVE AckToCome(n) <=> ToCome(n)
BY DEF AckToCome, ToCome, Ups, Downs

(* The first of some slots is one of them, and none is before it.            *)
LEMMA FirstOfIs ==
  ASSUME NEW N \in Nat, NEW S \in SUBSET (1..N), S # {}
  PROVE  FirstOf(S) \in S /\ \A j \in S : FirstOf(S) <= j
<1> DEFINE Below == {1..i : i \in S}
<1>1. IsFiniteSet(1..N)
  BY FS_Interval
<1>2. Below \subseteq FiniteSubsetsOf(1..N) /\ Below # {}
  <2>1. FiniteSubsetsOf(1..N) = SUBSET (1..N)
    BY <1>1, FS_FiniteSubsetsOfFinite
  <2>2. \A i \in S : 1..i \in SUBSET (1..N)
    OBVIOUS
  <2>3. PICK i \in S : TRUE
    OBVIOUS
  <2>4. 1..i \in Below
    BY Zenon
  <2>5. \A b \in Below : b \in SUBSET (1..N)
    BY <2>2
  <2> QED
    BY <2>1, <2>4, <2>5
<1>3. PICK b \in Below : \A c \in Below : ~(<<c, b>> \in StrictSubsetOrdering(1..N))
  BY <1>2, FS_StrictSubsetOrderingWellFounded, WFMin
<1>4. PICK i \in S : b = 1..i
  OBVIOUS
<1>5. ASSUME NEW j \in S, j < i PROVE FALSE
  <2>1. 1..j \in Below /\ 1..j \subseteq b /\ i \in b /\ i \notin 1..j /\ b \subseteq 1..N
    BY <1>4, <1>5
  <2> QED
    BY <1>3, <2>1 DEF StrictSubsetOrdering
<1>6. \A j \in S : i <= j
  BY <1>5
<1> QED
  BY <1>6 DEF FirstOf

(* A call that waits for lock_write_buf can be numbered: one number is left. *)
LEMMA LockRoom ==
  ASSUME NEW t \in Threads, IInv, call[t].pc = "lock"
  PROVE  /\ requests + 1 \in Requests
         /\ IsFiniteSet(Locking \ {t})
         /\ Cardinality(Locking) \in Nat /\ Cardinality(Locking \ {t}) = Cardinality(Locking) - 1
<1>1. t \in Locking /\ IsFiniteSet(Locking)
  BY DEF Locking, IInv, CountInv
<1>2. /\ IsFiniteSet(Locking \ {t})
      /\ Cardinality(Locking) \in Nat /\ Cardinality(Locking \ {t}) = Cardinality(Locking) - 1
      /\ Cardinality(Locking \ {t}) \in Nat
  BY <1>1, FS_RemoveElement, FS_CardinalityType
<1>3. ToResub \in Nat /\ requests \in Nat /\ calls \in Nat /\ calls <= MaxCalls
      /\ drops \in Nat /\ drops <= MaxDrops
  BY DEF ToResub, IInv, TypeOK
<1>4. \A a, b, m \in Nat : a <= b => a * m <= b * m /\ a * m \in Nat /\ b * m \in Nat
  OBVIOUS
<1>5. drops * MAX_MESSAGE_HANDLERS <= MaxDrops * MAX_MESSAGE_HANDLERS
      /\ drops * MAX_MESSAGE_HANDLERS \in Nat /\ MaxDrops * MAX_MESSAGE_HANDLERS \in Nat
  BY <1>3, <1>4
<1>6. requests + Cardinality(Locking) + ToResub <= calls + drops * MAX_MESSAGE_HANDLERS
  BY DEF IInv, CountInv
<1>7. requests + 1 <= MaxCalls + MaxDrops * MAX_MESSAGE_HANDLERS
  BY <1>2, <1>3, <1>5, <1>6
<1> QED
  BY <1>2, <1>3, <1>5, <1>7 DEF Requests, MaxRequests

(* Counting: a step that gives out at most the number it takes from a call   *)
(* that waited, and leaves the right-hand side alone, keeps the bound.       *)
LEMMA CountStep ==
  ASSUME CountInv, TypeOK, IsFiniteSet(Locking'), calls' = calls, drops' = drops,
         requests' \in Nat, Cardinality(Locking') \in Nat,
         requests' + Cardinality(Locking') <= requests + Cardinality(Locking),
         ToResub \in Nat, ToResub' \in Nat, ToResub' <= ToResub
  PROVE  CountInv'
<1> DEFINE b == calls + drops * MAX_MESSAGE_HANDLERS
<1>1. b' = b /\ b \in Nat
  <2>1. calls \in Nat /\ drops \in Nat /\ MAX_MESSAGE_HANDLERS \in Nat
    BY DEF TypeOK
  <2>2. \A a, m \in Nat : a * m \in Nat
    OBVIOUS
  <2>3. drops * MAX_MESSAGE_HANDLERS \in Nat
    BY <2>1, <2>2
  <2> QED
    BY <2>1, <2>3
<1>2. Cardinality(Locking) \in Nat /\ requests \in Nat
  BY FS_CardinalityType DEF CountInv, TypeOK
<1>3. requests + Cardinality(Locking) + ToResub <= b
  BY DEF CountInv
<1>4. requests' + Cardinality(Locking') + ToResub' <= b'
  <2> HIDE DEF b
  <2> QED
    BY <1>1, <1>2, <1>3
<1> QED
  BY <1>4 DEF CountInv

(* The node a thread works on is a request.                                  *)
LEMMA HeldNode ==
  ASSUME IInv, NEW t \in Threads, Holding(t)
  PROVE  call[t].node \in Requests
<1>1. call[t].node \in 1..requests /\ call[t] \in CallRecs
  BY DEF IInv, OpenInv, TypeOK
<1> QED
  BY <1>1 DEF CallRecs, NULL

(* A request joins the packets on their way to the server.                   *)
LEMMA UpGrows ==
  ASSUME IInv, NEW n \in Requests, n \notin Ups, up' = Append(up, n)
  PROVE  /\ up' \in Seq(Requests)
         /\ Ups' = Ups \cup {n}
         /\ \A i, j \in DOMAIN up' : up'[i] = up'[j] => i = j
<1>1. up \in Seq(Requests)
  BY DEF IInv, TypeOK
<1>2. /\ up' \in Seq(Requests)
      /\ Len(up) \in Nat /\ DOMAIN up = 1..Len(up)
      /\ DOMAIN up' = 1..(Len(up) + 1)
      /\ \A i \in 1..Len(up) : up'[i] = up[i]
      /\ up'[Len(up) + 1] = n
  BY <1>1, AppendFacts
<1>3. Ups' = Ups \cup {n}
  <2>1. Ups' \subseteq Ups \cup {n}
    BY <1>2 DEF Ups
  <2>2. Ups \cup {n} \subseteq Ups'
    BY <1>2 DEF Ups
  <2> QED
    BY <2>1, <2>2
<1>4. \A i \in 1..Len(up) : up[i] # n
  BY <1>2 DEF Ups
<1>5. \A i, j \in 1..Len(up) : up[i] = up[j] => i = j
  BY <1>2 DEF IInv, OpenInv
<1>6. ASSUME NEW i \in DOMAIN up', NEW j \in DOMAIN up', up'[i] = up'[j] PROVE i = j
  BY <1>2, <1>4, <1>5, <1>6
<1> QED
  BY <1>2, <1>3, <1>6

(* The server takes the first of them.                                       *)
LEMMA UpShrinks ==
  ASSUME IInv, up # <<>>, up' = Tail(up)
  PROVE  /\ up' \in Seq(Requests)
         /\ Head(up) \in Ups /\ Ups' = Ups \ {Head(up)}
         /\ \A i, j \in DOMAIN up' : up'[i] = up'[j] => i = j
<1>1. up \in Seq(Requests)
  BY DEF IInv, TypeOK
<1>2. /\ up' \in Seq(Requests)
      /\ Len(up) \in Nat \ {0} /\ DOMAIN up = 1..Len(up)
      /\ DOMAIN up' = 1..(Len(up) - 1)
      /\ \A i \in 1..(Len(up) - 1) : i + 1 \in 1..Len(up) /\ up'[i] = up[i + 1]
      /\ Head(up) = up[1] /\ 1 \in 1..Len(up)
  BY <1>1, TailFacts
<1>3. \A i, j \in 1..Len(up) : up[i] = up[j] => i = j
  BY <1>2 DEF IInv, OpenInv
<1>4. Head(up) \in Ups
  BY <1>2 DEF Ups
<1>5. \A n : n \in Ups' => n \in Ups \ {Head(up)}
  BY <1>2, <1>3 DEF Ups
<1>6. ASSUME NEW n \in Ups, n # Head(up) PROVE n \in Ups'
  <2>1. PICK i \in 1..Len(up) : n = up[i]
    BY <1>2 DEF Ups
  <2>2. i - 1 \in 1..(Len(up) - 1) /\ i = (i - 1) + 1
    BY <1>2, <1>6, <2>1
  <2>3. up'[i - 1] = n
    BY <1>2, <2>1, <2>2
  <2> QED
    BY <1>2, <2>2, <2>3 DEF Ups
<1>7. ASSUME NEW i \in DOMAIN up', NEW j \in DOMAIN up', up'[i] = up'[j] PROVE i = j
  BY <1>2, <1>3, <1>7
<1> QED
  BY <1>2, <1>4, <1>5, <1>6, <1>7

Packets == Requests \X {"SUBACK", "UNSUBACK"} \X BOOLEAN

(* The server's answer joins the packets on their way to the client.         *)
LEMMA DownGrows ==
  ASSUME IInv, NEW p \in Packets, p[1] \notin Downs, down' = Append(down, p)
  PROVE  /\ down' \in Seq(Packets)
         /\ Downs' = Downs \cup {p[1]}
         /\ \A i, j \in DOMAIN down' : down'[i][1] = down'[j][1] => i = j
         /\ \A i \in DOMAIN down' : down'[i] = p \/ \E j \in DOMAIN down : down'[i] = down[j]
<1>1. down \in Seq(Packets)
  BY DEF IInv, TypeOK, Packets
<1>2. /\ down' \in Seq(Packets)
      /\ Len(down) \in Nat /\ DOMAIN down = 1..Len(down)
      /\ DOMAIN down' = 1..(Len(down) + 1)
      /\ \A i \in 1..Len(down) : down'[i] = down[i]
      /\ down'[Len(down) + 1] = p
  BY <1>1, AppendFacts
<1>3. Downs' = Downs \cup {p[1]}
  <2>1. Downs' \subseteq Downs \cup {p[1]}
    BY <1>2 DEF Downs
  <2>2. Downs \cup {p[1]} \subseteq Downs'
    BY <1>2 DEF Downs
  <2> QED
    BY <2>1, <2>2
<1>4. \A i \in 1..Len(down) : down[i][1] # p[1]
  BY <1>2 DEF Downs
<1>5. \A i, j \in 1..Len(down) : down[i][1] = down[j][1] => i = j
  BY <1>2 DEF IInv, OpenInv
<1>6. ASSUME NEW i \in DOMAIN down', NEW j \in DOMAIN down', down'[i][1] = down'[j][1] PROVE i = j
  BY <1>2, <1>4, <1>5, <1>6
<1>7. \A i \in DOMAIN down' : down'[i] = p \/ \E j \in DOMAIN down : down'[i] = down[j]
  BY <1>2
<1> QED
  BY <1>2, <1>3, <1>6, <1>7

(* The client takes the first of them.                                       *)
LEMMA DownShrinks ==
  ASSUME IInv, down # <<>>, down' = Tail(down)
  PROVE  /\ down' \in Seq(Packets)
         /\ Head(down) \in Packets /\ Head(down)[1] \in Downs /\ Downs' = Downs \ {Head(down)[1]}
         /\ \E i \in DOMAIN down : Head(down) = down[i]
         /\ \A i, j \in DOMAIN down' : down'[i][1] = down'[j][1] => i = j
         /\ \A i \in DOMAIN down' : \E j \in DOMAIN down : down'[i] = down[j]
<1>1. down \in Seq(Packets)
  BY DEF IInv, TypeOK, Packets
<1>2. /\ down' \in Seq(Packets)
      /\ Len(down) \in Nat \ {0} /\ DOMAIN down = 1..Len(down)
      /\ DOMAIN down' = 1..(Len(down) - 1)
      /\ \A i \in 1..(Len(down) - 1) : i + 1 \in 1..Len(down) /\ down'[i] = down[i + 1]
      /\ Head(down) = down[1] /\ 1 \in 1..Len(down)
  BY <1>1, TailFacts
<1>3. \A i, j \in 1..Len(down) : down[i][1] = down[j][1] => i = j
  BY <1>2 DEF IInv, OpenInv
<1>4. Head(down)[1] \in Downs /\ Head(down) \in Packets
  BY <1>1, <1>2 DEF Downs
<1>5. \A n : n \in Downs' => n \in Downs \ {Head(down)[1]}
  BY <1>2, <1>3 DEF Downs
<1>6. ASSUME NEW n \in Downs, n # Head(down)[1] PROVE n \in Downs'
  <2>1. PICK i \in 1..Len(down) : n = down[i][1]
    BY <1>2 DEF Downs
  <2>2. i - 1 \in 1..(Len(down) - 1) /\ i = (i - 1) + 1
    BY <1>2, <1>6, <2>1
  <2>3. down'[i - 1][1] = n
    BY <1>2, <2>1, <2>2
  <2> QED
    BY <1>2, <2>2, <2>3 DEF Downs
<1>7. ASSUME NEW i \in DOMAIN down', NEW j \in DOMAIN down', down'[i][1] = down'[j][1] PROVE i = j
  BY <1>2, <1>3, <1>7
<1>8. \A i \in DOMAIN down' : \E j \in DOMAIN down : down'[i] = down[j]
  BY <1>2
<1> QED
  BY <1>2, <1>4, <1>5, <1>6, <1>7, <1>8

(* What the server will have once a further request is on its way.           *)
LEMMA WillHaveGrows ==
  ASSUME IInv, NEW n \in Requests, up' = Append(up, n), UNCHANGED <<info, server>>
  PROVE  /\ info[n].type = "SUBSCRIBE" => WillHave(info[n].filter)'
         /\ \A f : WillHave(f) /\ ~(info[n].type = "UNSUBSCRIBE" /\ info[n].filter = f) => WillHave(f)'
<1>1. up \in Seq(Requests)
  BY DEF IInv, TypeOK
<1>2. /\ Len(up) \in Nat /\ DOMAIN up = 1..Len(up)
      /\ DOMAIN up' = 1..(Len(up) + 1)
      /\ \A i \in 1..Len(up) : up'[i] = up[i]
      /\ up'[Len(up) + 1] = n
  BY <1>1, AppendFacts
<1>3. ASSUME info[n].type = "SUBSCRIBE" PROVE WillHave(info[n].filter)'
  <2>1. ~UnsubscribesAfter(info[n].filter, Len(up) + 1)'
    BY <1>2 DEF UnsubscribesAfter
  <2> QED
    BY <1>2, <1>3, <2>1 DEF WillHave, UnsubscribesAfter
<1>4. ASSUME NEW f, WillHave(f), ~(info[n].type = "UNSUBSCRIBE" /\ info[n].filter = f) PROVE WillHave(f)'
  BY <1>2, <1>4 DEF WillHave, UnsubscribesAfter
<1> QED
  BY <1>3, <1>4

(* A request the server handles does to the filter what it was sent for.     *)
LEMMA WillHaveShrinks ==
  ASSUME IInv, up # <<>>, up' = Tail(up), UNCHANGED info,
         IF info[Head(up)].type = "SUBSCRIBE" THEN server' = server \cup {info[Head(up)].filter}
                                              ELSE server' = server \ {info[Head(up)].filter}
  PROVE  \A f : WillHave(f) => WillHave(f)'
<1>1. up \in Seq(Requests)
  BY DEF IInv, TypeOK
<1>2. /\ Len(up) \in Nat \ {0} /\ DOMAIN up = 1..Len(up)
      /\ DOMAIN up' = 1..(Len(up) - 1)
      /\ \A i \in 1..(Len(up) - 1) : i + 1 \in 1..Len(up) /\ up'[i] = up[i + 1]
      /\ Head(up) = up[1] /\ 1 \in 1..Len(up)
  BY <1>1, TailFacts
<1>3. ASSUME NEW f, NEW k \in 0..Len(up), ~UnsubscribesAfter(f, k + 1) PROVE ~UnsubscribesAfter(f, k)'
  BY <1>2, <1>3 DEF UnsubscribesAfter
<1>4. ASSUME NEW f, ~UnsubscribesAfter(f, 0) PROVE ~UnsubscribesAfter(f, 1)
  BY <1>4, <1>2 DEF UnsubscribesAfter
<1>5. info[up[1]].type \in {"SUBSCRIBE", "UNSUBSCRIBE"}
  BY <1>1, <1>2 DEF IInv, TypeOK, NodeRecs
<1>6. ASSUME NEW f, WillHave(f) PROVE WillHave(f)'
  <2>1. CASE f \in server /\ ~UnsubscribesAfter(f, 0)
    <3>1. ~UnsubscribesAfter(f, 0)'
      BY <1>2, <1>3, <1>4, <2>1
    <3>2. ~(info[up[1]].type = "UNSUBSCRIBE" /\ info[up[1]].filter = f)
      BY <1>2, <2>1 DEF UnsubscribesAfter
    <3>3. f \in server'
      BY <1>2, <1>5, <2>1, <3>2
    <3> QED
      BY <3>1, <3>3 DEF WillHave
  <2>2. CASE \E k \in DOMAIN up : /\ info[up[k]].type = "SUBSCRIBE" /\ info[up[k]].filter = f
                                  /\ ~UnsubscribesAfter(f, k)
    <3>1. PICK k \in 1..Len(up) : /\ info[up[k]].type = "SUBSCRIBE" /\ info[up[k]].filter = f
                                  /\ ~UnsubscribesAfter(f, k)
      BY <1>2, <2>2
    <3>2. ~UnsubscribesAfter(f, k - 1)'
      BY <1>2, <1>3, <3>1
    <3>3. CASE k = 1
      BY <1>2, <3>1, <3>2, <3>3 DEF WillHave
    <3>4. CASE k # 1
      <4>1. k - 1 \in 1..(Len(up) - 1) /\ up'[k - 1] = up[k]
        BY <1>2, <3>1, <3>4
      <4> QED
        BY <1>2, <3>1, <3>2, <4>1 DEF WillHave
    <3> QED
      BY <3>3, <3>4
  <2> QED
    BY <1>6, <2>1, <2>2 DEF WillHave
<1> QED
  BY <1>6

(* What an ack handler may do with the answer to n: mark its node, free its  *)
(* filter copy or give it to a free slot that no identical handler needs,    *)
(* and report. It leaves the copy alone when n is not listed any more, or    *)
(* when the table is full.                                                   *)
Puts(n, i) == /\ ~Used(i) /\ n \in list_sub_wait_ack /\ info[n].type = "SUBSCRIBE"
              /\ \A j \in Slots : ~Identical(j, n)
              /\ sub_handles' = [sub_handles EXCEPT ![i] = [topic_filter |-> n, message_handler |-> info[n].handler]]
              /\ heap' = heap
AckEffect(n) ==
    /\ Reading /\ down # <<>> /\ Head(down)[1] = n /\ down' = Tail(down)
    /\ MaskSubInfo(n)
    /\ UNCHANGED <<list_sub_wait_ack, caller, y_slot, y_topic, is_connected, drops, up, server>>
    /\ y_pc' \in {"read", "proc"}
    /\ faults' = faults \/ faults' = faults \cup {"table_full"}
    /\ bad_free' \subseteq Requests \cup {NULL}
    /\ bad_free' = bad_free \/ "late_unsuback" \in faults
    /\ \/ sub_handles' = sub_handles /\ heap' = heap \ {n}
       \/ \E i \in Slots : Puts(n, i)
       \/ sub_handles' = sub_handles /\ heap' = heap /\ (n \notin list_sub_wait_ack \/ "table_full" \in faults')
    /\ reported' \in [Requests -> SUBSET Results]
    /\ \A k \in Requests : k # n => reported'[k] = reported[k]
    /\ info[n].type = "SUBSCRIBE" => \/ reported'[n] \subseteq reported[n] \cup {"NACK"}
                                     \/ n \in list_sub_wait_ack /\ reported'[n] = {"SUCCESS"}

(* Such a step keeps the invariant.                                          *)
LEMMA AckStep ==
  ASSUME IInv, NEW n \in Requests, AckEffect(n) PROVE IInv'
<1>1. /\ down' \in Seq(Packets) /\ n \in Downs /\ Downs' = Downs \ {n}
      /\ \A i, j \in DOMAIN down' : down'[i][1] = down'[j][1] => i = j
      /\ \A i \in DOMAIN down' : \E j \in DOMAIN down : down'[i] = down[j]
  BY DownShrinks DEF AckEffect
<1> USE DEF IInv, table, list, caller, yield, net, hist
<1>2. Open(n) /\ n \notin Ups /\ n \notin Downs' /\ \A t \in Threads : Holding(t) => call[t].node # n
  BY <1>1 DEF OpenInv
<1>3. /\ UNCHANGED <<list_sub_wait_ack, caller, y_slot, y_topic, is_connected, drops, up, server>>
      /\ y_pc = "read" /\ y_pc' \in {"read", "proc"} /\ is_connected /\ call[Yielder].pc = "idle"
  BY DEF AckEffect, Reading
<1>4. /\ info' \in [Requests -> NodeRecs]
      /\ \A k \in Requests : k # n => info'[k] = info[k]
      /\ n \in list_sub_wait_ack => info'[n] = [info[n] EXCEPT !.node_state = "INVALID"]
      /\ n \notin list_sub_wait_ack => info'[n] = info[n]
  <2>1. info' = IF n \in list_sub_wait_ack THEN [info EXCEPT ![n].node_state = "INVALID"] ELSE info
    BY DEF AckEffect, MaskSubInfo
  <2>2. info \in [Requests -> NodeRecs] /\ info[n] \in NodeRecs
    BY DEF TypeOK
  <2>3. [info[n] EXCEPT !.node_state = "INVALID"] \in NodeRecs
    BY <2>2 DEF NodeRecs
  <2>4. CASE n \in list_sub_wait_ack
    <3>1. info' = [info EXCEPT ![n] = [info[n] EXCEPT !.node_state = "INVALID"]]
      BY <2>1, <2>4
    <3> QED
      BY <2>2, <2>3, <2>4, <3>1
  <2> QED
    BY <2>1, <2>2, <2>4
<1>5. \A k \in Requests : /\ info'[k].type = info[k].type /\ info'[k].filter = info[k].filter
                          /\ info'[k].handler = info[k].handler /\ info'[k].expired = info[k].expired
  <2> SUFFICES ASSUME NEW k \in Requests
               PROVE  /\ info'[k].type = info[k].type /\ info'[k].filter = info[k].filter
                      /\ info'[k].handler = info[k].handler /\ info'[k].expired = info[k].expired
    OBVIOUS
  <2>1. info[k] \in NodeRecs
    BY DEF TypeOK
  <2>2. info'[k] = info[k] \/ info'[k] = [info[k] EXCEPT !.node_state = "INVALID"]
    BY <1>4
  <2> QED
    BY <2>1, <2>2 DEF NodeRecs
<1>6. n \in list_sub_wait_ack => info'[n].node_state = "INVALID" /\ info[n].node_state = "NORMAL" /\ n \in heap
  BY <1>2, <1>4 DEF TypeOK, NodeRecs, Open, OwnInv
<1>7. /\ faults \subseteq faults' /\ faults' \subseteq faults \cup {"table_full"}
      /\ faults' \subseteq Faults \cup Limits
  BY DEF AckEffect, TypeOK, Limits
<1>8. Ups' = Ups /\ Ups \cup Downs \subseteq Requests
  BY <1>3 DEF Ups, Downs, TypeOK
<1>9. heap' \subseteq heap /\ heap \ {n} \subseteq heap'
  BY DEF AckEffect, Puts
<1>10. n # NULL /\ \A i \in Slots : sub_handles[i].topic_filter # n
  BY <1>2 DEF Requests, NULL, Open
<1>11. \A i \in Slots : sub_handles'[i] = sub_handles[i] \/ Puts(n, i)
  BY DEF AckEffect, Puts, TypeOK
<1>12. ASSUME NEW i \in Slots, Puts(n, i)
       PROVE  /\ sub_handles'[i].topic_filter = n /\ sub_handles'[i].message_handler = info[n].handler
              /\ \A j \in Slots : j # i => sub_handles'[j] = sub_handles[j]
              /\ n \in heap' /\ info[n].type = "SUBSCRIBE" /\ n \in list_sub_wait_ack
  BY <1>6, <1>12 DEF Puts, TypeOK
<1>13. \A i \in Slots : Used(i)' => \/ /\ Used(i) /\ sub_handles'[i] = sub_handles[i]
                                       /\ sub_handles[i].topic_filter \in Requests /\ FilterIn(i)' = FilterIn(i)
                                    \/ Puts(n, i) /\ FilterIn(i)' = info[n].filter
  <2> SUFFICES ASSUME NEW i \in Slots, Used(i)'
               PROVE  \/ /\ Used(i) /\ sub_handles'[i] = sub_handles[i]
                         /\ sub_handles[i].topic_filter \in Requests /\ FilterIn(i)' = FilterIn(i)
                      \/ Puts(n, i) /\ FilterIn(i)' = info[n].filter
    OBVIOUS
  <2>1. CASE sub_handles'[i] = sub_handles[i]
    <3>1. Used(i) /\ sub_handles[i].topic_filter \in Requests
      BY <2>1 DEF Used, TypeOK
    <3> QED
      BY <1>5, <2>1, <3>1 DEF FilterIn
  <2>2. CASE Puts(n, i)
    BY <1>5, <1>12, <2>2 DEF FilterIn
  <2> QED
    BY <1>11, <2>1, <2>2
<1>20. TypeOK'
  <2>1. sub_handles' \in [Slots -> [topic_filter : Requests \cup {NULL}, message_handler : Handlers \cup {NULL}]]
    <3>1. info[n].handler \in Handlers \cup {NULL}
      BY DEF TypeOK, NodeRecs
    <3>2. [topic_filter |-> n, message_handler |-> info[n].handler]
            \in [topic_filter : Requests \cup {NULL}, message_handler : Handlers \cup {NULL}]
      BY <3>1
    <3> QED
      BY <3>2 DEF AckEffect, Puts, TypeOK
  <2>2. /\ heap' \subseteq Requests /\ bad_free' \subseteq Requests \cup {NULL}
        /\ reported' \in [Requests -> SUBSET Results]
        /\ y_pc' \in {"read", "left", "proc", "deliver", "resub", "copy"}
    BY <1>3, <1>9 DEF AckEffect, TypeOK
  <2>3. down' \in Seq(Requests \X {"SUBACK", "UNSUBACK"} \X BOOLEAN)
    BY <1>1 DEF Packets
  <2> QED
    BY <1>3, <1>4, <1>7, <2>1, <2>2, <2>3 DEF TypeOK
<1>21. CountInv'
  BY <1>3 DEF CountInv, Locking, ToResub
<1>22. PlaceInv'
  BY <1>3 DEF PlaceInv
<1>23. LockInv'
  BY <1>3 DEF LockInv, Holding
<1>24. FreshInv'
  <2>1. n \in 1..requests /\ requests \in Nat
    BY <1>1 DEF FreshInv, TypeOK
  <2>2. \A i \in Slots : sub_handles'[i].topic_filter <= requests
    BY <1>11, <1>12, <2>1 DEF FreshInv
  <2>3. \A k \in Requests : k > requests => k # n
    BY <2>1
  <2> QED
    BY <1>1, <1>3, <1>8, <1>9, <2>2, <2>3 DEF FreshInv, AckEffect
<1>25. ListInv'
  BY <1>3 DEF ListInv, ListBounded
<1>26. OwnInv'
  <2>1. ASSUME NEW i \in Slots, Used(i)'
        PROVE  /\ sub_handles'[i].topic_filter \in heap'
               /\ \A j \in Slots : sub_handles'[j].topic_filter = sub_handles'[i].topic_filter => j = i
    <3>1. CASE Used(i) /\ sub_handles'[i] = sub_handles[i]
      BY <1>9, <1>10, <1>11, <1>12, <3>1 DEF OwnInv
    <3>2. CASE Puts(n, i)
      BY <1>10, <1>12, <3>2
    <3> QED
      BY <1>13, <2>1, <3>1, <3>2
  <2>2. ASSUME NEW k \in list_sub_wait_ack, info'[k].node_state = "NORMAL"
        PROVE  k \in heap' /\ reported'[k] = {} /\ \A i \in Slots : sub_handles'[i].topic_filter # k
    <3>1. k \in Requests /\ k # n
      BY <1>6, <2>2 DEF TypeOK
    <3>2. info[k].node_state = "NORMAL" /\ reported'[k] = reported[k]
      BY <1>4, <2>2, <3>1 DEF AckEffect
    <3> QED
      BY <1>9, <1>11, <1>12, <3>1, <3>2 DEF OwnInv
  <2> QED
    BY <1>3, <2>1, <2>2 DEF OwnInv
<1>27. \A k \in Requests : k # n /\ Open(k) => Open(k)'
  BY <1>3, <1>4, <1>11, <1>12 DEF Open, AckEffect
<1>28. OpenInv'
  <2>1. \A k \in Ups' \cup Downs' : k \in Requests /\ k # n /\ Open(k)
    BY <1>1, <1>2, <1>8 DEF OpenInv
  <2>2. \A t \in Threads : Holding(t) => call[t].node \in Requests
    BY DEF OpenInv, TypeOK, CallRecs, NULL
  <2>3. \A t \in Threads : Holding(t) => Open(call[t].node)'
    BY <1>2, <1>3, <1>27, <2>2 DEF OpenInv
  <2> QED
    BY <1>1, <1>3, <1>8, <1>27, <2>1, <2>3 DEF OpenInv, Holding
<1>29. KindInv'
  <2>1. \A i \in DOMAIN down : down[i][1] \in Requests
    BY <1>8 DEF Downs
  <2>2. \A t \in Threads : Holding(t) => call[t].node \in Requests
    BY DEF OpenInv, TypeOK, CallRecs, NULL
  <2>3. \A t \in Threads : Holding(t)' => /\ info'[call'[t].node].type = call'[t].type
                                          /\ info'[call'[t].node].filter = call'[t].filter
    BY <1>3, <1>5, <2>2 DEF KindInv, Holding
  <2>4. \A i \in DOMAIN down' : IF down'[i][2] = "SUBACK" THEN info'[down'[i][1]].type = "SUBSCRIBE"
                                ELSE info'[down'[i][1]].type = "UNSUBSCRIBE"
    BY <1>1, <1>5, <2>1 DEF KindInv
  <2> QED
    BY <2>3, <2>4 DEF KindInv
<1>30. FilterInv'
  BY <1>3, <1>5, <1>8, <1>9 DEF FilterInv, TypeOK
<1>31. FreeInv'
  <2>1. \A k \in Requests : (ToCome(k)' => ToCome(k)) /\ (OnTime(k)' <=> OnTime(k))
    BY <1>1, <1>3, <1>5, <1>8 DEF ToCome, OnTime
  <2>2. \A t \in Threads : Holding(t) => call[t].node \in Requests
    BY DEF OpenInv, TypeOK, CallRecs, NULL
  <2>3. \A t \in Threads : call'[t].pc = "remove" => Holding(t) /\ call'[t] = call[t] /\ call[t].node \in Requests
    BY <1>3, <2>2 DEF Holding
  <2> QED
    BY <1>3, <1>5, <1>7, <2>1, <2>3 DEF FreeInv
<1>32. SuccessInv'
  <2> SUFFICES ASSUME NEW k \in Requests, info'[k].type = "SUBSCRIBE", "SUCCESS" \in reported'[k]
               PROVE  reported'[k] = {"SUCCESS"} /\ (k \in list_sub_wait_ack => info'[k].node_state = "INVALID")
    BY <1>3 DEF SuccessInv
  <2>1. CASE k = n
    BY <1>2, <1>5, <1>6, <2>1 DEF AckEffect, Open
  <2>2. CASE k # n
    BY <1>4, <2>2 DEF AckEffect, SuccessInv
  <2> QED
    BY <2>1, <2>2
<1>33. WorkInv'
  BY <1>3 DEF WorkInv
<1>34. (Excused => Excused') /\ \A f : WillHave(f)' <=> WillHave(f)
  <2>1. \A i \in DOMAIN up : up[i] \in Requests
    BY DEF TypeOK
  <2> QED
    BY <1>3, <1>5, <1>7, <2>1 DEF Excused, WillHave, UnsubscribesAfter
<1>35. TableInv'
  <2> SUFFICES ASSUME ~Excused, NEW i \in Slots, Used(i)' PROVE WillHave(FilterIn(i))'
    BY <1>34 DEF TableInv
  <2>1. PICK f : f = FilterIn(i)'
    OBVIOUS
  <2>2. ~ToAsk(i)
    BY <1>3 DEF ToAsk
  <2>3. WillHave(f)
    <3>1. CASE Used(i) /\ FilterIn(i)' = FilterIn(i)
      BY <1>3, <2>1, <2>2, <3>1 DEF TableInv
    <3>2. CASE Puts(n, i) /\ FilterIn(i)' = info[n].filter
      BY <1>1, <1>12, <2>1, <3>2 DEF GrantInv
    <3> QED
      BY <1>13, <3>1, <3>2
  <2> QED
    BY <1>34, <2>1, <2>3
<1>36. GrantInv'
  <2> SUFFICES ASSUME ~Excused, NEW k \in (Ups' \cup Downs') \cap list_sub_wait_ack, info'[k].type = "SUBSCRIBE"
               PROVE  WillHave(info[k].filter)'
    BY <1>3, <1>34 DEF GrantInv
  <2>1. k \in (Ups \cup Downs) \cap list_sub_wait_ack /\ k \in Requests
    BY <1>1, <1>8
  <2>2. PICK f : f = info[k].filter /\ WillHave(f)
    BY <1>5, <2>1 DEF GrantInv
  <2>3. WillHave(f)' /\ info'[k].filter = f
    BY <1>5, <1>34, <2>1, <2>2
  <2> QED
    BY <2>3
<1>37. AloneInv'
  <2> SUFFICES ASSUME ~Excused, NEW t \in Threads, Unsubscribing(t)
               PROVE  /\ \A i \in Slots : Used(i)' => FilterIn(i)' # call[t].filter
                      /\ \A k \in list_sub_wait_ack : info'[k].type = "SUBSCRIBE" /\ info'[k].node_state = "NORMAL"
                                                      => info'[k].filter # call[t].filter
                      /\ \A u \in Threads : call[u].pc # "idle" /\ call[u].filter = call[t].filter => u = t
    BY <1>3, <1>34 DEF AloneInv, Unsubscribing
  <2>1. \A i \in Slots : Used(i)' => FilterIn(i)' # call[t].filter
    BY <1>6, <1>12, <1>13 DEF AloneInv
  <2>2. \A k \in list_sub_wait_ack : info'[k].node_state = "NORMAL" => k # n /\ info'[k] = info[k]
    BY <1>4, <1>6 DEF TypeOK
  <2> QED
    BY <2>1, <2>2 DEF AloneInv
<1>38. FreedOnce'
  BY <1>7 DEF FreedOnce, AckEffect
<1>39. LeakInv'
  <2> SUFFICES ASSUME "table_full" \notin faults', NEW k \in heap' PROVE Owned(k)'
    BY DEF LeakInv
  <2>1. k \in heap /\ k \in Requests /\ Owned(k)
    BY <1>7, <1>9 DEF LeakInv, TypeOK
  <2>2. CASE k = n
    <3>1. \A t \in Threads : call[t].pc = "remove" => call[t].node # n
      BY <1>2 DEF Holding
    <3>2. n \in list_sub_wait_ack
      BY <1>10, <2>1, <2>2, <3>1 DEF Owned
    <3>3. PICK i \in Slots : Puts(n, i)
      BY <2>2, <3>2 DEF AckEffect
    <3> QED
      BY <1>12, <2>2, <3>3 DEF Owned
  <2>3. CASE k # n
    <3>1. CASE \E i \in Slots : sub_handles[i].topic_filter = k
      <4>1. PICK i \in Slots : sub_handles[i].topic_filter = k
        BY <3>1
      <4>2. ~Puts(n, i)
        BY <2>1, <4>1 DEF Puts, Used, Requests, NULL
      <4> QED
        BY <1>11, <4>1, <4>2 DEF Owned
    <3>2. CASE k \in list_sub_wait_ack /\ info[k].node_state = "NORMAL"
      BY <1>3, <1>4, <2>1, <2>3, <3>2 DEF Owned
    <3>3. CASE \E t \in Threads : call[t].pc = "remove" /\ call[t].node = k
      BY <1>3, <3>3 DEF Owned
    <3> QED
      BY <2>1, <3>1, <3>2, <3>3 DEF Owned
  <2> QED
    BY <2>2, <2>3
<1>40. NoDuplicateHandlers'
  <2> SUFFICES ASSUME NEW i \in Slots, NEW j \in Slots, Used(i)', Used(j)', i # j
               PROVE  \/ sub_handles'[i].message_handler # sub_handles'[j].message_handler
                      \/ FilterIn(i)' # FilterIn(j)'
    BY DEF NoDuplicateHandlers
  <2>1. ASSUME NEW a \in Slots, NEW b \in Slots, a # b, Puts(n, a), Used(b)'
        PROVE  \/ sub_handles'[a].message_handler # sub_handles'[b].message_handler
               \/ FilterIn(a)' # FilterIn(b)'
    <3>1. sub_handles'[b] = sub_handles[b] /\ sub_handles'[a].message_handler = info[n].handler
      BY <1>12, <2>1
    <3>2. sub_handles'[a].topic_filter = n /\ FilterIn(a)' = info[n].filter
      BY <1>5, <1>12, <2>1 DEF FilterIn
    <3>3. Used(b) /\ FilterIn(b)' = FilterIn(b)
      BY <1>5, <2>1, <3>1 DEF Used, FilterIn, TypeOK
    <3>4. ~Identical(b, n)
      BY <2>1 DEF Puts
    <3> QED
      BY <3>1, <3>2, <3>3, <3>4 DEF Identical
  <2>2. CASE Puts(n, i)
    BY <2>1, <2>2
  <2>3. CASE Puts(n, j)
    BY <2>1, <2>3
  <2>4. CASE ~Puts(n, i) /\ ~Puts(n, j)
    BY <1>13, <2>4 DEF NoDuplicateHandlers
  <2> QED
    BY <2>2, <2>3, <2>4
<1> QED
  BY <1>20, <1>21, <1>22, <1>23, <1>24, <1>25, <1>26, <1>28, <1>29, <1>30, <1>31, <1>32, <1>33,
     <1>35, <1>36, <1>37, <1>38, <1>39, <1>40

(* A subscribe call begins.                                                  *)
LEMMA SubscribeStep ==
  ASSUME NEW t \in Apps, NEW f \in Filters, NEW h \in Handlers, IInv, Subscribe(t, f, h) PROVE IInv'
<1> USE DEF IInv, table, list, caller, yield, net, hist
<1>0. Ups' = Ups /\ Downs' = Downs
  BY DEF Subscribe, Begin, Fault, Ups, Downs
<1>20. \A ff : WillHave(ff)' <=> WillHave(ff)
  BY DEF Subscribe, Begin, Fault, WillHave, UnsubscribesAfter
<1>21. t \in Threads
  BY DEF Threads
<1>1. TypeOK'
  <2>1. sub_handles' \in [Slots -> [topic_filter : Requests \cup {NULL},
                                  message_handler : Handlers \cup {NULL}]]
    BY <1>0, <1>20, <1>21 DEF Subscribe, Begin, Fault, TypeOK
  <2>2. info' \in [Requests -> NodeRecs]
    BY <1>0, <1>20, <1>21 DEF Subscribe, Begin, Fault, TypeOK, NodeRecs
  <2>3. call' \in [Threads -> CallRecs]
    BY <1>0, <1>20, <1>21 DEF Subscribe, Begin, Fault, TypeOK, CallRecs, IdleCall, Threads, NULL
  <2>4. reported' \in [Requests -> SUBSET Results]
    BY <1>0, <1>20, <1>21 DEF Subscribe, Begin, Fault, TypeOK, Results
  <2>5. faults' \subseteq Faults \cup Limits
    BY <1>0, <1>20, <1>21 DEF Subscribe, Begin, Fault, TypeOK, Limits
  <2>6. up' \in Seq(Requests) /\ down' \in Seq(Requests \X {"SUBACK", "UNSUBACK"} \X BOOLEAN)
    BY <1>0, <1>20, <1>21 DEF Subscribe, Begin, Fault, TypeOK
  <2> QED
    BY <1>0, <1>20, <1>21, <2>1, <2>2, <2>3, <2>4, <2>5, <2>6 DEF Subscribe, Begin, Fault, TypeOK,
       NULL, Slots
<1>2. CountInv'
  <2>1. Locking' = Locking \cup {t} /\ t \notin Locking
    BY <1>21 DEF Subscribe, Begin, Locking, TypeOK
  <2>2. IsFiniteSet(Locking') /\ Cardinality(Locking') = Cardinality(Locking) + 1 /\ Cardinality(Locking) \in Nat
    BY <2>1, FS_AddElement, FS_CardinalityType DEF CountInv
  <2> QED
    BY <2>2 DEF CountInv, ToResub, Subscribe, TypeOK
<1>3. PlaceInv'
  BY <1>0, <1>20, <1>21 DEF Subscribe, Begin, Fault, PlaceInv, TypeOK, IdleCall, Threads, Slots
<1>4. LockInv'
  BY <1>0, <1>20, <1>21 DEF Subscribe, Begin, Fault, LockInv, Holding, TypeOK, IdleCall
<1>5. FreshInv'
  BY <1>0, <1>20, <1>21 DEF Subscribe, Begin, Fault, FreshInv, TypeOK, OpenInv, Holding, Slots, NULL
<1>6. ListInv'
  BY <1>0, <1>20, <1>21 DEF Subscribe, Begin, Fault, ListInv, ListBounded, TypeOK
<1>7. OwnInv'
  BY <1>0, <1>20, <1>21 DEF Subscribe, Begin, Fault, OwnInv, Used, TypeOK, OpenInv, Open,
     FreshInv, Slots, NULL, Requests
<1>8. OpenInv'
  BY <1>0, <1>20, <1>21 DEF Subscribe, Begin, Fault, OpenInv, Open, Holding, OwnInv, Used,
     LockInv, FreshInv, TypeOK, IdleCall, Requests
<1>9. KindInv'
  BY <1>0, <1>20, <1>21 DEF Subscribe, Begin, Fault, KindInv, Holding, TypeOK, IdleCall, FreshInv,
     OpenInv, LockInv
<1>10. FilterInv'
  BY <1>0, <1>20, <1>21 DEF Subscribe, Begin, Fault, FilterInv, TypeOK, IdleCall
<1>11. FreeInv'
  BY <1>0, <1>20, <1>21 DEF Subscribe, Begin, Fault, FreeInv, ToCome, OnTime, Holding, OpenInv,
     Open, LockInv, KindInv, TypeOK, IdleCall, Threads
<1>12. SuccessInv'
  BY <1>0, <1>20, <1>21 DEF Subscribe, Begin, Fault, SuccessInv, OpenInv, Open, OwnInv, KindInv,
     FreshInv, TypeOK, Requests
<1>13. WorkInv'
  BY <1>0, <1>20, <1>21 DEF Subscribe, Begin, Fault, WorkInv, Used, PlaceInv, TypeOK, Slots
<1>14. TableInv'
  BY <1>0, <1>20, <1>21 DEF Subscribe, Begin, Fault, TableInv, Excused, ToAsk, Used, FilterIn,
     TypeOK, PlaceInv, IdleCall, Slots
<1>15. GrantInv'
  BY <1>0, <1>20, <1>21 DEF Subscribe, Begin, Fault, GrantInv, Excused, OpenInv, Open, OwnInv,
     FreshInv, TypeOK
<1>16. AloneInv'
  <2> SUFFICES ASSUME ~Excused', NEW v \in Threads, Unsubscribing(v)'
               PROVE  /\ \A i \in Slots : Used(i)' => FilterIn(i)' # call'[v].filter
                      /\ \A n \in list_sub_wait_ack' :
                            info'[n].type = "SUBSCRIBE" /\ info'[n].node_state = "NORMAL"
                            => info'[n].filter # call'[v].filter
                      /\ \A u \in Threads : call'[u].pc # "idle" /\ call'[u].filter = call'[v].filter => u = v
    BY DEF AloneInv
  <2>1. ~Excused /\ faults' = faults
    BY DEF Subscribe, Fault, Excused
  <2>2. v # t /\ Unsubscribing(v) /\ call'[v] = call[v]
    BY <1>21 DEF Subscribe, Begin, Unsubscribing, TypeOK
  <2>3. v \in Apps
    BY <2>2 DEF PlaceInv, Unsubscribing, Threads
  <2>4. call[v].filter # f
    BY <2>1, <2>2, <2>3 DEF Subscribe, Fault, Unsubscribing, Excused
  <2> QED
    BY <2>1, <2>2, <2>4, <1>21 DEF AloneInv, Used, FilterIn, Subscribe, Begin, TypeOK
<1>17. FreedOnce'
  BY <1>0, <1>20, <1>21 DEF Subscribe, Begin, Fault, FreedOnce, FreeInv, OwnInv, OpenInv, Open,
     Used, OnTime, TypeOK
<1>18. LeakInv'
  BY <1>0, <1>20, <1>21 DEF Subscribe, Begin, Fault, LeakInv, Owned, Used, OwnInv, OpenInv, Open,
     LockInv, Holding, TypeOK, IdleCall
<1>19. NoDuplicateHandlers'
  BY <1>0, <1>20, <1>21 DEF Subscribe, Begin, Fault, NoDuplicateHandlers, Used, FilterIn, OwnInv,
     FreshInv, TypeOK, Slots
<1> QED
  BY <1>1, <1>2, <1>3, <1>4, <1>5, <1>6, <1>7, <1>8, <1>9, <1>10, <1>11, <1>12, <1>13, <1>14,
     <1>15, <1>16, <1>17, <1>18, <1>19

(* An unsubscribe call clears its slots and begins.                          *)
LEMMA UnsubscribeStep ==
  ASSUME NEW t \in Apps, NEW f \in Filters, IInv, Unsubscribe(t, f) PROVE IInv'
<1> USE DEF IInv, table, list, caller, yield, net, hist
<1> DEFINE Gone(n) == \E i \in Slots : SlotHit(i, f) /\ Used(i) /\ sub_handles[i].topic_filter = n
           New == [pc |-> "lock", type |-> "UNSUBSCRIBE", filter |-> f, handler |-> NULL, node |-> NULL]
<1>0. t \in Threads /\ call[t].pc = "idle" /\ calls < MaxCalls /\ calls' = calls + 1
      /\ UNCHANGED <<list_sub_wait_ack, info, lock_write_buf, requests, yield, net, reported>>
  BY DEF Unsubscribe, Threads
<1>1. Ups' = Ups /\ Downs' = Downs /\ \A g : WillHave(g)' <=> WillHave(g)
  BY <1>0 DEF Ups, Downs, WillHave, UnsubscribesAfter
<1>2. call' = call \/ call' = [call EXCEPT ![t] = New]
  BY DEF Unsubscribe, Begin
<1>3. /\ sub_handles' \in [Slots -> [topic_filter : Requests \cup {NULL},
                                     message_handler : Handlers \cup {NULL}]]
      /\ \A i \in Slots : IF SlotHit(i, f) THEN sub_handles'[i].topic_filter = NULL
                                           ELSE sub_handles'[i] = sub_handles[i]
  BY DEF Unsubscribe, ClearHandles, TypeOK
<1>4. bad_free' = bad_free /\ heap' \subseteq heap /\ \A n \in heap : n \in heap' <=> ~Gone(n)
  BY DEF Unsubscribe, ClearHandles, Free, OwnInv
<1>5. \/ faults' = faults /\ Settled(f)
      \/ "unsubscribe_overlap" \in Faults /\ faults' = faults \cup {"unsubscribe_overlap"}
  BY DEF Unsubscribe, Fault
<1>6. \A i \in Slots : Used(i)' => Used(i) /\ sub_handles'[i] = sub_handles[i] /\ FilterIn(i)' = FilterIn(i)
                                   /\ ~SlotHit(i, f)
  BY <1>0, <1>3 DEF Used, FilterIn
<1>10. TypeOK'
  <2>1. call' \in [Threads -> CallRecs]
    <3>1. New \in CallRecs
      BY DEF CallRecs, NULL
    <3> QED
      BY <1>2, <3>1 DEF TypeOK
  <2>2. faults' \subseteq Faults \cup Limits
    BY <1>5 DEF TypeOK
  <2>3. calls' \in 0 .. MaxCalls
    BY <1>0 DEF TypeOK
  <2> QED
    BY <1>0, <1>3, <1>4, <2>1, <2>2, <2>3 DEF TypeOK
<1>11. CountInv'
  <2>1. CASE call' = call
    <3>1. Locking' = Locking /\ ToResub' = ToResub
      BY <1>0, <2>1 DEF Locking, ToResub
    <3> QED
      BY <1>0, <3>1, FS_CardinalityType DEF CountInv, TypeOK, ToResub
  <2>2. CASE call' = [call EXCEPT ![t] = New]
    <3>1. Locking' = Locking \cup {t} /\ t \notin Locking
      BY <1>0, <2>2 DEF Locking, TypeOK
    <3>2. IsFiniteSet(Locking') /\ Cardinality(Locking') = Cardinality(Locking) + 1 /\ Cardinality(Locking) \in Nat
      BY <3>1, FS_AddElement, FS_CardinalityType DEF CountInv
    <3> QED
      BY <1>0, <3>2 DEF CountInv, ToResub, TypeOK
  <2> QED
    BY <1>2, <2>1, <2>2
<1>7. call'[Yielder] = call[Yielder]
  BY <1>0, <1>2 DEF TypeOK, Threads
<1>8. \A u \in Threads : Holding(u)' => Holding(u) /\ call'[u] = call[u]
  <2>1. \A u \in Threads : u # t => call'[u] = call[u]
    BY <1>2 DEF TypeOK
  <2>2. ~Holding(t) /\ ~Holding(t)'
    <3>1. call'[t] = call[t] \/ call'[t] = New
      BY <1>0, <1>2 DEF TypeOK
    <3> QED
      BY <1>0, <3>1 DEF Holding
  <2> QED
    BY <2>1, <2>2 DEF Holding
<1>12. PlaceInv'
  BY <1>0, <1>7 DEF PlaceInv
<1>13. LockInv'
  BY <1>0, <1>8 DEF LockInv
<1>14. FreshInv'
  <2>1. \A i \in Slots : sub_handles'[i].topic_filter <= requests
    BY <1>3 DEF FreshInv, TypeOK, NULL
  <2> QED
    BY <1>0, <1>1, <1>4, <2>1 DEF FreshInv
<1>15. ListInv'
  BY <1>0 DEF ListInv, ListBounded
<1>16. OwnInv'
  <2>1. ASSUME NEW i \in Slots, Used(i)'
        PROVE  /\ sub_handles'[i].topic_filter \in heap'
               /\ \A j \in Slots : sub_handles'[j].topic_filter = sub_handles'[i].topic_filter => j = i
    BY <1>3, <1>4, <1>6, <2>1 DEF OwnInv, Used
  <2>2. ASSUME NEW n \in list_sub_wait_ack, info[n].node_state = "NORMAL"
        PROVE  n \in heap' /\ \A i \in Slots : sub_handles'[i].topic_filter # n
    <3>1. ~Gone(n) /\ n \in heap /\ n # NULL
      BY <2>2 DEF OwnInv, TypeOK, Requests, NULL
    <3> QED
      BY <1>3, <1>4, <2>2, <3>1 DEF OwnInv
  <2> QED
    BY <1>0, <2>1, <2>2 DEF OwnInv
<1>17. \A n : Open(n) /\ n # NULL => Open(n)'
  BY <1>0, <1>3 DEF Open
<1>18. OpenInv'
  <2>1. Ups \cup Downs \subseteq Nat \ {0}
    BY DEF FreshInv
  <2> QED
    BY <1>0, <1>1, <1>8, <1>17, <2>1 DEF OpenInv, TypeOK, NULL
<1>19. KindInv'
  BY <1>0, <1>8 DEF KindInv
<1>20. FreeInv'
  BY <1>0, <1>1, <1>5, <1>8 DEF FreeInv, ToCome, OnTime, Holding
<1>21. SuccessInv'
  BY <1>0 DEF SuccessInv
<1>22. WorkInv'
  <2>1. CASE Settled(f)
    BY <1>0, <2>1 DEF WorkInv, Settled
  <2>2. CASE "unsubscribe_overlap" \in faults'
    BY <2>2 DEF WorkInv
  <2> QED
    BY <1>5, <2>1, <2>2
<1>23. Excused => Excused'
  BY <1>5 DEF Excused
<1>25. TableInv'
  <2>1. \A i \in Slots : Used(i)' /\ ToAsk(i) => ToAsk(i)'
    BY <1>0, <1>6, <1>7 DEF ToAsk
  <2> QED
    BY <1>0, <1>1, <1>6, <1>23, <2>1 DEF TableInv
<1>26. GrantInv'
  BY <1>0, <1>1, <1>23 DEF GrantInv
<1>27. AloneInv'
  <2> SUFFICES ASSUME ~Excused', NEW v \in Threads, Unsubscribing(v)'
               PROVE  /\ \A i \in Slots : Used(i)' => FilterIn(i)' # call'[v].filter
                      /\ \A n \in list_sub_wait_ack :
                            info[n].type = "SUBSCRIBE" /\ info[n].node_state = "NORMAL"
                            => info[n].filter # call'[v].filter
                      /\ \A u \in Threads : call'[u].pc # "idle" /\ call'[u].filter = call'[v].filter => u = v
    BY <1>0 DEF AloneInv
  <2>1. ~Excused /\ Settled(f)
    BY <1>5, <1>23 DEF Excused
  <2>2. \A u \in Threads : call[u].pc # "idle" => call[u].filter # f
    BY <2>1 DEF Settled
  <2>3. CASE Unsubscribing(v) /\ call'[v] = call[v]
    <3>1. call[v].filter # f /\ call[v].pc # "idle"
      BY <2>2, <2>3 DEF Unsubscribing
    <3>2. \A u \in Threads : call'[u].pc # "idle" /\ call'[u].filter = call[v].filter => u = v
      <4>1. \A u \in Threads : call[u].pc # "idle" /\ call[u].filter = call[v].filter => u = v
        BY <2>1, <2>3 DEF AloneInv
      <4>2. \A u \in Threads : call'[u] = call[u] \/ call'[u].filter = f
        BY <1>0, <1>2 DEF TypeOK
      <4> QED
        BY <3>1, <4>1, <4>2
    <3> QED
      BY <1>6, <2>1, <2>3, <3>2 DEF AloneInv
  <2>4. CASE v = t /\ call' = [call EXCEPT ![t] = New]
    <3>1. call'[v].filter = f
      BY <1>0, <2>4 DEF TypeOK
    <3>2. \A i \in Slots : Used(i)' => FilterIn(i)' # f
      BY <1>6 DEF SlotHit
    <3>3. \A u \in Threads : call'[u].pc # "idle" /\ call'[u].filter = f => u = v
      BY <1>0, <2>2, <2>4 DEF TypeOK
    <3> QED
      BY <2>1, <3>1, <3>2, <3>3 DEF Settled, Waiting
  <2> QED
    BY <1>0, <1>2, <2>3, <2>4 DEF Unsubscribing, TypeOK
<1>28. FreedOnce'
  BY <1>4, <1>5 DEF FreedOnce
<1>29. LeakInv'
  <2> SUFFICES ASSUME "table_full" \notin faults', NEW n \in heap' PROVE Owned(n)'
    BY DEF LeakInv
  <2>1. n \in heap /\ Owned(n) /\ ~Gone(n) /\ n # NULL
    BY <1>4, <1>5 DEF LeakInv, TypeOK, Requests, NULL
  <2>2. CASE \E i \in Slots : sub_handles[i].topic_filter = n
    BY <1>3, <2>1, <2>2 DEF Owned, Used
  <2>3. CASE n \in list_sub_wait_ack /\ info[n].node_state = "NORMAL"
    BY <1>0, <2>3 DEF Owned
  <2>4. CASE \E u \in Threads : call[u].pc = "remove" /\ call[u].node = n
    BY <1>0, <1>2, <2>4 DEF Owned, TypeOK
  <2> QED
    BY <2>1, <2>2, <2>3, <2>4 DEF Owned
<1>30. NoDuplicateHandlers'
  BY <1>6 DEF NoDuplicateHandlers
<1>40. FilterInv'
  <2>1. \A u \in Threads : call'[u].pc # "idle" => call'[u].filter \in Filters
    <3>1. \A u \in Threads : u # t => call'[u] = call[u]
      BY <1>2 DEF TypeOK
    <3>2. call'[t] = call[t] \/ call'[t] = New
      BY <1>0, <1>2 DEF TypeOK
    <3> QED
      BY <3>1, <3>2 DEF FilterInv
  <2> QED
    BY <1>0, <1>1, <1>4, <2>1 DEF FilterInv
<1> QED
  BY <1>10, <1>11, <1>12, <1>13, <1>14, <1>15, <1>16, <1>18, <1>19, <1>20, <1>21, <1>22, <1>25,
     <1>26, <1>27, <1>28, <1>29, <1>30, <1>40

(* A request is refused by a full wait list.                                 *)
LEMMA PushFullStep ==
  ASSUME NEW t \in Threads, IInv, LockAndPush(t), PushFull(t) PROVE IInv'
<1>21. requests + 1 \in Requests
  BY LockRoom DEF LockAndPush
<1>22. IsFiniteSet(Locking \ {t}) /\ Cardinality(Locking) \in Nat
       /\ Cardinality(Locking \ {t}) = Cardinality(Locking) - 1
  BY LockRoom DEF LockAndPush
<1> USE DEF IInv, table, list, caller, yield, net, hist
<1>0. Ups' = Ups /\ Downs' = Downs
  BY DEF LockAndPush, PushFull, Return, Ups, Downs
<1>20. \A ff : WillHave(ff)' <=> WillHave(ff)
  BY DEF LockAndPush, PushFull, Return, WillHave, UnsubscribesAfter
<1>23. requests' \in 0 .. MaxRequests
  BY <1>21 DEF LockAndPush, Requests
<1>1. TypeOK'
  <2>1. sub_handles' \in [Slots -> [topic_filter : Requests \cup {NULL},
                                  message_handler : Handlers \cup {NULL}]]
    BY <1>0, <1>20, <1>21, <1>23 DEF LockAndPush, PushFull, Return, TypeOK
  <2>2. info' \in [Requests -> NodeRecs]
    BY <1>0, <1>20, <1>21, <1>23 DEF LockAndPush, PushFull, Return, TypeOK, NodeRecs
  <2>3. call' \in [Threads -> CallRecs]
    BY <1>0, <1>20, <1>21, <1>23 DEF LockAndPush, PushFull, Return, TypeOK, CallRecs, IdleCall,
       Threads, NULL
  <2>4. reported' \in [Requests -> SUBSET Results]
    BY <1>0, <1>20, <1>21, <1>23 DEF LockAndPush, PushFull, Return, TypeOK, Results
  <2>5. faults' \subseteq Faults \cup Limits
    BY <1>0, <1>20, <1>21, <1>23 DEF LockAndPush, PushFull, Return, TypeOK, Limits
  <2>6. up' \in Seq(Requests) /\ down' \in Seq(Requests \X {"SUBACK", "UNSUBACK"} \X BOOLEAN)
    BY <1>0, <1>20, <1>21, <1>23 DEF LockAndPush, PushFull, Return, TypeOK
  <2> QED
    BY <1>0, <1>20, <1>21, <1>23, <2>1, <2>2, <2>3, <2>4, <2>5, <2>6 DEF LockAndPush, PushFull,
       Return, TypeOK, NULL, Slots
<1>2. CountInv'
  <2>1. Locking' = Locking \ {t}
    BY DEF LockAndPush, PushFull, Return, IdleCall, Locking, TypeOK
  <2>2. ToResub' <= ToResub /\ ToResub \in Nat /\ ToResub' \in Nat
    BY DEF LockAndPush, PushFull, ToResub, TypeOK
  <2>3. requests' = requests + 1 /\ requests \in Nat /\ calls' = calls /\ drops' = drops
    BY DEF LockAndPush, TypeOK
  <2>4. IsFiniteSet(Locking') /\ Cardinality(Locking') = Cardinality(Locking) - 1
        /\ Cardinality(Locking') \in Nat
    BY <1>22, <2>1, FS_CardinalityType
  <2>5. requests' \in Nat /\ requests' + Cardinality(Locking') <= requests + Cardinality(Locking)
    BY <1>22, <2>3, <2>4
  <2>6. TypeOK /\ CountInv
    OBVIOUS
  <2> HIDE DEF IInv, table, list, caller, yield, net, hist
  <2> QED
    BY <2>2, <2>3, <2>4, <2>5, <2>6, CountStep
<1>3. PlaceInv'
  BY <1>0, <1>20, <1>21, <1>23 DEF LockAndPush, PushFull, Return, PlaceInv, TypeOK, IdleCall,
     Threads, Slots
<1>4. LockInv'
  BY <1>0, <1>20, <1>21, <1>23 DEF LockAndPush, PushFull, Return, LockInv, Holding, TypeOK, IdleCall
<1>5. FreshInv'
  <2>1. requests' \in Nat /\ requests \in Nat /\ requests' = requests + 1
    BY DEF LockAndPush, TypeOK
  <2>2. 1..requests \subseteq 1..requests'
    BY <2>1
  <2>3. \A i \in Slots : sub_handles[i].topic_filter <= requests'
    <3>1. \A i \in Slots : sub_handles[i].topic_filter \in Int
      BY DEF TypeOK, Requests, NULL
    <3> QED
      BY <2>1, <3>1 DEF FreshInv
  <2>4. \A n \in Requests : n > requests' => n > requests
    BY <2>1 DEF Requests
  <2> QED
    BY <1>0, <2>2, <2>3, <2>4 DEF LockAndPush, PushFull, FreshInv
<1>6. ListInv'
  BY <1>0, <1>20, <1>21, <1>23 DEF LockAndPush, PushFull, Return, ListInv, ListBounded, TypeOK
<1>7. OwnInv'
  BY <1>0, <1>20, <1>21, <1>23 DEF LockAndPush, PushFull, Return, OwnInv, Used, TypeOK, OpenInv,
     Open, FreshInv, Slots, NULL, Requests
<1>8. OpenInv'
  BY <1>0, <1>20, <1>21, <1>23 DEF LockAndPush, PushFull, Return, OpenInv, Open, Holding, OwnInv,
     Used, LockInv, FreshInv, TypeOK, IdleCall, Requests
<1>9. KindInv'
  BY <1>0, <1>20, <1>21, <1>23 DEF LockAndPush, PushFull, Return, KindInv, Holding, TypeOK,
     IdleCall, FreshInv, OpenInv, LockInv
<1>10. FilterInv'
  BY <1>0, <1>20, <1>21, <1>23 DEF LockAndPush, PushFull, Return, FilterInv, TypeOK, IdleCall
<1>11. FreeInv'
  BY <1>0, <1>20, <1>21, <1>23 DEF LockAndPush, PushFull, Return, FreeInv, ToCome, OnTime,
     Holding, OpenInv, Open, LockInv, KindInv, TypeOK, IdleCall, Threads
<1>12. SuccessInv'
  BY <1>0, <1>20, <1>21, <1>23 DEF LockAndPush, PushFull, Return, SuccessInv, OpenInv, Open,
     OwnInv, KindInv, FreshInv, TypeOK, Requests
<1>13. WorkInv'
  BY <1>0, <1>20, <1>21, <1>23 DEF LockAndPush, PushFull, Return, WorkInv, Used, PlaceInv, TypeOK,
     Slots
<1>14. TableInv'
  BY <1>0, <1>20, <1>21, <1>23 DEF LockAndPush, PushFull, Return, TableInv, Excused, ToAsk, Used,
     FilterIn, TypeOK, PlaceInv, IdleCall, Slots
<1>15. GrantInv'
  BY <1>0, <1>20, <1>21, <1>23 DEF LockAndPush, PushFull, Return, GrantInv, Excused, OpenInv,
     Open, OwnInv, FreshInv, TypeOK
<1>16. AloneInv'
  BY <1>0, <1>20, <1>21, <1>23 DEF LockAndPush, PushFull, Return, AloneInv, Excused,
     Unsubscribing, Used, FilterIn, TypeOK, IdleCall
<1>17. FreedOnce'
  BY <1>0, <1>20, <1>21, <1>23 DEF LockAndPush, PushFull, Return, FreedOnce, FreeInv, OwnInv,
     OpenInv, Open, Used, OnTime, TypeOK
<1>18. LeakInv'
  BY <1>0, <1>20, <1>21, <1>23 DEF LockAndPush, PushFull, Return, LeakInv, Owned, Used, OwnInv,
     OpenInv, Open, LockInv, Holding, TypeOK, IdleCall
<1>19. NoDuplicateHandlers'
  BY <1>0, <1>20, <1>21, <1>23 DEF LockAndPush, PushFull, Return, NoDuplicateHandlers, Used,
     FilterIn, OwnInv, FreshInv, TypeOK, Slots
<1> QED
  BY <1>1, <1>2, <1>3, <1>4, <1>5, <1>6, <1>7, <1>8, <1>9, <1>10, <1>11, <1>12, <1>13, <1>14,
     <1>15, <1>16, <1>17, <1>18, <1>19

(* A request enters the wait list.                                           *)
LEMMA PushNodeStep ==
  ASSUME NEW t \in Threads, IInv, LockAndPush(t), PushNode(t, requests + 1) PROVE IInv'
<1>a. /\ requests + 1 \in Requests
      /\ IsFiniteSet(Locking \ {t}) /\ Cardinality(Locking) \in Nat
      /\ Cardinality(Locking \ {t}) = Cardinality(Locking) - 1
  BY LockRoom DEF LockAndPush
<1> USE DEF IInv, table, list, caller, yield, net, hist
<1>m. PICK m \in Requests : m = requests + 1
  BY <1>a
<1> DEFINE Node == [type |-> call[t].type, filter |-> call[t].filter, handler |-> call[t].handler,
                   node_state |-> "NORMAL", expired |-> FALSE]
<1>0. m = requests + 1 /\ requests \in Nat /\ m \notin 1..requests /\ m # NULL
  BY <1>m DEF TypeOK, NULL, Requests
<1>1. /\ call[t].pc = "lock" /\ lock_write_buf = NoThread /\ requests' = m /\ lock_write_buf' = t
      /\ Cardinality(list_sub_wait_ack) < MAX_MESSAGE_HANDLERS
      /\ list_sub_wait_ack' = list_sub_wait_ack \cup {m}
      /\ info' = [info EXCEPT ![m] = Node]
      /\ heap' = heap \cup {m}
      /\ call' = [call EXCEPT ![t].pc = "send", ![t].node = m]
      /\ UNCHANGED <<sub_handles, bad_free, calls, yield, net, reported, faults>>
  BY <1>m DEF LockAndPush, PushNode, PushBody
<1>2. /\ m \notin heap /\ m \notin list_sub_wait_ack /\ m \notin Ups /\ m \notin Downs
      /\ \A i \in Slots : sub_handles[i].topic_filter # m
      /\ reported[m] = {}
  BY <1>0 DEF FreshInv
<1>3. Ups' = Ups /\ Downs' = Downs
  BY <1>1 DEF Ups, Downs
<1>4. /\ info'[m] = Node
      /\ \A n \in Requests : n # m => info'[n] = info[n]
  BY <1>0, <1>1 DEF TypeOK
<1>5. call[t] \in CallRecs /\ \A u \in Threads : u # t => call'[u] = call[u] /\ ~Holding(u)
  BY <1>1 DEF TypeOK, LockInv, Threads
<1>6. call'[t] = [call[t] EXCEPT !.pc = "send", !.node = m]
  BY <1>1 DEF TypeOK
<1>7. call'[t].pc = "send" /\ call'[t].node = m /\ call'[t].type = call[t].type /\ call'[t].filter = call[t].filter
  BY <1>5, <1>6 DEF CallRecs
<1>8. \A i \in Slots : (Used(i)' <=> Used(i)) /\ (Used(i) => FilterIn(i)' = FilterIn(i))
  BY <1>1, <1>2, <1>4 DEF Used, FilterIn, TypeOK
<1>9. \A n \in Ups \cup Downs : n \in Requests /\ n # m /\ info'[n] = info[n]
  <2>1. Ups \cup Downs \subseteq Requests
    BY DEF Ups, Downs, TypeOK
  <2> QED
    BY <1>2, <1>4, <2>1
<1>10. TypeOK'
  <2>1. call' \in [Threads -> CallRecs]
    <3>1. call'[t] \in CallRecs
      BY <1>0, <1>5, <1>6 DEF CallRecs
    <3> QED
      BY <1>1, <1>5, <3>1 DEF TypeOK
  <2>2. info' \in [Requests -> NodeRecs]
    <3>1. Node \in NodeRecs
      BY <1>5 DEF CallRecs, NodeRecs
    <3> QED
      BY <1>1, <3>1 DEF TypeOK
  <2>3. requests' \in 0 .. MaxRequests
    BY <1>0, <1>1 DEF Requests
  <2> QED
    BY <1>0, <1>1, <2>1, <2>2, <2>3 DEF TypeOK
<1>11. CountInv'
  <2>1. Locking' = Locking \ {t}
    BY <1>5, <1>7 DEF Locking
  <2>2. ToResub' = ToResub /\ ToResub \in Nat
    BY <1>1 DEF ToResub, TypeOK
  <2> QED
    BY <1>a, <1>0, <1>1, <2>1, <2>2 DEF CountInv, TypeOK
<1>12. PlaceInv'
  <2>1. call'[Yielder].type = call[Yielder].type /\ (call'[Yielder].pc # "idle" => call[Yielder].pc # "idle")
    BY <1>1, <1>5, <1>7 DEF Threads
  <2> QED
    BY <1>1, <2>1 DEF PlaceInv
<1>13. LockInv'
  BY <1>1, <1>5 DEF LockInv, Holding
<1>14. FreshInv'
  <2>1. 1..requests \subseteq 1..m /\ m \in 1..m
    BY <1>0
  <2>2. \A i \in Slots : sub_handles[i].topic_filter <= m
    <3>1. \A i \in Slots : sub_handles[i].topic_filter \in Nat
      BY DEF TypeOK, Requests, NULL
    <3>2. \A i \in Slots : sub_handles[i].topic_filter <= requests
      BY DEF FreshInv
    <3> QED
      BY <1>0, <3>1, <3>2
  <2>3. \A n \in Requests : n > m => n > requests
    BY <1>0 DEF Requests
  <2> QED
    BY <1>1, <1>3, <2>1, <2>2, <2>3 DEF FreshInv
<1>15. ListInv'
  <2>1. IsFiniteSet(list_sub_wait_ack \cup {m})
        /\ Cardinality(list_sub_wait_ack \cup {m}) = Cardinality(list_sub_wait_ack) + 1
        /\ Cardinality(list_sub_wait_ack) \in Nat
    BY <1>2, FS_AddElement, FS_CardinalityType DEF ListInv
  <2> QED
    BY <1>1, <2>1 DEF ListInv, ListBounded
<1>16. OwnInv'
  <2>1. ASSUME NEW n \in list_sub_wait_ack', info'[n].node_state = "NORMAL"
        PROVE  n \in heap' /\ reported'[n] = {} /\ \A i \in Slots : sub_handles'[i].topic_filter # n
    BY <1>1, <1>2, <1>4, <2>1 DEF OwnInv, TypeOK
  <2> QED
    BY <1>1, <2>1 DEF OwnInv, Used
<1>17. \A n \in Requests : n # m /\ Open(n) => Open(n)'
  BY <1>1, <1>4 DEF Open
<1>18. Open(m)'
  BY <1>1, <1>2, <1>4 DEF Open
<1>19. OpenInv'
  <2>1. ASSUME NEW u \in Threads, Holding(u)'
        PROVE  call'[u].node \in (1..m) \ (Ups \cup Downs) /\ Open(call[u].node)'
    <3>1. u = t
      BY <1>5, <2>1 DEF Holding
    <3> QED
      BY <1>0, <1>2, <1>7, <1>18, <3>1
  <2> QED
    BY <1>1, <1>3, <1>9, <1>17, <2>1 DEF OpenInv
<1>20. KindInv'
  <2>1. \A u \in Threads : Holding(u)' => /\ info'[call'[u].node].type = call'[u].type
                                          /\ info'[call'[u].node].filter = call'[u].filter
    BY <1>4, <1>5, <1>7 DEF Holding
  <2>2. \A i \in DOMAIN down : info'[down[i][1]] = info[down[i][1]]
    BY <1>9 DEF Downs
  <2>3. down' = down
    BY <1>1
  <2> QED
    BY <2>1, <2>2, <2>3 DEF KindInv
<1>21. FreeInv'
  <2>1. \A u \in Threads : call'[u].pc # "remove" /\ (call'[u].pc = "send" => u = t)
    BY <1>5, <1>7 DEF Holding
  <2>2. OnTime(m)'
    BY <1>1, <1>4 DEF OnTime
  <2>3. \A n \in Requests : n # m /\ OnTime(n) => OnTime(n)'
    BY <1>1, <1>4 DEF OnTime
  <2>4. \A n \in Requests : ToCome(n)' => n = m \/ (ToCome(n) /\ n # m)
    BY <1>2, <1>3, <1>7, <2>1 DEF ToCome
  <2> QED
    BY <1>1, <1>4, <2>1, <2>2, <2>3, <2>4 DEF FreeInv
<1>22. SuccessInv'
  BY <1>1, <1>2, <1>4 DEF SuccessInv
<1>23. WorkInv'
  BY <1>1 DEF WorkInv, Used
<1>24. \A f : WillHave(f)' <=> WillHave(f)
  <2>1. \A i \in DOMAIN up : info'[up[i]] = info[up[i]]
    BY <1>9 DEF Ups
  <2> QED
    BY <1>1, <2>1 DEF WillHave, UnsubscribesAfter
<1>25. TableInv'
  <2>1. \A i \in Slots : Used(i) /\ ToAsk(i) => ToAsk(i)'
    BY <1>1, <1>5, <1>7, <1>8 DEF ToAsk, Threads
  <2> QED
    BY <1>1, <1>8, <1>24, <2>1 DEF TableInv, Excused
<1>26. GrantInv'
  BY <1>1, <1>2, <1>3, <1>9, <1>24 DEF GrantInv, Excused
<1>27. AloneInv'
  <2> SUFFICES ASSUME ~Excused, NEW v \in Threads, Unsubscribing(v)'
               PROVE  /\ \A i \in Slots : Used(i)' => FilterIn(i)' # call'[v].filter
                      /\ \A n \in list_sub_wait_ack' :
                            info'[n].type = "SUBSCRIBE" /\ info'[n].node_state = "NORMAL"
                            => info'[n].filter # call'[v].filter
                      /\ \A u \in Threads : call'[u].pc # "idle" /\ call'[u].filter = call'[v].filter => u = v
    BY <1>1 DEF AloneInv, Excused
  <2>1. Unsubscribing(v) /\ call'[v].filter = call[v].filter /\ call'[v].type = call[v].type
    BY <1>1, <1>5, <1>7 DEF Unsubscribing
  <2>2. \A u \in Threads : call'[u].pc # "idle" /\ call'[u].filter = call[v].filter => u = v
    <3>1. \A u \in Threads : (call'[u].pc # "idle" => call[u].pc # "idle") /\ call'[u].filter = call[u].filter
      BY <1>1, <1>5, <1>7
    <3> QED
      BY <2>1, <3>1 DEF AloneInv
  <2>3. info'[m].type = "SUBSCRIBE" => info'[m].filter # call[v].filter
    BY <1>1, <1>4, <2>1 DEF AloneInv, Unsubscribing
  <2>4. \A n \in list_sub_wait_ack : info'[n] = info[n]
    BY <1>2, <1>4 DEF TypeOK
  <2>5. \A i \in Slots : Used(i)' => FilterIn(i)' # call[v].filter
    BY <1>8, <2>1 DEF AloneInv
  <2>6. \A n \in list_sub_wait_ack : info'[n].type = "SUBSCRIBE" /\ info'[n].node_state = "NORMAL"
                                      => info'[n].filter # call[v].filter
    BY <2>1, <2>4 DEF AloneInv
  <2> QED
    BY <1>1, <2>1, <2>2, <2>3, <2>5, <2>6
<1>28. FreedOnce'
  BY <1>1 DEF FreedOnce
<1>29. LeakInv'
  <2> SUFFICES ASSUME "table_full" \notin faults, NEW n \in heap' PROVE Owned(n)'
    BY <1>1 DEF LeakInv
  <2>1. CASE n = m
    BY <1>1, <1>4, <2>1 DEF Owned
  <2>2. CASE n # m
    <3>1. n \in Requests /\ Owned(n)
      BY <1>1, <2>2 DEF LeakInv, TypeOK
    <3>2. \A u \in Threads : call[u].pc # "remove"
      BY <1>1, <1>5 DEF Holding
    <3> QED
      BY <1>1, <1>4, <2>2, <3>1, <3>2 DEF Owned
  <2> QED
    BY <2>1, <2>2
<1>30. NoDuplicateHandlers'
  BY <1>1, <1>8 DEF NoDuplicateHandlers
<1>40. FilterInv'
  <2>1. Node.filter = call[t].filter /\ call[t].filter \in Filters
    BY <1>1 DEF FilterInv
  <2>2. \A n \in heap \cup Ups : info'[n] = info[n]
    BY <1>2, <1>4, <1>9 DEF TypeOK
  <2>3. \A u \in Threads : call'[u].pc # "idle" => call'[u].filter \in Filters
    BY <1>5, <1>7, <2>1 DEF FilterInv
  <2>4. ASSUME NEW n \in heap' \cup Ups' PROVE info'[n].filter \in Filters
    <3>1. CASE n = m
      BY <1>4, <2>1, <3>1
    <3>2. CASE n # m
      <4>1. n \in heap \cup Ups
        BY <1>1, <1>3, <3>2
      <4> QED
        BY <2>2, <4>1 DEF FilterInv
    <3> QED
      BY <3>1, <3>2
  <2> QED
    BY <2>3, <2>4 DEF FilterInv
<1> QED
  BY <1>10, <1>11, <1>12, <1>13, <1>14, <1>15, <1>16, <1>19, <1>20, <1>21, <1>22, <1>23, <1>25,
     <1>26, <1>27, <1>28, <1>29, <1>30, <1>40

(* A request goes out, or is written to a connection that is gone.           *)
LEMMA SendOkStep ==
  ASSUME NEW t \in Threads, IInv, SendOk(t) PROVE IInv'
<1>1. PICK n \in Requests : n = call[t].node
  BY HeldNode DEF SendOk, Holding
<1>2. n \notin Ups \cup Downs /\ Open(n) /\ Holding(t) /\ lock_write_buf = t
  BY <1>1 DEF SendOk, Holding, IInv, OpenInv, LockInv
<1>3. /\ up' \in Seq(Requests) /\ Ups \subseteq Ups' /\ Ups' \subseteq Ups \cup {n} /\ (is_connected => n \in Ups')
      /\ \A i, j \in DOMAIN up' : up'[i] = up'[j] => i = j
      /\ Downs' = Downs
  <2>1. CASE is_connected
    <3>1. up' = Append(up, n) /\ down' = down
      BY <1>1, <2>1 DEF SendOk
    <3> QED
      BY <1>2, <3>1, UpGrows DEF Downs
  <2>2. CASE ~is_connected
    BY <2>2 DEF SendOk, IInv, TypeOK, OpenInv, Ups, Downs
  <2> QED
    BY <2>1, <2>2
<1>4. /\ is_connected /\ info[n].type = "SUBSCRIBE" => \A f : f = info[n].filter => WillHave(f)'
      /\ \A f : WillHave(f) /\ ~(info[n].type = "UNSUBSCRIBE" /\ info[n].filter = f) => WillHave(f)'
  <2>1. CASE is_connected
    <3>1. up' = Append(up, n) /\ UNCHANGED <<info, server>>
      BY <1>1, <2>1 DEF SendOk, list
    <3>2. \A f : f = info[n].filter => (WillHave(f)' <=> WillHave(info[n].filter)')
      BY <3>1
    <3> QED
      BY <3>1, <3>2, WillHaveGrows
  <2>2. CASE ~is_connected
    BY <2>2 DEF SendOk, list, WillHave, UnsubscribesAfter
  <2> QED
    BY <2>1, <2>2
<1> USE DEF IInv, table, list, caller, yield, net, hist
<1>5. /\ lock_write_buf' = NoThread /\ call[t].pc = "send" /\ call'[t] = [IdleCall EXCEPT !.pc = "idle"]
      /\ \A u \in Threads : u # t => call'[u] = call[u]
      /\ UNCHANGED <<table, list, calls, requests, yield, is_connected, drops, down, server, hist>>
  BY DEF SendOk, Return, TypeOK
<1>6. call'[t].pc = "idle" /\ call'[t].type = "SUBSCRIBE"
  BY <1>5 DEF IdleCall
<1>7. \A u \in Threads : call'[u].pc # "idle" => u # t /\ call'[u] = call[u]
  BY <1>5, <1>6
<1>10. TypeOK'
  <2>1. call' \in [Threads -> CallRecs]
    BY DEF SendOk, Return, TypeOK, CallRecs, IdleCall, NULL
  <2> QED
    BY <1>3, <1>5, <2>1 DEF TypeOK
<1>11. CountInv'
  <2>1. Locking' = Locking /\ ToResub' = ToResub
    BY <1>5, <1>6 DEF Locking, ToResub
  <2> QED
    BY <1>5, <2>1 DEF CountInv
<1>12. PlaceInv'
  <2>1. call'[Yielder].type = "SUBSCRIBE" /\ (call'[Yielder].pc # "idle" => call[Yielder].pc # "idle")
    BY <1>5, <1>6 DEF PlaceInv, Threads
  <2>2. ~is_connected => up' = <<>>
    BY DEF SendOk, PlaceInv
  <2> QED
    BY <1>5, <2>1, <2>2 DEF PlaceInv
<1>13. LockInv'
  BY <1>2, <1>5, <1>7 DEF LockInv, Holding
<1>14. FreshInv'
  <2>1. n \in 1..requests
    BY <1>1, <1>2 DEF OpenInv
  <2> QED
    BY <1>3, <1>5, <2>1 DEF FreshInv
<1>15. ListInv'
  BY <1>5 DEF ListInv, ListBounded
<1>16. OwnInv'
  BY <1>5 DEF OwnInv, Used
<1>17. \A m : Open(m)' <=> Open(m)
  BY <1>5 DEF Open
<1>18. \A u \in Threads : ~Holding(u)'
  BY <1>2, <1>7 DEF LockInv, Holding
<1>19. OpenInv'
  BY <1>2, <1>3, <1>5, <1>17, <1>18 DEF OpenInv
<1>20. KindInv'
  BY <1>5, <1>18 DEF KindInv
<1>21. FreeInv'
  <2>1. \A m \in Requests : ToCome(m)' => ToCome(m)
    BY <1>1, <1>3, <1>5, <1>18 DEF ToCome, Holding
  <2>2. \A m \in Requests : OnTime(m)' <=> OnTime(m)
    BY <1>5 DEF OnTime
  <2> QED
    BY <1>5, <1>18, <2>1, <2>2 DEF FreeInv, Holding
<1>22. SuccessInv'
  BY <1>5 DEF SuccessInv
<1>23. WorkInv'
  BY <1>5 DEF WorkInv, Used
<1>24. \A i \in Slots : (Used(i)' <=> Used(i)) /\ FilterIn(i)' = FilterIn(i)
  BY <1>5 DEF Used, FilterIn
<1>25. info[n].filter = call[t].filter /\ info[n].type = call[t].type
  BY <1>1, <1>2 DEF KindInv
<1>26. info[n].type = "UNSUBSCRIBE" => Unsubscribing(t)
  BY <1>5, <1>25 DEF Unsubscribing
<1>27. TableInv'
  <2> SUFFICES ASSUME ~Excused, is_connected, NEW i \in Slots, Used(i)
               PROVE  WillHave(FilterIn(i))' \/ ToAsk(i)'
    BY <1>5, <1>24 DEF TableInv, Excused
  <2>1. info[n].type = "UNSUBSCRIBE" => FilterIn(i) # info[n].filter
    BY <1>25, <1>26 DEF AloneInv
  <2>2. WillHave(FilterIn(i)) => WillHave(FilterIn(i))'
    <3>1. PICK f : f = FilterIn(i)
      OBVIOUS
    <3>2. WillHave(f) => WillHave(f)'
      BY <1>4, <2>1, <3>1
    <3> QED
      BY <1>24, <3>1, <3>2
  <2>3. ASSUME ToAsk(i) PROVE WillHave(FilterIn(i))' \/ ToAsk(i)'
    <3>1. CASE t = Yielder
      <4>1. CASE call[Yielder].filter = FilterIn(i)
        <5>1. PICK f : f = FilterIn(i)
          OBVIOUS
        <5>2. info[n].type = "SUBSCRIBE" /\ info[n].filter = f
          BY <1>25, <3>1, <4>1, <5>1 DEF PlaceInv
        <5>3. WillHave(f)'
          BY <1>4, <1>5, <5>2
        <5> QED
          BY <1>24, <5>1, <5>3
      <4>2. CASE call[Yielder].filter # FilterIn(i)
        BY <1>5, <2>3, <4>2 DEF ToAsk
      <4> QED
        BY <4>1, <4>2
    <3>2. CASE t # Yielder
      BY <1>5, <1>24, <2>3, <3>2 DEF ToAsk, Threads
    <3> QED
      BY <3>1, <3>2
  <2> QED
    BY <2>2, <2>3 DEF TableInv
<1>28. GrantInv'
  <2> SUFFICES ASSUME ~Excused, NEW m \in (Ups' \cup Downs) \cap list_sub_wait_ack, info[m].type = "SUBSCRIBE"
               PROVE  WillHave(info[m].filter)'
    BY <1>3, <1>5 DEF GrantInv, Excused
  <2>1. PICK f : f = info[m].filter
    OBVIOUS
  <2>2. CASE m = n
    <3>1. is_connected
      BY <1>2, <2>2 DEF SendOk, Ups
    <3>2. WillHave(f)' /\ info'[m].filter = f
      BY <1>4, <1>5, <2>1, <2>2, <3>1
    <3> QED
      BY <3>2
  <2>3. CASE m # n
    <3>1. m \in Ups \cup Downs /\ Open(m) /\ WillHave(f)
      BY <1>3, <2>1, <2>3 DEF OpenInv, GrantInv
    <3>2. info[n].type = "UNSUBSCRIBE" => f # info[n].filter
      BY <1>25, <1>26, <2>1, <3>1 DEF AloneInv, Open
    <3>3. WillHave(f)'
      BY <1>4, <3>1, <3>2
    <3>4. info'[m].filter = f
      BY <1>5, <2>1
    <3> QED
      BY <3>3, <3>4
  <2> QED
    BY <2>2, <2>3
<1>29. AloneInv'
  BY <1>5, <1>7, <1>24 DEF AloneInv, Excused, Unsubscribing
<1>30. FreedOnce'
  BY <1>5 DEF FreedOnce
<1>31. LeakInv'
  BY <1>5 DEF LeakInv, Owned
<1>32. NoDuplicateHandlers'
  BY <1>5, <1>24 DEF NoDuplicateHandlers
<1>40. FilterInv'
  BY <1>3, <1>5, <1>7, <1>25 DEF FilterInv
<1> QED
  BY <1>10, <1>11, <1>12, <1>13, <1>14, <1>15, <1>16, <1>19, <1>20, <1>21, <1>22, <1>23, <1>27,
     <1>28, <1>29, <1>30, <1>31, <1>32, <1>40

(* A request cannot be sent.                                                 *)
LEMMA SendFailStep ==
  ASSUME NEW t \in Threads, IInv, SendFail(t) PROVE IInv'
<1> USE DEF IInv, table, list, caller, yield, net, hist
<1>0. Ups' = Ups /\ Downs' = Downs
  BY DEF SendFail, Fault, Ups, Downs
<1>20. \A ff : WillHave(ff)' <=> WillHave(ff)
  BY DEF SendFail, Fault, WillHave, UnsubscribesAfter
<1>21. call[t] \in CallRecs /\ call[t].pc = "send" /\ call'[t] = [call[t] EXCEPT !.pc = "remove"]
       /\ \A u \in Threads : u # t => call'[u] = call[u]
  BY DEF SendFail, TypeOK
<1>22. call'[t].pc = "remove" /\ call'[t].node = call[t].node /\ call'[t].type = call[t].type
       /\ call'[t].filter = call[t].filter
  BY <1>21 DEF CallRecs
<1>1. TypeOK'
  <2>1. call' \in [Threads -> CallRecs]
    <3>1. call'[t] \in CallRecs
      BY <1>21 DEF CallRecs
    <3> QED
      BY <1>21, <3>1 DEF SendFail, TypeOK
  <2>2. faults' \subseteq Faults \cup Limits
    BY DEF SendFail, Fault, TypeOK
  <2> QED
    BY <2>1, <2>2 DEF SendFail, TypeOK
<1>2. CountInv'
  <2>1. Locking' = Locking /\ ToResub' = ToResub
    BY <1>21, <1>22 DEF SendFail, Locking, ToResub
  <2> QED
    BY <2>1 DEF CountInv, SendFail
<1>3. PlaceInv'
  BY <1>0, <1>20, <1>21, <1>22 DEF SendFail, Fault, PlaceInv, TypeOK, IdleCall, Threads, Slots
<1>4. LockInv'
  BY <1>0, <1>20, <1>21, <1>22 DEF SendFail, Fault, LockInv, Holding, TypeOK, IdleCall
<1>5. FreshInv'
  BY <1>0, <1>20, <1>21, <1>22 DEF SendFail, Fault, FreshInv, TypeOK, OpenInv, Holding, Slots, NULL
<1>6. ListInv'
  BY <1>0, <1>20, <1>21, <1>22 DEF SendFail, Fault, ListInv, ListBounded, TypeOK
<1>7. OwnInv'
  BY <1>0, <1>20, <1>21, <1>22 DEF SendFail, Fault, OwnInv, Used, TypeOK, OpenInv, Open, FreshInv,
     Slots, NULL, Requests
<1>8. OpenInv'
  <2>1. \A u \in Threads : (Holding(u)' => Holding(u)) /\ call'[u].node = call[u].node
    BY <1>21, <1>22 DEF Holding
  <2>2. /\ \A n : Open(n)' <=> Open(n)
        /\ UNCHANGED <<requests, up, down>>
    BY DEF SendFail, Open
  <2> QED
    BY <1>0, <2>1, <2>2 DEF OpenInv
<1>9. KindInv'
  BY <1>0, <1>20, <1>21, <1>22 DEF SendFail, Fault, KindInv, Holding, TypeOK, IdleCall, FreshInv,
     OpenInv, LockInv
<1>10. FilterInv'
  BY <1>0, <1>21, <1>22 DEF SendFail, FilterInv
<1>11. FreeInv'
  <2>1. faults \subseteq faults' /\ faults' \cap {"send_failure", "late_send_failure"} # {}
        /\ ("late_send_failure" \notin faults' => OnTime(call[t].node))
    BY DEF SendFail, Fault
  <2>2. \A n \in Requests : (OnTime(n)' <=> OnTime(n)) /\ (ToCome(n)' => ToCome(n))
    BY <1>0, <1>21, <1>22 DEF ToCome, OnTime, SendFail
  <2>3. \A n \in Requests : info'[n] = info[n]
    BY DEF SendFail
  <2>4. \A u \in Threads : call'[u].pc = "remove" => u = t \/ (call'[u] = call[u] /\ call[u].pc = "remove")
    BY <1>21
  <2>5. list_sub_wait_ack' = list_sub_wait_ack /\ info' = info
    BY DEF SendFail
  <2> QED
    BY <1>22, <2>1, <2>2, <2>3, <2>4, <2>5 DEF FreeInv, OnTime
<1>12. SuccessInv'
  BY <1>0, <1>20, <1>21, <1>22 DEF SendFail, Fault, SuccessInv, OpenInv, Open, OwnInv, KindInv,
     FreshInv, TypeOK, Requests
<1>13. WorkInv'
  BY <1>0, <1>20, <1>21, <1>22 DEF SendFail, Fault, WorkInv, Used, PlaceInv, TypeOK, Slots
<1>14. TableInv'
  BY DEF TableInv, Excused, SendFail, Fault
<1>15. GrantInv'
  BY <1>0, <1>20, <1>21, <1>22 DEF SendFail, Fault, GrantInv, Excused, OpenInv, Open, OwnInv,
     FreshInv, TypeOK
<1>16. AloneInv'
  BY <1>0, <1>20, <1>21, <1>22 DEF SendFail, Fault, AloneInv, Excused, Unsubscribing, Used,
     FilterIn, TypeOK, IdleCall
<1>17. FreedOnce'
  BY <1>0, <1>20, <1>21, <1>22 DEF SendFail, Fault, FreedOnce, FreeInv, OwnInv, OpenInv, Open,
     Used, OnTime, TypeOK
<1>18. LeakInv'
  <2>1. \A u \in Threads : call[u].pc = "remove" => call'[u] = call[u]
    BY <1>21
  <2>2. faults \subseteq faults' /\ UNCHANGED <<heap, sub_handles, list_sub_wait_ack, info>>
    BY DEF SendFail, Fault
  <2>3. \A n : Owned(n) => Owned(n)'
    BY <2>1, <2>2 DEF Owned
  <2> QED
    BY <2>2, <2>3 DEF LeakInv
<1>19. NoDuplicateHandlers'
  BY <1>0, <1>20, <1>21, <1>22 DEF SendFail, Fault, NoDuplicateHandlers, Used, FilterIn, OwnInv,
     FreshInv, TypeOK, Slots
<1> QED
  BY <1>1, <1>2, <1>3, <1>4, <1>5, <1>6, <1>7, <1>8, <1>9, <1>10, <1>11, <1>12, <1>13, <1>14,
     <1>15, <1>16, <1>17, <1>18, <1>19

(* The unsent request is taken back.                                         *)
LEMMA RemoveUnsentStep ==
  ASSUME NEW t \in Threads, IInv, RemoveUnsent(t) PROVE IInv'
<1>25. call[t].node \in Requests
  BY HeldNode DEF RemoveUnsent, Holding
<1> USE DEF IInv, table, list, caller, yield, net, hist
<1>0. Ups' = Ups /\ Downs' = Downs
  BY DEF RemoveUnsent, Return, Free, Ups, Downs
<1>20. \A ff : WillHave(ff)' <=> WillHave(ff)
  BY DEF RemoveUnsent, Return, Free, WillHave, UnsubscribesAfter
<1>21. PICK n \in Requests : n = call[t].node
  BY <1>25
<1>22. /\ call[t].pc = "remove" /\ call' = [call EXCEPT ![t] = [IdleCall EXCEPT !.pc = "idle"]]
       /\ list_sub_wait_ack' = list_sub_wait_ack \ {n}
       /\ heap' = heap \ {n} /\ bad_free' = bad_free \cup ({n} \ heap)
       /\ y_pc' = IF t = Yielder THEN "read" ELSE y_pc
       /\ UNCHANGED <<sub_handles, info, calls, requests, y_slot, y_topic, net, hist>>
  BY <1>21 DEF RemoveUnsent, Free, Return
<1>23. Open(n) /\ n \notin Ups \cup Downs
  BY <1>21, <1>22 DEF OpenInv, Holding
<1>24. Excused /\ Excused'
  BY <1>22 DEF FreeInv, Excused
<1>1. TypeOK'
  <2>1. call' \in [Threads -> CallRecs]
    BY <1>22 DEF TypeOK, CallRecs, IdleCall, NULL
  <2>2. lock_write_buf' \in Threads \cup {NoThread}
    BY DEF RemoveUnsent
  <2>3. y_pc' \in {"read", "left", "proc", "deliver", "resub", "copy"}
    BY <1>22 DEF TypeOK
  <2> QED
    BY <1>22, <2>1, <2>2, <2>3 DEF TypeOK
<1>2. CountInv'
  <2>1. Locking' = Locking
    BY <1>22 DEF Locking, IdleCall, TypeOK
  <2>2. ToResub' <= ToResub /\ ToResub \in Nat /\ ToResub' \in Nat
    BY <1>22 DEF ToResub, TypeOK
  <2>3. Cardinality(Locking) \in Nat /\ IsFiniteSet(Locking) /\ requests \in Nat
    BY FS_CardinalityType DEF CountInv, TypeOK
  <2>4. /\ IsFiniteSet(Locking') /\ Cardinality(Locking') = Cardinality(Locking)
        /\ requests' = requests /\ calls' = calls /\ drops' = drops
        /\ requests + Cardinality(Locking) <= requests + Cardinality(Locking)
    BY <1>22, <2>1, <2>3
  <2>5. TypeOK /\ CountInv
    OBVIOUS
  <2> HIDE DEF IInv, table, list, caller, yield, net, hist
  <2> QED
    BY <2>2, <2>3, <2>4, <2>5, CountStep
<1>3. PlaceInv'
  BY <1>0, <1>20, <1>21, <1>22, <1>23 DEF RemoveUnsent, Return, Free, PlaceInv, TypeOK, IdleCall,
     Threads, Slots
<1>4. LockInv'
  BY <1>0, <1>20, <1>21, <1>22, <1>23 DEF RemoveUnsent, Return, Free, LockInv, Holding, TypeOK,
     IdleCall
<1>5. FreshInv'
  BY <1>0, <1>20, <1>21, <1>22, <1>23 DEF RemoveUnsent, Return, Free, FreshInv, TypeOK, OpenInv,
     Holding, Slots, NULL
<1>6. ListInv'
  <2>1. IsFiniteSet(list_sub_wait_ack \ {n})
        /\ Cardinality(list_sub_wait_ack \ {n}) <= Cardinality(list_sub_wait_ack)
    BY FS_Subset DEF ListInv
  <2>2. Cardinality(list_sub_wait_ack \ {n}) \in Nat /\ Cardinality(list_sub_wait_ack) \in Nat
    BY <2>1, FS_CardinalityType DEF ListInv
  <2> QED
    BY <1>22, <2>1, <2>2 DEF ListInv, ListBounded
<1>7. OwnInv'
  <2>1. \A i \in Slots : Used(i)' => Used(i) /\ sub_handles'[i].topic_filter \in heap'
    BY <1>22, <1>23 DEF OwnInv, Open, Used
  <2>2. \A m \in list_sub_wait_ack' : m \in list_sub_wait_ack /\ m # n /\ info'[m] = info[m]
    BY <1>22
  <2> QED
    BY <1>22, <2>1, <2>2 DEF OwnInv
<1>8. OpenInv'
  BY SMTT(30), <1>0, <1>20, <1>21, <1>22, <1>23 DEF RemoveUnsent, Return, Free, OpenInv, Open, Holding,
     OwnInv, Used, LockInv, FreshInv, TypeOK, IdleCall, Requests
<1>9. KindInv'
  BY <1>0, <1>20, <1>21, <1>22, <1>23 DEF RemoveUnsent, Return, Free, KindInv, Holding, TypeOK,
     IdleCall, FreshInv, OpenInv, LockInv
<1>10. FilterInv'
  BY <1>0, <1>20, <1>21, <1>22, <1>23 DEF RemoveUnsent, Return, Free, FilterInv, TypeOK, IdleCall
<1>11. FreeInv'
  BY <1>0, <1>20, <1>21, <1>22, <1>23 DEF RemoveUnsent, Return, Free, FreeInv, ToCome, OnTime,
     Holding, OpenInv, Open, LockInv, KindInv, TypeOK, IdleCall, Threads
<1>12. SuccessInv'
  BY <1>0, <1>20, <1>21, <1>22, <1>23 DEF RemoveUnsent, Return, Free, SuccessInv, OpenInv, Open,
     OwnInv, KindInv, FreshInv, TypeOK, Requests
<1>13. WorkInv'
  BY <1>0, <1>20, <1>21, <1>22, <1>23 DEF RemoveUnsent, Return, Free, WorkInv, Used, PlaceInv,
     TypeOK, Slots
<1>14. TableInv'
  BY <1>24 DEF TableInv
<1>15. GrantInv'
  BY <1>24 DEF GrantInv
<1>16. AloneInv'
  BY <1>24 DEF AloneInv
<1>17. FreedOnce'
  <2>1. "late_send_failure" \notin faults => n \in heap
    BY <1>21, <1>22, <1>23 DEF FreeInv, OnTime, Open, OwnInv
  <2> QED
    BY <1>22, <2>1 DEF FreedOnce
<1>18. LeakInv'
  <2> SUFFICES ASSUME "table_full" \notin faults', NEW k \in heap' PROVE Owned(k)'
    BY DEF LeakInv
  <2>1. k \in heap /\ k # n /\ Owned(k)
    BY <1>22 DEF LeakInv
  <2>2. \A u \in Threads : call[u].pc = "remove" /\ call[u].node = k => u # t /\ call'[u] = call[u]
    BY <1>21, <1>22, <2>1 DEF TypeOK
  <2> QED
    BY <1>22, <2>1, <2>2 DEF Owned
<1>19. NoDuplicateHandlers'
  BY <1>0, <1>20, <1>21, <1>22, <1>23 DEF RemoveUnsent, Return, Free, NoDuplicateHandlers, Used,
     FilterIn, OwnInv, FreshInv, TypeOK, Slots
<1> QED
  BY <1>1, <1>2, <1>3, <1>4, <1>5, <1>6, <1>7, <1>8, <1>9, <1>10, <1>11, <1>12, <1>13, <1>14,
     <1>15, <1>16, <1>17, <1>18, <1>19

(* A SUBACK is handled.                                                      *)
LEMMA HandleSubackStep ==
  ASSUME IInv, HandleSuback PROVE IInv'
<1>1. PICK n \in Requests, granted \in BOOLEAN :
         /\ Head(down) = <<n, "SUBACK", granted>>
         /\ MaskSubInfo(n)
         /\ \/ /\ n \notin list_sub_wait_ack
               /\ IF granted THEN UNCHANGED reported ELSE Report(n, "NACK")
               /\ y_pc' = "read"
               /\ UNCHANGED <<table, faults>>
            \/ /\ n \in list_sub_wait_ack /\ ~granted
               /\ Free({n})
               /\ UNCHANGED <<sub_handles, faults>>
               /\ Report(n, "NACK")
               /\ y_pc' = "read"
            \/ /\ n \in list_sub_wait_ack /\ granted
               /\ Install(n)
  BY DEF HandleSuback
<1>2. down # <<>> /\ down' = Tail(down) /\ Reading
  BY DEF HandleSuback
<1>3. n \in Downs /\ \E i \in DOMAIN down : Head(down) = down[i]
  BY <1>1, <1>2, DownShrinks
<1>4. info[n].type = "SUBSCRIBE" /\ Open(n)
  BY <1>1, <1>3 DEF IInv, KindInv, OpenInv
<1> USE DEF IInv, table, list, caller, yield, net, hist
<1>5. n \in list_sub_wait_ack => n \in heap /\ reported[n] = {}
  BY <1>4 DEF Open, OwnInv
<1>6. n \in list_sub_wait_ack => {n} \ heap = {}
  BY <1>5
<1>7. "NACK" \in Results /\ "SUCCESS" \in Results
  BY DEF Results
<1>8. /\ Report(n, "NACK") => /\ reported' \in [Requests -> SUBSET Results]
                              /\ \A k \in Requests : k # n => reported'[k] = reported[k]
                              /\ reported'[n] \subseteq reported[n] \cup {"NACK"}
      /\ Report(n, "SUCCESS") => /\ reported' \in [Requests -> SUBSET Results]
                                 /\ \A k \in Requests : k # n => reported'[k] = reported[k]
                                 /\ reported'[n] = reported[n] \cup {"SUCCESS"}
  <2>1. reported \in [Requests -> SUBSET Results] /\ reported[n] \in SUBSET Results
    BY DEF TypeOK
  <2>2. ASSUME NEW x \in Results, Report(n, x)
        PROVE  /\ reported' \in [Requests -> SUBSET Results]
               /\ \A k \in Requests : k # n => reported'[k] = reported[k]
               /\ reported'[n] = reported[n] \cup {x}
    <3>1. reported' = [reported EXCEPT ![n] = reported[n] \cup {x}]
      BY <2>2 DEF Report
    <3>2. reported[n] \cup {x} \in SUBSET Results
      BY <2>1
    <3> QED
      BY <2>1, <3>1, <3>2
  <2> QED
    BY <1>7, <2>2
<1>9. UNCHANGED <<list_sub_wait_ack, caller, y_slot, y_topic, is_connected, drops, up, server>>
  BY DEF HandleSuback
<1>10. Head(down)[1] = n /\ bad_free \subseteq Requests \cup {NULL} /\ reported \in [Requests -> SUBSET Results]
  BY <1>1 DEF TypeOK
<1>11. AckEffect(n)
  <2>1. CASE n \notin list_sub_wait_ack
    <3>1. /\ y_pc' = "read" /\ UNCHANGED <<table, faults>>
          /\ UNCHANGED reported \/ Report(n, "NACK")
      BY <1>1, <2>1
    <3> QED
      BY <1>1, <1>2, <1>8, <1>9, <1>10, <2>1, <3>1 DEF AckEffect
  <2>2. CASE n \in list_sub_wait_ack /\ ~granted
    <3>1. /\ y_pc' = "read" /\ UNCHANGED <<sub_handles, faults>> /\ Report(n, "NACK")
          /\ heap' = heap \ {n} /\ bad_free' = bad_free
      BY <1>1, <1>6, <2>2 DEF Free
    <3> QED
      BY <1>1, <1>2, <1>8, <1>9, <1>10, <2>2, <3>1 DEF AckEffect
  <2>3. CASE n \in list_sub_wait_ack /\ granted
    <3>1. Install(n)
      BY <1>1, <2>3
    <3>2. CASE \E i \in Slots : Identical(i, n)
      <4>1. /\ y_pc' = "proc" /\ UNCHANGED <<sub_handles, faults>> /\ Report(n, "SUCCESS")
            /\ heap' = heap \ {n} /\ bad_free' = bad_free
        BY <1>6, <2>3, <3>1, <3>2 DEF Free, Install
      <4> QED
        BY <1>1, <1>2, <1>5, <1>8, <1>9, <1>10, <2>3, <4>1 DEF AckEffect
    <3>3. CASE (\A i \in Slots : ~Identical(i, n)) /\ FreeSlots # {}
      <4>1. /\ y_pc' = "proc" /\ Report(n, "SUCCESS") /\ UNCHANGED <<heap, bad_free, faults>>
            /\ sub_handles' = [sub_handles EXCEPT ![FirstOf(FreeSlots)] =
                                  [topic_filter |-> n, message_handler |-> info[n].handler]]
        BY <3>1, <3>3 DEF Install
      <4>2. FreeSlots \in SUBSET (1..MAX_MESSAGE_HANDLERS)
        BY DEF FreeSlots, Slots
      <4>3. FirstOf(FreeSlots) \in FreeSlots
        BY <3>3, <4>2, FirstOfIs
      <4>4. FirstOf(FreeSlots) \in Slots /\ ~Used(FirstOf(FreeSlots))
        BY <4>3 DEF FreeSlots
      <4>5. Puts(n, FirstOf(FreeSlots))
        BY <1>4, <2>3, <3>3, <4>1, <4>4 DEF Puts
      <4>6. \E i \in Slots : Puts(n, i)
        BY <4>4, <4>5
      <4> QED
        BY <1>1, <1>2, <1>5, <1>8, <1>9, <1>10, <2>3, <4>1, <4>6 DEF AckEffect
    <3>4. CASE (\A i \in Slots : ~Identical(i, n)) /\ FreeSlots = {}
      <4>1. /\ y_pc' = "read" /\ UNCHANGED <<table, reported>> /\ faults' = faults \cup {"table_full"}
        BY <3>1, <3>4 DEF Install
      <4>2. "table_full" \in faults'
        BY <4>1
      <4> QED
        BY <1>1, <1>2, <1>9, <1>10, <4>1, <4>2 DEF AckEffect
    <3> QED
      BY <3>2, <3>3, <3>4
  <2> QED
    BY <2>1, <2>2, <2>3
<1> QED
  BY <1>11, AckStep

(* An UNSUBACK is handled. Without a listed node the pointer that is freed   *)
(* is not initialized; then its request timed out before the answer came.    *)
LEMMA HandleUnsubackStep ==
  ASSUME IInv, HandleUnsuback PROVE IInv'
<1>1. PICK n \in Requests :
         /\ Head(down) = <<n, "UNSUBACK", TRUE>>
         /\ MaskSubInfo(n)
         /\ \/ n \in list_sub_wait_ack /\ Free({n})
            \/ n \notin list_sub_wait_ack /\ UNCHANGED <<heap, bad_free>>
            \/ n \notin list_sub_wait_ack /\ Free({NULL})
         /\ Report(n, "SUCCESS")
  BY DEF HandleUnsuback
<1>2. down # <<>> /\ down' = Tail(down) /\ Reading
  BY DEF HandleUnsuback
<1>3. n \in Downs /\ \E i \in DOMAIN down : Head(down) = down[i]
  BY <1>1, <1>2, DownShrinks
<1>4. Head(down)[2] # "SUBACK" /\ Head(down)[1] = n
  BY <1>1
<1>5. info[n].type = "UNSUBSCRIBE" /\ Open(n)
  BY <1>3, <1>4 DEF IInv, KindInv, OpenInv
<1> USE DEF IInv, table, list, caller, yield, net, hist
<1>6. n \in list_sub_wait_ack => {n} \ heap = {}
  BY <1>5 DEF Open, OwnInv
<1>7. n \notin list_sub_wait_ack => "late_unsuback" \in faults
  BY <1>3, <1>5 DEF FreeInv, ToCome, OnTime
<1>8. \/ n \in list_sub_wait_ack /\ heap' = heap \ {n} /\ bad_free' = bad_free
      \/ /\ n \notin list_sub_wait_ack /\ heap' = heap /\ "late_unsuback" \in faults
         /\ bad_free' \subseteq bad_free \cup {NULL}
  <2>1. heap \ {NULL} = heap
    BY DEF TypeOK, Requests, NULL
  <2> QED
    BY <1>1, <1>6, <1>7, <2>1 DEF Free
<1>9. "SUCCESS" \in Results
  BY DEF Results
<1>10. reported' \in [Requests -> SUBSET Results] /\ \A k \in Requests : k # n => reported'[k] = reported[k]
  BY <1>1, <1>9 DEF Report, TypeOK
<1>11. y_pc' = "proc" /\ UNCHANGED <<sub_handles, list_sub_wait_ack, caller, y_slot, y_topic, is_connected,
                                     drops, up, server, faults>>
  BY DEF HandleUnsuback
<1>12. bad_free \subseteq Requests \cup {NULL}
  BY DEF TypeOK
<1>13. info[n].type # "SUBSCRIBE"
  BY <1>5
<1>14. AckEffect(n)
  BY <1>1, <1>2, <1>4, <1>8, <1>10, <1>11, <1>12, <1>13 DEF AckEffect
<1> QED
  BY <1>14, AckStep

(* Another packet is handled, or the read fails.                             *)
LEMMA ReadOtherStep ==
  ASSUME IInv, ReadOther \/ ReadFails \/ YieldAgain PROVE IInv'
<1> USE DEF IInv, table, list, caller, yield, net, hist
<1>0. Ups' = Ups /\ Downs' = Downs
  BY DEF ReadOther, ReadFails, YieldAgain, Reading, Ups, Downs
<1>20. \A ff : WillHave(ff)' <=> WillHave(ff)
  BY DEF ReadOther, ReadFails, YieldAgain, Reading, WillHave, UnsubscribesAfter
<1>1. TypeOK'
  <2>1. sub_handles' \in [Slots -> [topic_filter : Requests \cup {NULL},
                                  message_handler : Handlers \cup {NULL}]]
    BY <1>0, <1>20 DEF ReadOther, ReadFails, YieldAgain, Reading, TypeOK
  <2>2. info' \in [Requests -> NodeRecs]
    BY <1>0, <1>20 DEF ReadOther, ReadFails, YieldAgain, Reading, TypeOK, NodeRecs
  <2>3. call' \in [Threads -> CallRecs]
    BY <1>0, <1>20 DEF ReadOther, ReadFails, YieldAgain, Reading, TypeOK, CallRecs, IdleCall, Threads, NULL
  <2>4. reported' \in [Requests -> SUBSET Results]
    BY <1>0, <1>20 DEF ReadOther, ReadFails, YieldAgain, Reading, TypeOK, Results
  <2>5. faults' \subseteq Faults \cup Limits
    BY <1>0, <1>20 DEF ReadOther, ReadFails, YieldAgain, Reading, TypeOK, Limits
  <2>6. up' \in Seq(Requests) /\ down' \in Seq(Requests \X {"SUBACK", "UNSUBACK"} \X BOOLEAN)
    BY <1>0, <1>20 DEF ReadOther, ReadFails, YieldAgain, Reading, TypeOK
  <2> QED
    BY <1>0, <1>20, <2>1, <2>2, <2>3, <2>4, <2>5, <2>6 DEF ReadOther, ReadFails, YieldAgain, Reading, TypeOK, NULL, Slots
<1>2. CountInv'
  BY <1>0, <1>20 DEF ReadOther, ReadFails, YieldAgain, Reading, CountInv, Locking, ToResub, TypeOK, PlaceInv, Slots,
     IdleCall
<1>3. PlaceInv'
  BY <1>0, <1>20 DEF ReadOther, ReadFails, YieldAgain, Reading, PlaceInv, TypeOK, IdleCall, Threads, Slots
<1>4. LockInv'
  BY <1>0, <1>20 DEF ReadOther, ReadFails, YieldAgain, Reading, LockInv, Holding, TypeOK, IdleCall
<1>5. FreshInv'
  BY <1>0, <1>20 DEF ReadOther, ReadFails, YieldAgain, Reading, FreshInv, TypeOK, OpenInv, Holding, Slots, NULL
<1>6. ListInv'
  BY <1>0, <1>20 DEF ReadOther, ReadFails, YieldAgain, Reading, ListInv, ListBounded, TypeOK
<1>7. OwnInv'
  BY <1>0, <1>20 DEF ReadOther, ReadFails, YieldAgain, Reading, OwnInv, Used, TypeOK, OpenInv, Open, FreshInv, Slots,
     NULL, Requests
<1>8. OpenInv'
  BY <1>0, <1>20 DEF ReadOther, ReadFails, YieldAgain, Reading, OpenInv, Open, Holding
<1>9. KindInv'
  BY <1>0, <1>20 DEF ReadOther, ReadFails, YieldAgain, Reading, KindInv, Holding, TypeOK, IdleCall, FreshInv, OpenInv,
     LockInv
<1>10. FilterInv'
  BY <1>0, <1>20 DEF ReadOther, ReadFails, YieldAgain, Reading, FilterInv, TypeOK, IdleCall
<1>11. FreeInv'
  BY <1>0, <1>20 DEF ReadOther, ReadFails, YieldAgain, Reading, FreeInv, ToCome, OnTime, Holding, OpenInv, Open, LockInv,
     KindInv, TypeOK, IdleCall, Threads
<1>12. SuccessInv'
  BY <1>0, <1>20 DEF ReadOther, ReadFails, YieldAgain, Reading, SuccessInv, OpenInv, Open, OwnInv, KindInv, FreshInv,
     TypeOK, Requests
<1>13. WorkInv'
  BY <1>0, <1>20 DEF ReadOther, ReadFails, YieldAgain, Reading, WorkInv, Used, PlaceInv, TypeOK, Slots
<1>14. TableInv'
  BY <1>0, <1>20 DEF ReadOther, ReadFails, YieldAgain, Reading, TableInv, Excused, ToAsk, Used, FilterIn, TypeOK,
     PlaceInv, IdleCall, Slots
<1>15. GrantInv'
  BY <1>0, <1>20 DEF ReadOther, ReadFails, YieldAgain, Reading, GrantInv, Excused, OpenInv, Open, OwnInv, FreshInv, TypeOK
<1>16. AloneInv'
  BY <1>0, <1>20 DEF ReadOther, ReadFails, YieldAgain, Reading, AloneInv, Excused, Unsubscribing, Used, FilterIn, TypeOK,
     IdleCall
<1>17. FreedOnce'
  BY <1>0, <1>20 DEF ReadOther, ReadFails, YieldAgain, Reading, FreedOnce, FreeInv, OwnInv, OpenInv, Open, Used, OnTime,
     TypeOK
<1>18. LeakInv'
  BY <1>0, <1>20 DEF ReadOther, ReadFails, YieldAgain, Reading, LeakInv, Owned, Used, OwnInv, OpenInv, Open, LockInv,
     Holding, TypeOK, IdleCall
<1>19. NoDuplicateHandlers'
  BY <1>0, <1>20 DEF ReadOther, ReadFails, YieldAgain, Reading, NoDuplicateHandlers, Used, FilterIn
<1> QED
  BY <1>1, <1>2, <1>3, <1>4, <1>5, <1>6, <1>7, <1>8, <1>9, <1>10, <1>11, <1>12, <1>13, <1>14,
     <1>15, <1>16, <1>17, <1>18, <1>19

(* Answered and timed out requests leave the wait list.                      *)
LEMMA SubInfoProcStep ==
  ASSUME IInv, SubInfoProc PROVE IInv'
<1>25. \A u \in Threads : Holding(u) => call[u].node \in Requests
  BY HeldNode
<1> USE DEF IInv, table, list, caller, yield, net, hist
<1>0. Ups' = Ups /\ Downs' = Downs
  BY DEF SubInfoProc, TimedOut, Acked, Free, Ups, Downs
<1>20. \A ff : WillHave(ff)' <=> WillHave(ff)
  BY DEF SubInfoProc, TimedOut, Acked, Free, WillHave, UnsubscribesAfter
<1>21. /\ list_sub_wait_ack' \subseteq list_sub_wait_ack
       /\ UNCHANGED <<sub_handles, info, caller, y_slot, y_topic, net, faults>>
       /\ \A n \in Requests : reported'[n] \subseteq reported[n] \cup {"TIMEOUT"}
  BY DEF SubInfoProc
<1>1. TypeOK'
  <2>1. sub_handles' \in [Slots -> [topic_filter : Requests \cup {NULL},
                                  message_handler : Handlers \cup {NULL}]]
    BY <1>0, <1>20, <1>21 DEF SubInfoProc, TimedOut, Acked, Free, TypeOK
  <2>2. info' \in [Requests -> NodeRecs]
    BY <1>0, <1>20, <1>21 DEF SubInfoProc, TimedOut, Acked, Free, TypeOK, NodeRecs
  <2>3. call' \in [Threads -> CallRecs]
    BY <1>0, <1>20, <1>21 DEF SubInfoProc, TimedOut, Acked, Free, TypeOK, CallRecs, IdleCall,
       Threads, NULL
  <2>4. reported' \in [Requests -> SUBSET Results]
    BY <1>0, <1>20, <1>21 DEF SubInfoProc, TimedOut, Acked, Free, TypeOK, Results
  <2>5. faults' \subseteq Faults \cup Limits
    BY <1>0, <1>20, <1>21 DEF SubInfoProc, TimedOut, Acked, Free, TypeOK, Limits
  <2>6. up' \in Seq(Requests) /\ down' \in Seq(Requests \X {"SUBACK", "UNSUBACK"} \X BOOLEAN)
    BY <1>0, <1>20, <1>21 DEF SubInfoProc, TimedOut, Acked, Free, TypeOK
  <2> QED
    BY <1>0, <1>20, <1>21, <2>1, <2>2, <2>3, <2>4, <2>5, <2>6 DEF SubInfoProc, TimedOut, Acked,
       Free, TypeOK, NULL, Slots
<1>2. CountInv'
  BY <1>0, <1>20, <1>21 DEF SubInfoProc, TimedOut, Acked, Free, CountInv, Locking, ToResub,
     TypeOK, PlaceInv, Slots, IdleCall
<1>3. PlaceInv'
  BY <1>0, <1>20, <1>21 DEF SubInfoProc, TimedOut, Acked, Free, PlaceInv, TypeOK, IdleCall,
     Threads, Slots
<1>4. LockInv'
  BY <1>0, <1>20, <1>21 DEF SubInfoProc, TimedOut, Acked, Free, LockInv, Holding, TypeOK, IdleCall
<1>5. FreshInv'
  BY <1>0, <1>20, <1>21 DEF SubInfoProc, TimedOut, Acked, Free, FreshInv, TypeOK, OpenInv,
     Holding, Slots, NULL
<1>6. ListInv'
  <2>1. IsFiniteSet(list_sub_wait_ack')
        /\ Cardinality(list_sub_wait_ack') <= Cardinality(list_sub_wait_ack)
    BY <1>21, FS_Subset DEF ListInv
  <2>2. Cardinality(list_sub_wait_ack') \in Nat /\ Cardinality(list_sub_wait_ack) \in Nat
    BY <2>1, FS_CardinalityType DEF ListInv
  <2> QED
    BY <2>1, <2>2 DEF ListInv, ListBounded
<1>7. OwnInv'
  BY <1>0, <1>20, <1>21 DEF SubInfoProc, TimedOut, Acked, Free, OwnInv, Used, TypeOK, OpenInv,
     Open, FreshInv, Slots, NULL, Requests
<1>8. OpenInv'
  <2>1. \A n \in Requests : Open(n) => Open(n)'
    BY <1>21 DEF Open
  <2>2. Ups \cup Downs \subseteq Requests
    BY DEF Ups, Downs, TypeOK
  <2>3. \A u \in Threads : Holding(u) => call[u].node \in Requests
    BY <1>25
  <2> QED
    BY <1>0, <1>21, <2>1, <2>2, <2>3 DEF OpenInv, Holding
<1>9. KindInv'
  BY <1>0, <1>20, <1>21 DEF SubInfoProc, TimedOut, Acked, Free, KindInv, Holding, TypeOK,
     IdleCall, FreshInv, OpenInv, LockInv
<1>10. FilterInv'
  BY <1>0, <1>20, <1>21 DEF SubInfoProc, TimedOut, Acked, Free, FilterInv, TypeOK, IdleCall
<1>11. FreeInv'
  BY <1>0, <1>20, <1>21 DEF SubInfoProc, TimedOut, Acked, Free, FreeInv, ToCome, OnTime, Holding,
     OpenInv, Open, LockInv, KindInv, TypeOK, IdleCall, Threads
<1>12. SuccessInv'
  BY <1>0, <1>20, <1>21 DEF SubInfoProc, TimedOut, Acked, Free, SuccessInv, OpenInv, Open, OwnInv,
     KindInv, FreshInv, TypeOK, Requests
<1>13. WorkInv'
  BY <1>0, <1>20, <1>21 DEF SubInfoProc, TimedOut, Acked, Free, WorkInv, Used, PlaceInv, TypeOK,
     Slots
<1>14. TableInv'
  BY <1>0, <1>20, <1>21 DEF SubInfoProc, TimedOut, Acked, Free, TableInv, Excused, ToAsk, Used,
     FilterIn, TypeOK, PlaceInv, IdleCall, Slots
<1>15. GrantInv'
  BY <1>0, <1>20, <1>21 DEF SubInfoProc, TimedOut, Acked, Free, GrantInv, Excused, OpenInv, Open,
     OwnInv, FreshInv, TypeOK
<1>16. AloneInv'
  BY <1>0, <1>20, <1>21 DEF SubInfoProc, TimedOut, Acked, Free, AloneInv, Excused, Unsubscribing,
     Used, FilterIn, TypeOK, IdleCall
<1>17. FreedOnce'
  BY <1>0, <1>20, <1>21 DEF SubInfoProc, TimedOut, Acked, Free, FreedOnce, FreeInv, OwnInv,
     OpenInv, Open, Used, OnTime, TypeOK
<1>18. LeakInv'
  BY <1>0, <1>20, <1>21 DEF SubInfoProc, TimedOut, Acked, Free, LeakInv, Owned, Used, OwnInv,
     OpenInv, Open, LockInv, Holding, TypeOK, IdleCall
<1>19. NoDuplicateHandlers'
  BY <1>0, <1>20, <1>21 DEF SubInfoProc, TimedOut, Acked, Free, NoDuplicateHandlers, Used,
     FilterIn, OwnInv, FreshInv, TypeOK, Slots
<1> QED
  BY <1>1, <1>2, <1>3, <1>4, <1>5, <1>6, <1>7, <1>8, <1>9, <1>10, <1>11, <1>12, <1>13, <1>14,
     <1>15, <1>16, <1>17, <1>18, <1>19

(* The slot of a message is found.                                           *)
LEMMA DeliverFindStep ==
  ASSUME NEW f \in Filters, IInv, DeliverFind(f) PROVE IInv'
<1> USE DEF IInv, table, list, caller, yield, net, hist
<1>0. Ups' = Ups /\ Downs' = Downs
  BY DEF DeliverFind, Reading, MatchSlots, Ups, Downs
<1>20. \A ff : WillHave(ff)' <=> WillHave(ff)
  BY DEF DeliverFind, Reading, MatchSlots, WillHave, UnsubscribesAfter
<1>22. y_slot' \in Slots /\ Used(y_slot') /\ y_pc = "read" /\ y_pc' = "deliver"
       /\ UNCHANGED <<table, list, caller, y_topic, net, hist>>
  <2>1. MatchSlots(f) \in SUBSET (1..MAX_MESSAGE_HANDLERS) /\ MatchSlots(f) # {}
    BY DEF DeliverFind, MatchSlots, Slots
  <2>2. FirstOf(MatchSlots(f)) \in MatchSlots(f)
    BY <2>1, FirstOfIs
  <2> QED
    BY <2>2 DEF DeliverFind, MatchSlots, Reading
<1>1. TypeOK'
  BY <1>22 DEF TypeOK, Slots
<1>2. CountInv'
  BY <1>0, <1>20, <1>22 DEF DeliverFind, Reading, MatchSlots, CountInv, Locking, ToResub, TypeOK,
     PlaceInv, Slots, IdleCall
<1>3. PlaceInv'
  BY <1>22 DEF PlaceInv, DeliverFind, Reading
<1>4. LockInv'
  BY <1>0, <1>20, <1>22 DEF DeliverFind, Reading, MatchSlots, LockInv, Holding, TypeOK, IdleCall
<1>5. FreshInv'
  BY <1>0, <1>20, <1>22 DEF DeliverFind, Reading, MatchSlots, FreshInv, TypeOK, OpenInv, Holding,
     Slots, NULL
<1>6. ListInv'
  BY <1>0, <1>20, <1>22 DEF DeliverFind, Reading, MatchSlots, ListInv, ListBounded, TypeOK
<1>7. OwnInv'
  BY <1>0, <1>20, <1>22 DEF DeliverFind, Reading, MatchSlots, OwnInv, Used, TypeOK, OpenInv, Open,
     FreshInv, Slots, NULL, Requests
<1>8. OpenInv'
  BY <1>0, <1>20, <1>22 DEF DeliverFind, Reading, MatchSlots, OpenInv, Open, Holding, OwnInv,
     Used, LockInv, FreshInv, TypeOK, IdleCall, Requests
<1>9. KindInv'
  BY <1>0, <1>20, <1>22 DEF DeliverFind, Reading, MatchSlots, KindInv, Holding, TypeOK, IdleCall,
     FreshInv, OpenInv, LockInv
<1>10. FilterInv'
  BY <1>0, <1>20, <1>22 DEF DeliverFind, Reading, MatchSlots, FilterInv, TypeOK, IdleCall
<1>11. FreeInv'
  BY <1>0, <1>20, <1>22 DEF DeliverFind, Reading, MatchSlots, FreeInv, ToCome, OnTime, Holding,
     OpenInv, Open, LockInv, KindInv, TypeOK, IdleCall, Threads
<1>12. SuccessInv'
  BY <1>0, <1>20, <1>22 DEF DeliverFind, Reading, MatchSlots, SuccessInv, OpenInv, Open, OwnInv,
     KindInv, FreshInv, TypeOK, Requests
<1>13. WorkInv'
  BY <1>22 DEF WorkInv, Used
<1>14. TableInv'
  BY <1>0, <1>20, <1>22 DEF DeliverFind, Reading, MatchSlots, TableInv, Excused, ToAsk, Used,
     FilterIn, TypeOK, PlaceInv, IdleCall, Slots
<1>15. GrantInv'
  BY <1>0, <1>20, <1>22 DEF DeliverFind, Reading, MatchSlots, GrantInv, Excused, OpenInv, Open,
     OwnInv, FreshInv, TypeOK
<1>16. AloneInv'
  BY <1>0, <1>20, <1>22 DEF DeliverFind, Reading, MatchSlots, AloneInv, Excused, Unsubscribing,
     Used, FilterIn, TypeOK, IdleCall
<1>17. FreedOnce'
  BY <1>0, <1>20, <1>22 DEF DeliverFind, Reading, MatchSlots, FreedOnce, FreeInv, OwnInv, OpenInv,
     Open, Used, OnTime, TypeOK
<1>18. LeakInv'
  BY <1>0, <1>20, <1>22 DEF DeliverFind, Reading, MatchSlots, LeakInv, Owned, Used, OwnInv,
     OpenInv, Open, LockInv, Holding, TypeOK, IdleCall
<1>19. NoDuplicateHandlers'
  <2>1. UNCHANGED <<sub_handles, info>>
    BY DEF DeliverFind
  <2> QED
    BY <2>1 DEF NoDuplicateHandlers, Used, FilterIn
<1> QED
  BY <1>1, <1>2, <1>3, <1>4, <1>5, <1>6, <1>7, <1>8, <1>9, <1>10, <1>11, <1>12, <1>13, <1>14,
     <1>15, <1>16, <1>17, <1>18, <1>19

(* Its handler is called.                                                    *)
LEMMA DeliverCallStep ==
  ASSUME IInv, DeliverCall PROVE IInv'
<1> USE DEF IInv, table, list, caller, yield, net, hist
<1>0. Ups' = Ups /\ Downs' = Downs
  BY DEF DeliverCall, Ups, Downs
<1>20. \A ff : WillHave(ff)' <=> WillHave(ff)
  BY DEF DeliverCall, WillHave, UnsubscribesAfter
<1>1. TypeOK'
  <2>1. sub_handles' \in [Slots -> [topic_filter : Requests \cup {NULL},
                                  message_handler : Handlers \cup {NULL}]]
    BY <1>0, <1>20 DEF DeliverCall, TypeOK
  <2>2. info' \in [Requests -> NodeRecs]
    BY <1>0, <1>20 DEF DeliverCall, TypeOK, NodeRecs
  <2>3. call' \in [Threads -> CallRecs]
    BY <1>0, <1>20 DEF DeliverCall, TypeOK, CallRecs, IdleCall, Threads, NULL
  <2>4. reported' \in [Requests -> SUBSET Results]
    BY <1>0, <1>20 DEF DeliverCall, TypeOK, Results
  <2>5. faults' \subseteq Faults \cup Limits
    BY <1>0, <1>20 DEF DeliverCall, TypeOK, Limits
  <2>6. up' \in Seq(Requests) /\ down' \in Seq(Requests \X {"SUBACK", "UNSUBACK"} \X BOOLEAN)
    BY <1>0, <1>20 DEF DeliverCall, TypeOK
  <2> QED
    BY <1>0, <1>20, <2>1, <2>2, <2>3, <2>4, <2>5, <2>6 DEF DeliverCall, TypeOK, NULL, Slots
<1>2. CountInv'
  BY <1>0, <1>20 DEF DeliverCall, CountInv, Locking, ToResub, TypeOK, PlaceInv, Slots, IdleCall
<1>3. PlaceInv'
  BY <1>0, <1>20 DEF DeliverCall, PlaceInv, TypeOK, IdleCall, Threads, Slots
<1>4. LockInv'
  BY <1>0, <1>20 DEF DeliverCall, LockInv, Holding, TypeOK, IdleCall
<1>5. FreshInv'
  BY <1>0, <1>20 DEF DeliverCall, FreshInv, TypeOK, OpenInv, Holding, Slots, NULL
<1>6. ListInv'
  BY <1>0, <1>20 DEF DeliverCall, ListInv, ListBounded, TypeOK
<1>7. OwnInv'
  BY <1>0, <1>20 DEF DeliverCall, OwnInv, Used, TypeOK, OpenInv, Open, FreshInv, Slots, NULL,
     Requests
<1>8. OpenInv'
  BY <1>0, <1>20 DEF DeliverCall, OpenInv, Open, Holding, OwnInv, Used, LockInv, FreshInv, TypeOK,
     IdleCall, Requests
<1>9. KindInv'
  BY <1>0, <1>20 DEF DeliverCall, KindInv, Holding, TypeOK, IdleCall, FreshInv, OpenInv, LockInv
<1>10. FilterInv'
  BY <1>0, <1>20 DEF DeliverCall, FilterInv, TypeOK, IdleCall
<1>11. FreeInv'
  BY <1>0, <1>20 DEF DeliverCall, FreeInv, ToCome, OnTime, Holding, OpenInv, Open, LockInv,
     KindInv, TypeOK, IdleCall, Threads
<1>12. SuccessInv'
  BY <1>0, <1>20 DEF DeliverCall, SuccessInv, OpenInv, Open, OwnInv, KindInv, FreshInv, TypeOK,
     Requests
<1>13. WorkInv'
  BY <1>0, <1>20 DEF DeliverCall, WorkInv, Used, PlaceInv, TypeOK, Slots
<1>14. TableInv'
  BY <1>0, <1>20 DEF DeliverCall, TableInv, Excused, ToAsk, Used, FilterIn, TypeOK, PlaceInv,
     IdleCall, Slots
<1>15. GrantInv'
  BY <1>0, <1>20 DEF DeliverCall, GrantInv, Excused, OpenInv, Open, OwnInv, FreshInv, TypeOK
<1>16. AloneInv'
  BY <1>0, <1>20 DEF DeliverCall, AloneInv, Excused, Unsubscribing, Used, FilterIn, TypeOK, IdleCall
<1>17. FreedOnce'
  BY <1>0, <1>20 DEF DeliverCall, FreedOnce, FreeInv, OwnInv, OpenInv, Open, Used, OnTime, TypeOK
<1>18. LeakInv'
  BY <1>0, <1>20 DEF DeliverCall, LeakInv, Owned, Used, OwnInv, OpenInv, Open, LockInv, Holding,
     TypeOK, IdleCall
<1>19. NoDuplicateHandlers'
  BY <1>0, <1>20 DEF DeliverCall, NoDuplicateHandlers, Used, FilterIn, OwnInv, FreshInv, TypeOK,
     Slots
<1> QED
  BY <1>1, <1>2, <1>3, <1>4, <1>5, <1>6, <1>7, <1>8, <1>9, <1>10, <1>11, <1>12, <1>13, <1>14,
     <1>15, <1>16, <1>17, <1>18, <1>19

(* The connection is lost, and everything on its way with it.                *)
LEMMA DisconnectStep ==
  ASSUME IInv, Disconnect PROVE IInv'
<1> USE DEF IInv, table, list, caller, yield, net, hist
<1>1. /\ y_pc = "read" /\ is_connected /\ call[Yielder].pc = "idle" /\ is_connected' = FALSE
      /\ drops < MaxDrops /\ drops' = drops + 1 /\ up' = <<>> /\ down' = <<>> /\ server' = {}
      /\ UNCHANGED <<table, list, caller, yield, hist>>
  BY DEF Disconnect, Reading
<1>2. Ups' = {} /\ Downs' = {}
  BY <1>1 DEF Ups, Downs
<1>10. TypeOK'
  <2>1. up' \in Seq(Requests) /\ down' \in Seq(Requests \X {"SUBACK", "UNSUBACK"} \X BOOLEAN)
    BY <1>1
  <2>2. drops' \in 0 .. MaxDrops
    BY <1>1 DEF TypeOK
  <2> QED
    BY <1>1, <2>1, <2>2 DEF TypeOK
<1>11. CountInv'
  <2>1. Locking' = Locking /\ ToResub = 0 /\ ToResub' = MAX_MESSAGE_HANDLERS
    BY <1>1 DEF Locking, ToResub
  <2>2. drops' * MAX_MESSAGE_HANDLERS = drops * MAX_MESSAGE_HANDLERS + MAX_MESSAGE_HANDLERS
        /\ drops * MAX_MESSAGE_HANDLERS \in Nat
    BY <1>1 DEF TypeOK
  <2>3. Cardinality(Locking) \in Nat
    BY FS_CardinalityType DEF CountInv
  <2> QED
    BY <1>1, <2>1, <2>2, <2>3 DEF CountInv, TypeOK
<1>12. PlaceInv'
  BY <1>1 DEF PlaceInv
<1>13. LockInv'
  BY <1>1 DEF LockInv, Holding
<1>14. FreshInv'
  BY <1>1, <1>2 DEF FreshInv
<1>15. ListInv'
  BY <1>1 DEF ListInv, ListBounded
<1>16. OwnInv'
  BY <1>1 DEF OwnInv, Used
<1>17. \A m : Open(m)' <=> Open(m)
  BY <1>1 DEF Open
<1>18. OpenInv'
  BY <1>1, <1>2, <1>17 DEF OpenInv, Holding
<1>19. KindInv'
  BY <1>1 DEF KindInv, Holding
<1>20. FreeInv'
  <2>1. \A m \in Requests : (ToCome(m)' => ToCome(m)) /\ (OnTime(m)' <=> OnTime(m))
    BY <1>1, <1>2 DEF ToCome, OnTime
  <2> QED
    BY <1>1, <2>1 DEF FreeInv, OnTime
<1>21. SuccessInv'
  BY <1>1 DEF SuccessInv
<1>22. WorkInv'
  BY <1>1 DEF WorkInv, Used
<1>23. TableInv'
  BY <1>1 DEF TableInv
<1>24. GrantInv'
  BY <1>2 DEF GrantInv
<1>25. AloneInv'
  BY <1>1 DEF AloneInv, Excused, Unsubscribing, Used, FilterIn
<1>26. FreedOnce'
  BY <1>1 DEF FreedOnce
<1>27. LeakInv'
  BY <1>1 DEF LeakInv, Owned
<1>28. NoDuplicateHandlers'
  BY <1>1 DEF NoDuplicateHandlers, Used, FilterIn
<1>40. FilterInv'
  BY <1>1, <1>2 DEF FilterInv
<1> QED
  BY <1>10, <1>11, <1>12, <1>13, <1>14, <1>15, <1>16, <1>18, <1>19, <1>20, <1>21, <1>22, <1>23,
     <1>24, <1>25, <1>26, <1>27, <1>28, <1>40

(* The connection is back.                                                   *)
LEMMA ReconnectStep ==
  ASSUME IInv, Reconnect PROVE IInv'
<1> USE DEF IInv, table, list, caller, yield, net, hist
<1>0. Ups' = Ups /\ Downs' = Downs
  BY DEF Reconnect, Ups, Downs
<1>20. \A ff : WillHave(ff)' <=> WillHave(ff)
  BY DEF Reconnect, WillHave, UnsubscribesAfter
<1>1. TypeOK'
  <2>1. sub_handles' \in [Slots -> [topic_filter : Requests \cup {NULL},
                                  message_handler : Handlers \cup {NULL}]]
    BY <1>0, <1>20 DEF Reconnect, TypeOK
  <2>2. info' \in [Requests -> NodeRecs]
    BY <1>0, <1>20 DEF Reconnect, TypeOK, NodeRecs
  <2>3. call' \in [Threads -> CallRecs]
    BY <1>0, <1>20 DEF Reconnect, TypeOK, CallRecs, IdleCall, Threads, NULL
  <2>4. reported' \in [Requests -> SUBSET Results]
    BY <1>0, <1>20 DEF Reconnect, TypeOK, Results
  <2>5. faults' \subseteq Faults \cup Limits
    BY <1>0, <1>20 DEF Reconnect, TypeOK, Limits
  <2>6. up' \in Seq(Requests) /\ down' \in Seq(Requests \X {"SUBACK", "UNSUBACK"} \X BOOLEAN)
    BY <1>0, <1>20 DEF Reconnect, TypeOK
  <2> QED
    BY <1>0, <1>20, <2>1, <2>2, <2>3, <2>4, <2>5, <2>6 DEF Reconnect, TypeOK, NULL, Slots
<1>2. CountInv'
  BY <1>0, <1>20 DEF Reconnect, CountInv, Locking, ToResub, TypeOK, PlaceInv, Slots, IdleCall
<1>3. PlaceInv'
  BY <1>0, <1>20 DEF Reconnect, PlaceInv, TypeOK, IdleCall, Threads, Slots
<1>4. LockInv'
  BY <1>0, <1>20 DEF Reconnect, LockInv, Holding, TypeOK, IdleCall
<1>5. FreshInv'
  BY <1>0, <1>20 DEF Reconnect, FreshInv, TypeOK, OpenInv, Holding, Slots, NULL
<1>6. ListInv'
  BY <1>0, <1>20 DEF Reconnect, ListInv, ListBounded, TypeOK
<1>7. OwnInv'
  BY <1>0, <1>20 DEF Reconnect, OwnInv, Used, TypeOK, OpenInv, Open, FreshInv, Slots, NULL, Requests
<1>8. OpenInv'
  BY <1>0, <1>20 DEF Reconnect, OpenInv, Open, Holding, OwnInv, Used, LockInv, FreshInv, TypeOK,
     IdleCall, Requests
<1>9. KindInv'
  BY <1>0, <1>20 DEF Reconnect, KindInv, Holding, TypeOK, IdleCall, FreshInv, OpenInv, LockInv
<1>10. FilterInv'
  BY <1>0, <1>20 DEF Reconnect, FilterInv, TypeOK, IdleCall
<1>11. FreeInv'
  BY <1>0, <1>20 DEF Reconnect, FreeInv, ToCome, OnTime, Holding, OpenInv, Open, LockInv, KindInv,
     TypeOK, IdleCall, Threads
<1>12. SuccessInv'
  BY <1>0, <1>20 DEF Reconnect, SuccessInv, OpenInv, Open, OwnInv, KindInv, FreshInv, TypeOK,
     Requests
<1>13. WorkInv'
  BY <1>0, <1>20 DEF Reconnect, WorkInv, Used, PlaceInv, TypeOK, Slots
<1>14. TableInv'
  BY <1>0, <1>20 DEF Reconnect, TableInv, Excused, ToAsk, Used, FilterIn, TypeOK, PlaceInv,
     IdleCall, Slots
<1>15. GrantInv'
  BY <1>0, <1>20 DEF Reconnect, GrantInv, Excused, OpenInv, Open, OwnInv, FreshInv, TypeOK
<1>16. AloneInv'
  BY <1>0, <1>20 DEF Reconnect, AloneInv, Excused, Unsubscribing, Used, FilterIn, TypeOK, IdleCall
<1>17. FreedOnce'
  BY <1>0, <1>20 DEF Reconnect, FreedOnce, FreeInv, OwnInv, OpenInv, Open, Used, OnTime, TypeOK
<1>18. LeakInv'
  BY <1>0, <1>20 DEF Reconnect, LeakInv, Owned, Used, OwnInv, OpenInv, Open, LockInv, Holding,
     TypeOK, IdleCall
<1>19. NoDuplicateHandlers'
  BY <1>0, <1>20 DEF Reconnect, NoDuplicateHandlers, Used, FilterIn, OwnInv, FreshInv, TypeOK, Slots
<1> QED
  BY <1>1, <1>2, <1>3, <1>4, <1>5, <1>6, <1>7, <1>8, <1>9, <1>10, <1>11, <1>12, <1>13, <1>14,
     <1>15, <1>16, <1>17, <1>18, <1>19

(* The next slot to subscribe again is found.                                *)
LEMMA ResubNextStep ==
  ASSUME IInv, ResubNext PROVE IInv'
<1> USE DEF IInv, table, list, caller, yield, net, hist
<1>0. Ups' = Ups /\ Downs' = Downs
  BY DEF ResubNext, Ups, Downs
<1>20. \A ff : WillHave(ff)' <=> WillHave(ff)
  BY DEF ResubNext, WillHave, UnsubscribesAfter
<1>22. /\ y_pc = "resub" /\ call[Yielder].pc = "idle"
       /\ UNCHANGED <<table, list, caller, net, hist>>
       /\ \/ /\ y_pc' = "read" /\ y_slot' = 1 /\ y_topic' = NULL
             /\ \A i \in Slots : i >= y_slot => ~Used(i)
          \/ /\ y_pc' = "copy" /\ y_slot' \in Slots /\ y_slot' >= y_slot /\ Used(y_slot')
             /\ y_topic' = sub_handles[y_slot'].topic_filter
             /\ \A i \in Slots : i >= y_slot /\ Used(i) => i >= y_slot'
  <2> DEFINE rest == {i \in Slots : i >= y_slot /\ Used(i)}
  <2>1. CASE rest = {}
    BY <2>1 DEF ResubNext
  <2>2. CASE rest # {}
    <3>1. rest \in SUBSET (1..MAX_MESSAGE_HANDLERS)
      BY DEF Slots
    <3>2. FirstOf(rest) \in rest /\ \A j \in rest : FirstOf(rest) <= j
      BY <2>2, <3>1, FirstOfIs
    <3>3. y_pc' = "copy" /\ y_slot' = FirstOf(rest) /\ y_topic' = sub_handles[FirstOf(rest)].topic_filter
      BY <2>2 DEF ResubNext
    <3> QED
      BY <3>2, <3>3 DEF ResubNext, Slots, TypeOK
  <2> QED
    BY <2>1, <2>2
<1>1. TypeOK'
  BY <1>22 DEF TypeOK, Slots, NULL
<1>2. CountInv'
  <2>1. Locking' = Locking /\ ToResub' <= ToResub /\ ToResub \in Nat /\ ToResub' \in Nat
    BY <1>22 DEF Locking, ToResub, TypeOK, Slots, PlaceInv
  <2> QED
    BY <1>22, <2>1, FS_CardinalityType DEF CountInv, TypeOK
<1>3. PlaceInv'
  BY <1>22 DEF PlaceInv, Slots
<1>4. LockInv'
  BY <1>0, <1>20, <1>22 DEF ResubNext, LockInv, Holding, TypeOK, IdleCall
<1>5. FreshInv'
  BY <1>0, <1>20, <1>22 DEF ResubNext, FreshInv, TypeOK, OpenInv, Holding, Slots, NULL
<1>6. ListInv'
  BY <1>0, <1>20, <1>22 DEF ResubNext, ListInv, ListBounded, TypeOK
<1>7. OwnInv'
  BY <1>0, <1>20, <1>22 DEF ResubNext, OwnInv, Used, TypeOK, OpenInv, Open, FreshInv, Slots, NULL,
     Requests
<1>8. OpenInv'
  BY <1>0, <1>20, <1>22 DEF ResubNext, OpenInv, Open, Holding, OwnInv, Used, LockInv, FreshInv,
     TypeOK, IdleCall, Requests
<1>9. KindInv'
  BY <1>0, <1>20, <1>22 DEF ResubNext, KindInv, Holding, TypeOK, IdleCall, FreshInv, OpenInv,
     LockInv
<1>10. FilterInv'
  BY <1>0, <1>20, <1>22 DEF ResubNext, FilterInv, TypeOK, IdleCall
<1>11. FreeInv'
  BY <1>0, <1>20, <1>22 DEF ResubNext, FreeInv, ToCome, OnTime, Holding, OpenInv, Open, LockInv,
     KindInv, TypeOK, IdleCall, Threads
<1>12. SuccessInv'
  BY <1>0, <1>20, <1>22 DEF ResubNext, SuccessInv, OpenInv, Open, OwnInv, KindInv, FreshInv,
     TypeOK, Requests
<1>13. WorkInv'
  BY <1>22 DEF WorkInv, Used
<1>14. TableInv'
  <2>1. \A i \in Slots : Used(i)' /\ ToAsk(i) => ToAsk(i)'
    BY <1>22 DEF ToAsk, Used, Slots
  <2> QED
    BY <1>20, <1>22, <2>1 DEF TableInv, Excused, Used, FilterIn
<1>15. GrantInv'
  BY <1>0, <1>20, <1>22 DEF ResubNext, GrantInv, Excused, OpenInv, Open, OwnInv, FreshInv, TypeOK
<1>16. AloneInv'
  BY <1>0, <1>20, <1>22 DEF ResubNext, AloneInv, Excused, Unsubscribing, Used, FilterIn, TypeOK,
     IdleCall
<1>17. FreedOnce'
  BY <1>0, <1>20, <1>22 DEF ResubNext, FreedOnce, FreeInv, OwnInv, OpenInv, Open, Used, OnTime,
     TypeOK
<1>18. LeakInv'
  BY <1>0, <1>20, <1>22 DEF ResubNext, LeakInv, Owned, Used, OwnInv, OpenInv, Open, LockInv,
     Holding, TypeOK, IdleCall
<1>19. NoDuplicateHandlers'
  BY <1>0, <1>20, <1>22 DEF ResubNext, NoDuplicateHandlers, Used, FilterIn, OwnInv, FreshInv,
     TypeOK, Slots
<1> QED
  BY <1>1, <1>2, <1>3, <1>4, <1>5, <1>6, <1>7, <1>8, <1>9, <1>10, <1>11, <1>12, <1>13, <1>14,
     <1>15, <1>16, <1>17, <1>18, <1>19

(* Its filter is copied for a new request.                                   *)
LEMMA ResubCopyStep ==
  ASSUME IInv, ResubCopy PROVE IInv'
<1> USE DEF IInv, table, list, caller, yield, net, hist
<1>0. Ups' = Ups /\ Downs' = Downs
  BY DEF ResubCopy, Begin, StringAt, Ups, Downs
<1>20. \A ff : WillHave(ff)' <=> WillHave(ff)
  BY DEF ResubCopy, Begin, StringAt, WillHave, UnsubscribesAfter
<1>21. Yielder \in Threads
  BY DEF Threads
<1>22. PICK f \in StringAt(y_topic) :
          call' = [call EXCEPT ![Yielder] = [pc |-> "lock", type |-> "SUBSCRIBE", filter |-> f,
                                             handler |-> sub_handles[y_slot].message_handler, node |-> NULL]]
  BY DEF ResubCopy, Begin
<1>23. /\ y_pc = "copy" /\ y_pc' = "resub" /\ y_slot' = y_slot + 1 /\ y_slot \in Slots
       /\ call[Yielder].pc = "idle" /\ is_connected
       /\ UNCHANGED <<table, list, lock_write_buf, calls, requests, y_topic, net, hist>>
  BY DEF ResubCopy, PlaceInv
<1>24. f \in Filters \cup {NULL}
  BY <1>22 DEF StringAt, TypeOK, NodeRecs
<1>25. ~Excused => Used(y_slot) /\ f = FilterIn(y_slot)
  BY <1>22, <1>23 DEF Excused, WorkInv, OwnInv, StringAt, FilterIn
<1>1. TypeOK'
  <2>1. [pc |-> "lock", type |-> "SUBSCRIBE", filter |-> f,
         handler |-> sub_handles[y_slot].message_handler, node |-> NULL] \in CallRecs
    BY <1>23, <1>24 DEF CallRecs, TypeOK
  <2>2. call' \in [Threads -> CallRecs]
    BY <1>22, <2>1 DEF TypeOK
  <2> QED
    BY <1>23, <2>2 DEF TypeOK, Slots
<1>2. CountInv'
  <2>1. Locking' = Locking \cup {Yielder} /\ Yielder \notin Locking
    BY <1>21, <1>22, <1>23 DEF Threads, Locking, TypeOK
  <2>2. IsFiniteSet(Locking') /\ Cardinality(Locking') = Cardinality(Locking) + 1 /\ Cardinality(Locking) \in Nat
    BY <2>1, FS_AddElement, FS_CardinalityType DEF CountInv
  <2>3. ToResub' = ToResub - 1 /\ ToResub \in Nat
    BY <1>23 DEF ToResub, Slots
  <2> QED
    BY <1>23, <2>2, <2>3 DEF CountInv, TypeOK
<1>3. PlaceInv'
  BY <1>0, <1>20, <1>22 DEF ResubCopy, Begin, StringAt, PlaceInv, TypeOK, IdleCall, Threads, Slots
<1>4. LockInv'
  BY <1>0, <1>20, <1>22 DEF ResubCopy, Begin, StringAt, LockInv, Holding, TypeOK, IdleCall
<1>5. FreshInv'
  BY <1>0, <1>20, <1>22 DEF ResubCopy, Begin, StringAt, FreshInv, TypeOK, OpenInv, Holding, Slots,
     NULL
<1>6. ListInv'
  BY <1>0, <1>20, <1>22 DEF ResubCopy, Begin, StringAt, ListInv, ListBounded, TypeOK
<1>7. OwnInv'
  BY <1>0, <1>20, <1>22 DEF ResubCopy, Begin, StringAt, OwnInv, Used, TypeOK, OpenInv, Open,
     FreshInv, Slots, NULL, Requests
<1>8. OpenInv'
  BY <1>0, <1>20, <1>22 DEF ResubCopy, Begin, StringAt, OpenInv, Open, Holding, OwnInv, Used,
     LockInv, FreshInv, TypeOK, IdleCall, Requests
<1>9. KindInv'
  BY <1>0, <1>20, <1>22 DEF ResubCopy, Begin, StringAt, KindInv, Holding, TypeOK, IdleCall,
     FreshInv, OpenInv, LockInv
<1>10. FilterInv'
  <2>1. f \in Filters
    BY <1>22 DEF StringAt, FilterInv
  <2> QED
    BY <1>0, <1>21, <1>22, <1>23, <2>1 DEF FilterInv, TypeOK
<1>11. FreeInv'
  BY <1>0, <1>20, <1>22 DEF ResubCopy, Begin, StringAt, FreeInv, ToCome, OnTime, Holding, OpenInv,
     Open, LockInv, KindInv, TypeOK, IdleCall, Threads
<1>12. SuccessInv'
  BY <1>0, <1>20, <1>22 DEF ResubCopy, Begin, StringAt, SuccessInv, OpenInv, Open, OwnInv,
     KindInv, FreshInv, TypeOK, Requests
<1>13. WorkInv'
  BY <1>0, <1>20, <1>22 DEF ResubCopy, Begin, StringAt, WorkInv, Used, PlaceInv, TypeOK, Slots
<1>14. TableInv'
  <2> SUFFICES ASSUME ~Excused, NEW i \in Slots, Used(i), ~WillHave(FilterIn(i)) PROVE ToAsk(i)'
    BY <1>20, <1>23 DEF TableInv, Excused, Used, FilterIn
  <2>1. i >= y_slot
    BY <1>23 DEF TableInv, ToAsk
  <2>2. CASE i = y_slot
    BY <1>21, <1>22, <1>23, <1>25, <2>2 DEF ToAsk, FilterIn, TypeOK
  <2>3. CASE i > y_slot
    BY <1>23, <2>3 DEF ToAsk, Slots
  <2> QED
    BY <1>23, <2>1, <2>2, <2>3 DEF Slots
<1>15. GrantInv'
  BY <1>0, <1>20, <1>22 DEF ResubCopy, Begin, StringAt, GrantInv, Excused, OpenInv, Open, OwnInv,
     FreshInv, TypeOK
<1>16. AloneInv'
  <2> SUFFICES ASSUME ~Excused, NEW v \in Threads, Unsubscribing(v)'
               PROVE  /\ \A i \in Slots : Used(i) => FilterIn(i) # call'[v].filter
                      /\ \A n \in list_sub_wait_ack :
                            info[n].type = "SUBSCRIBE" /\ info[n].node_state = "NORMAL"
                            => info[n].filter # call'[v].filter
                      /\ \A u \in Threads : call'[u].pc # "idle" /\ call'[u].filter = call'[v].filter => u = v
    BY <1>23 DEF AloneInv, Excused, Used, FilterIn
  <2>1. v # Yielder /\ Unsubscribing(v) /\ call'[v] = call[v]
    BY <1>21, <1>22 DEF Unsubscribing, TypeOK
  <2>2. call[v].filter # f
    BY <1>23, <1>25, <2>1 DEF AloneInv
  <2>3. \A u \in Threads : call'[u].pc # "idle" /\ call'[u].filter = call[v].filter => u = v
    BY <1>21, <1>22, <2>1, <2>2 DEF AloneInv, TypeOK
  <2> QED
    BY <2>1, <2>3 DEF AloneInv
<1>17. FreedOnce'
  BY <1>0, <1>20, <1>22 DEF ResubCopy, Begin, StringAt, FreedOnce, FreeInv, OwnInv, OpenInv, Open,
     Used, OnTime, TypeOK
<1>18. LeakInv'
  BY <1>21, <1>22, <1>23 DEF LeakInv, Owned, TypeOK
<1>19. NoDuplicateHandlers'
  BY <1>0, <1>20, <1>22 DEF ResubCopy, Begin, StringAt, NoDuplicateHandlers, Used, FilterIn,
     OwnInv, FreshInv, TypeOK, Slots
<1> QED
  BY <1>1, <1>2, <1>3, <1>4, <1>5, <1>6, <1>7, <1>8, <1>9, <1>10, <1>11, <1>12, <1>13, <1>14,
     <1>15, <1>16, <1>17, <1>18, <1>19

(* The server handles a request.                                             *)
LEMMA ServerHandleStep ==
  ASSUME IInv, ServerHandle PROVE IInv'
<1>1. PICK n \in Requests, p \in Packets :
         /\ n = Head(up) /\ p[1] = n /\ up # <<>> /\ up' = Tail(up) /\ down' = Append(down, p)
         /\ \/ /\ info[n].type = "SUBSCRIBE" /\ p[2] = "SUBACK"
               /\ server' = server \cup {info[n].filter} /\ faults' = faults
            \/ /\ info[n].type = "SUBSCRIBE" /\ p[2] = "SUBACK"
               /\ server' = server /\ "refusal" \in Faults /\ faults' = faults \cup {"refusal"}
            \/ /\ info[n].type = "UNSUBSCRIBE" /\ p[2] = "UNSUBACK"
               /\ server' = server \ {info[n].filter} /\ faults' = faults
  <2>1. Head(up) \in Requests
    BY DEF ServerHandle, IInv, TypeOK
  <2>2. <<Head(up), "SUBACK", TRUE>> \in Packets /\ <<Head(up), "SUBACK", FALSE>> \in Packets
        /\ <<Head(up), "UNSUBACK", TRUE>> \in Packets
    BY <2>1 DEF Packets
  <2> QED
    BY <2>1, <2>2 DEF ServerHandle, Fault
<1>2. /\ up' \in Seq(Requests) /\ n \in Ups /\ Ups' = Ups \ {n}
      /\ \A i, j \in DOMAIN up' : up'[i] = up'[j] => i = j
  BY <1>1, UpShrinks
<1>3. n \notin Downs
  BY <1>2 DEF IInv, OpenInv
<1>4. /\ down' \in Seq(Packets) /\ Downs' = Downs \cup {n}
      /\ \A i, j \in DOMAIN down' : down'[i][1] = down'[j][1] => i = j
      /\ \A i \in DOMAIN down' : down'[i] = p \/ \E j \in DOMAIN down : down'[i] = down[j]
  BY <1>1, <1>3, DownGrows
<1>5. Ups' \cup Downs' = Ups \cup Downs
  BY <1>2, <1>4
<1>6. ~Excused' => \A f : WillHave(f) => WillHave(f)'
  <2>1. UNCHANGED info
    BY DEF ServerHandle, list
  <2>2. ~Excused' => IF info[Head(up)].type = "SUBSCRIBE" THEN server' = server \cup {info[Head(up)].filter}
                                                          ELSE server' = server \ {info[Head(up)].filter}
    <3>1. "refusal" \in faults' => Excused'
      BY DEF Excused
    <3>2. "refusal" \in faults \cup {"refusal"}
      OBVIOUS
    <3> QED
      BY <1>1, <3>1, <3>2
  <2> QED
    BY <1>1, <2>1, <2>2, WillHaveShrinks
<1> USE DEF IInv, table, list, caller, yield, net, hist
<1>7. UNCHANGED <<table, list, caller, yield, is_connected, drops, reported>>
  BY DEF ServerHandle
<1>8. faults \subseteq faults' /\ faults' \subseteq faults \cup {"refusal"} /\ faults' \subseteq Faults \cup Limits
  BY <1>1 DEF TypeOK
<1>9. info[n].filter \in Filters
  BY <1>2 DEF FilterInv
<1>10. TypeOK'
  <2>1. server' \subseteq Filters
    BY <1>1, <1>9 DEF TypeOK
  <2> QED
    BY <1>2, <1>4, <1>7, <1>8, <2>1 DEF TypeOK, Packets
<1>11. CountInv'
  BY <1>7 DEF CountInv, Locking, ToResub
<1>12. PlaceInv'
  BY <1>1, <1>7 DEF PlaceInv
<1>13. LockInv'
  BY <1>7 DEF LockInv, Holding
<1>14. FreshInv'
  BY <1>5, <1>7 DEF FreshInv
<1>15. ListInv'
  BY <1>7 DEF ListInv, ListBounded
<1>16. OwnInv'
  BY <1>7 DEF OwnInv, Used
<1>17. \A m : Open(m)' <=> Open(m)
  BY <1>7 DEF Open
<1>18. OpenInv'
  <2>1. Ups' \cap Downs' = {}
    BY <1>2, <1>4 DEF OpenInv
  <2> QED
    BY <1>2, <1>4, <1>5, <1>7, <1>17, <2>1 DEF OpenInv, Holding
<1>19. KindInv'
  <2>1. \A i \in DOMAIN down' : IF down'[i][2] = "SUBACK" THEN info[down'[i][1]].type = "SUBSCRIBE"
                                ELSE info[down'[i][1]].type = "UNSUBSCRIBE"
    BY <1>1, <1>4 DEF KindInv
  <2> QED
    BY <1>7, <2>1 DEF KindInv, Holding
<1>20. FreeInv'
  <2>1. \A m \in Requests : (ToCome(m)' <=> ToCome(m)) /\ (OnTime(m)' <=> OnTime(m))
    BY <1>5, <1>7 DEF ToCome, OnTime
  <2> QED
    BY <1>7, <1>8, <2>1 DEF FreeInv, OnTime
<1>21. SuccessInv'
  BY <1>7 DEF SuccessInv
<1>22. WorkInv'
  BY <1>7, <1>8 DEF WorkInv, Used
<1>23. Excused => Excused'
  BY <1>8 DEF Excused
<1>24. \A i \in Slots : (Used(i)' <=> Used(i)) /\ FilterIn(i)' = FilterIn(i) /\ (ToAsk(i)' <=> ToAsk(i))
  BY <1>7 DEF Used, FilterIn, ToAsk
<1>25. TableInv'
  <2> SUFFICES ASSUME ~Excused', is_connected, NEW i \in Slots, Used(i), ~ToAsk(i)
               PROVE  WillHave(FilterIn(i))'
    BY <1>7, <1>24 DEF TableInv
  <2>1. PICK f : f = FilterIn(i) /\ WillHave(f)
    BY <1>23 DEF TableInv
  <2>2. WillHave(f)'
    BY <1>6, <2>1
  <2> QED
    BY <1>24, <2>1, <2>2
<1>26. GrantInv'
  <2> SUFFICES ASSUME ~Excused', NEW m \in (Ups \cup Downs) \cap list_sub_wait_ack, info[m].type = "SUBSCRIBE"
               PROVE  WillHave(info[m].filter)'
    BY <1>5, <1>7 DEF GrantInv
  <2>1. PICK f : f = info[m].filter /\ WillHave(f)
    BY <1>23 DEF GrantInv
  <2>2. WillHave(f)' /\ info'[m].filter = f
    BY <1>6, <1>7, <2>1
  <2> QED
    BY <2>2
<1>27. AloneInv'
  BY <1>7, <1>23, <1>24 DEF AloneInv, Unsubscribing
<1>28. FreedOnce'
  BY <1>7, <1>8 DEF FreedOnce
<1>29. LeakInv'
  BY <1>7, <1>8 DEF LeakInv, Owned
<1>30. NoDuplicateHandlers'
  BY <1>7, <1>24 DEF NoDuplicateHandlers
<1>40. FilterInv'
  BY <1>2, <1>7 DEF FilterInv
<1> QED
  BY <1>10, <1>11, <1>12, <1>13, <1>14, <1>15, <1>16, <1>18, <1>19, <1>20, <1>21, <1>22, <1>25,
     <1>26, <1>27, <1>28, <1>29, <1>30, <1>40

(* The countdown of a request ends.                                          *)
LEMMA ExpireStep ==
  ASSUME NEW n \in Requests, IInv, Expire(n) PROVE IInv'
<1>25. \A u \in Threads : Holding(u) => call[u].node \in Requests
  BY HeldNode
<1> USE DEF IInv, table, list, caller, yield, net, hist
<1>0. Ups' = Ups /\ Downs' = Downs
  BY DEF Expire, Fault, Ups, Downs
<1>20. \A f : WillHave(f)' <=> WillHave(f)
  <2>1. \A k \in Requests : info'[k].type = info[k].type /\ info'[k].filter = info[k].filter
    BY DEF Expire, TypeOK, NodeRecs
  <2>2. \A i \in DOMAIN up : up[i] \in Requests
    BY DEF TypeOK
  <2> QED
    BY <2>1, <2>2 DEF Expire, WillHave, UnsubscribesAfter
<1>21. /\ n \in list_sub_wait_ack /\ info[n] \in NodeRecs /\ info'[n] = [info[n] EXCEPT !.expired = TRUE]
       /\ \A k \in Requests : k # n => info'[k] = info[k]
       /\ UNCHANGED <<table, list_sub_wait_ack, caller, yield, net, reported>>
  BY DEF Expire, TypeOK, OnTime
<1>22. \A k \in Requests : /\ info'[k].type = info[k].type /\ info'[k].filter = info[k].filter
                           /\ info'[k].handler = info[k].handler /\ info'[k].node_state = info[k].node_state
  BY <1>21 DEF NodeRecs
<1>23. Ups \cup Downs \subseteq Requests
  BY DEF Ups, Downs, TypeOK
<1>1. TypeOK'
  <2>1. info' \in [Requests -> NodeRecs]
    <3>1. info'[n] \in NodeRecs
      BY <1>21 DEF NodeRecs
    <3> QED
      BY <3>1 DEF Expire, TypeOK
  <2>2. faults' \subseteq Faults \cup Limits
    BY DEF Expire, Fault, TypeOK
  <2> QED
    BY <1>21, <2>1, <2>2 DEF TypeOK
<1>2. CountInv'
  BY <1>0, <1>20, <1>21, <1>22, <1>23 DEF Expire, Fault, CountInv, Locking, ToResub, TypeOK,
     PlaceInv, Slots, IdleCall
<1>3. PlaceInv'
  BY <1>0, <1>20, <1>21, <1>22, <1>23 DEF Expire, Fault, PlaceInv, TypeOK, IdleCall, Threads, Slots
<1>4. LockInv'
  BY <1>0, <1>20, <1>21, <1>22, <1>23 DEF Expire, Fault, LockInv, Holding, TypeOK, IdleCall
<1>5. FreshInv'
  BY <1>0, <1>20, <1>21, <1>22, <1>23 DEF Expire, Fault, FreshInv, TypeOK, OpenInv, Holding,
     Slots, NULL
<1>6. ListInv'
  BY <1>0, <1>20, <1>21, <1>22, <1>23 DEF Expire, Fault, ListInv, ListBounded, TypeOK
<1>7. OwnInv'
  BY <1>0, <1>20, <1>21, <1>22, <1>23 DEF Expire, Fault, OwnInv, Used, TypeOK, OpenInv, Open,
     FreshInv, Slots, NULL, Requests
<1>8. OpenInv'
  BY <1>0, <1>20, <1>21, <1>22, <1>23 DEF Expire, Fault, OpenInv, Open, Holding, OwnInv, Used,
     LockInv, FreshInv, TypeOK, IdleCall, Requests
<1>9. KindInv'
  <2>1. \A u \in Threads : Holding(u)' => Holding(u) /\ call'[u] = call[u]
    BY <1>21 DEF Holding
  <2>2. down' = down /\ \A i \in DOMAIN down : down[i][1] \in Requests
    BY <1>21 DEF TypeOK
  <2> QED
    BY <1>22, <1>25, <2>1, <2>2 DEF KindInv
<1>10. FilterInv'
  BY <1>0, <1>21, <1>22, <1>23 DEF FilterInv, TypeOK
<1>11. FreeInv'
  <2>1. \A k \in Requests : ToCome(k)' <=> ToCome(k)
    BY <1>0, <1>21 DEF ToCome
  <2>2. \A k \in Requests : k # n => (OnTime(k)' <=> OnTime(k))
    BY <1>21 DEF OnTime
  <2>3. faults \subseteq faults'
    BY DEF Expire, Fault
  <2>4. "late_send_failure" \notin faults' =>
            \A u \in Threads : call[u].pc = "remove" => call[u].node \in Requests \ {n}
    BY <1>25 DEF Holding, Expire, Fault
  <2>5. "late_unsuback" \notin faults' /\ info[n].type = "UNSUBSCRIBE" => ~ToCome(n)
    <3>1. ToCome(n) => info[n].node_state = "NORMAL"
      BY <1>21 DEF ToCome, OpenInv, Open, Holding
    <3>2. ToCome(n) => \A u \in Threads : call[u].pc = "remove" => call[u].node # n
      BY DEF ToCome, OpenInv, LockInv, Holding
    <3> QED
      BY <3>1, <3>2, AckToComeIs DEF Expire, Fault
  <2> QED
    BY <1>21, <1>22, <2>1, <2>2, <2>3, <2>4, <2>5 DEF FreeInv
<1>12. SuccessInv'
  BY <1>0, <1>20, <1>21, <1>22, <1>23 DEF Expire, Fault, SuccessInv, OpenInv, Open, OwnInv,
     KindInv, FreshInv, TypeOK, Requests
<1>13. WorkInv'
  BY <1>0, <1>20, <1>21, <1>22, <1>23 DEF Expire, Fault, WorkInv, Used, PlaceInv, TypeOK, Slots
<1>14. TableInv'
  BY <1>0, <1>20, <1>21, <1>22, <1>23 DEF Expire, Fault, TableInv, Excused, ToAsk, Used, FilterIn,
     TypeOK, PlaceInv, IdleCall, Slots
<1>15. GrantInv'
  BY <1>0, <1>20, <1>21, <1>22, <1>23 DEF Expire, Fault, GrantInv, Excused, OpenInv, Open, OwnInv,
     FreshInv, TypeOK
<1>16. AloneInv'
  BY <1>0, <1>20, <1>21, <1>22, <1>23 DEF Expire, Fault, AloneInv, Excused, Unsubscribing, Used,
     FilterIn, TypeOK, IdleCall
<1>17. FreedOnce'
  BY <1>0, <1>20, <1>21, <1>22, <1>23 DEF Expire, Fault, FreedOnce, FreeInv, OwnInv, OpenInv,
     Open, Used, OnTime, TypeOK
<1>18. LeakInv'
  <2>1. "table_full" \in faults => "table_full" \in faults'
    BY DEF Expire, Fault
  <2> QED
    BY <1>21, <1>22, <2>1 DEF LeakInv, Owned, TypeOK
<1>19. NoDuplicateHandlers'
  BY <1>0, <1>20, <1>21, <1>22, <1>23 DEF Expire, Fault, NoDuplicateHandlers, Used, FilterIn,
     OwnInv, FreshInv, TypeOK, Slots
<1> QED
  BY <1>1, <1>2, <1>3, <1>4, <1>5, <1>6, <1>7, <1>8, <1>9, <1>10, <1>11, <1>12, <1>13, <1>14,
     <1>15, <1>16, <1>17, <1>18, <1>19

(* The invariant holds initially.                                            *)
LEMMA InitIInv == Init => IInv
<1> SUFFICES ASSUME Init PROVE IInv
  OBVIOUS
<1> USE DEF Init
<1>1. TypeOK
  <2>1. call \in [Threads -> CallRecs]
    BY DEF CallRecs, IdleCall, NULL
  <2>2. info \in [Requests -> NodeRecs]
    BY DEF NodeRecs, NoInfo, NULL
  <2>3. MaxRequests \in Nat
    BY DEF MaxRequests
  <2>4. up \in Seq(Requests) /\ down \in Seq(Requests \X {"SUBACK", "UNSUBACK"} \X BOOLEAN)
    OBVIOUS
  <2> QED
    BY <2>1, <2>2, <2>3, <2>4 DEF TypeOK, NULL
<1>2. Locking = {} /\ ToResub = 0 /\ Ups = {} /\ Downs = {}
  BY DEF Locking, ToResub, Ups, Downs, IdleCall
<1>3. CountInv
  BY <1>2, FS_EmptySet DEF CountInv
<1>4. \A t \in Threads : call[t].pc = "idle" /\ call[t].type = "SUBSCRIBE"
  BY DEF IdleCall
<1>5. \A i \in Slots : ~Used(i) /\ sub_handles[i].topic_filter = 0
  BY DEF Used, NULL
<1>6. PlaceInv /\ LockInv /\ FreshInv
  BY <1>2, <1>4, <1>5 DEF PlaceInv, LockInv, FreshInv, Holding, Threads
<1>7. ListInv
  BY FS_EmptySet DEF ListInv, ListBounded
<1>8. OwnInv /\ OpenInv /\ KindInv /\ FilterInv
  BY <1>2, <1>4, <1>5 DEF OwnInv, OpenInv, KindInv, FilterInv, Holding
<1>9. FreeInv /\ SuccessInv /\ WorkInv
  BY <1>2, <1>4 DEF FreeInv, SuccessInv, WorkInv, ToCome
<1>10. TableInv /\ GrantInv /\ AloneInv
  BY <1>2, <1>4, <1>5 DEF TableInv, GrantInv, AloneInv, Unsubscribing
<1>11. FreedOnce /\ LeakInv /\ NoDuplicateHandlers
  BY <1>5 DEF FreedOnce, LeakInv, NoDuplicateHandlers
<1> QED
  BY <1>1, <1>3, <1>6, <1>7, <1>8, <1>9, <1>10, <1>11 DEF IInv

(* Every step keeps it.                                                      *)
LEMMA NextIInv == IInv /\ [Next]_vars => IInv'
<1> SUFFICES ASSUME IInv, [Next]_vars PROVE IInv'
  OBVIOUS
<1>1. ASSUME NEW t \in Apps, NEW f \in Filters, Unsubscribe(t, f) PROVE IInv'
  BY <1>1, UnsubscribeStep
<1>2. ASSUME NEW t \in Apps, NEW f \in Filters, NEW h \in Handlers, Subscribe(t, f, h) PROVE IInv'
  BY <1>2, SubscribeStep
<1>3. ASSUME NEW t \in Threads, CallStep(t) PROVE IInv'
  <2>1. CASE LockAndPush(t)
    <3>1. PushFull(t) \/ PushNode(t, requests + 1)
      BY <2>1 DEF LockAndPush
    <3> QED
      BY <2>1, <3>1, PushFullStep, PushNodeStep
  <2> QED
    BY <1>3, <2>1, SendOkStep, SendFailStep, RemoveUnsentStep DEF CallStep
<1>4. ASSUME YieldStep PROVE IInv'
  BY <1>4, HandleSubackStep, HandleUnsubackStep, ReadOtherStep, SubInfoProcStep, DeliverCallStep,
     ResubNextStep, ResubCopyStep DEF YieldStep
<1>5. ASSUME NEW f \in Filters, DeliverFind(f) PROVE IInv'
  BY <1>5, DeliverFindStep
<1>6. ASSUME Disconnect \/ Reconnect \/ ServerHandle PROVE IInv'
  BY <1>6, DisconnectStep, ReconnectStep, ServerHandleStep
<1>7. ASSUME NEW n \in Requests, Expire(n) PROVE IInv'
  BY <1>7, ExpireStep
<1>8. CASE UNCHANGED vars
  <2> USE <1>8 DEF vars, table, list, caller, yield, net, hist
  <2>1. Ups' = Ups /\ Downs' = Downs
    BY DEF Ups, Downs
  <2>2. /\ TypeOK' <=> TypeOK
        /\ CountInv' <=> CountInv
        /\ PlaceInv' <=> PlaceInv
        /\ LockInv' <=> LockInv
    BY DEF TypeOK, CountInv, Locking, ToResub, PlaceInv, LockInv, Holding
  <2>3. /\ FreshInv' <=> FreshInv
        /\ ListInv' <=> ListInv
        /\ OwnInv' <=> OwnInv
        /\ OpenInv' <=> OpenInv
    BY <2>1 DEF FreshInv, ListInv, ListBounded, OwnInv, Used, OpenInv, Open, Holding
  <2>4. /\ KindInv' <=> KindInv
        /\ FilterInv' <=> FilterInv
        /\ FreeInv' <=> FreeInv
        /\ SuccessInv' <=> SuccessInv
    BY <2>1 DEF KindInv, FilterInv, FreeInv, ToCome, OnTime, SuccessInv, Holding
  <2>5. /\ WorkInv' <=> WorkInv
        /\ TableInv' <=> TableInv
        /\ GrantInv' <=> GrantInv
        /\ AloneInv' <=> AloneInv
    BY <2>1 DEF WorkInv, TableInv, GrantInv, AloneInv, Excused, Used, FilterIn, ToAsk, WillHave,
                UnsubscribesAfter, Unsubscribing
  <2>6. /\ FreedOnce' <=> FreedOnce
        /\ LeakInv' <=> LeakInv
        /\ NoDuplicateHandlers' <=> NoDuplicateHandlers
    BY DEF FreedOnce, LeakInv, Owned, NoDuplicateHandlers, Used, FilterIn
  <2> QED
    BY <2>2, <2>3, <2>4, <2>5, <2>6 DEF IInv
<1> QED
  BY <1>1, <1>2, <1>3, <1>4, <1>5, <1>6, <1>7, <1>8 DEF Next

(* IInv is an invariant.                                                     *)
THEOREM Invariance == Spec => []IInv
BY InitIInv, NextIInv, PTL DEF Spec

(* The variables keep their types, so a resubscription asks once per slot,   *)
(* and the wait list of push_sub_info_to keeps its limit.                    *)
THEOREM StaysBounded == Spec => [](TypeOK /\ ListBounded)
<1>1. IInv => TypeOK /\ ListBounded
  BY DEF IInv, ListInv
<1> QED
  BY <1>1, Invariance, PTL

(* Ack handlers, timeout pass, unsubscribe and error paths free a filter     *)
(* copy at most once, but for a late send failure or a late UNSUBACK.        *)
THEOREM FreesOnce == Spec => []FreedOnce
<1>1. IInv => FreedOnce
  BY DEF IInv
<1> QED
  BY <1>1, Invariance, PTL

(* A filter copy that is allocated has an owner, until a grant finds the     *)
(* table of handlers full.                                                   *)
THEOREM LosesNothing == Spec => []NoLeak
<1>1. IInv => NoLeak
  <2> SUFFICES ASSUME IInv, "table_full" \notin faults, NEW n \in heap PROVE n \in Owners
    BY DEF NoLeak
  <2>1. Owned(n) /\ n # NULL
    BY DEF IInv, LeakInv, TypeOK, Requests, NULL
  <2> QED
    BY <2>1 DEF Owned, Owners, Used
<1> QED
  BY <1>1, Invariance, PTL

(* No filter is in the table twice with the same handler.                    *)
THEOREM InstallsOnce == Spec => []NoDuplicateHandlers
<1>1. IInv => NoDuplicateHandlers
  BY DEF IInv
<1> QED
  BY <1>1, Invariance, PTL

(* A granted SUBSCRIBE has no second outcome.                                *)
THEOREM GrantIsFinal == Spec => []SuccessExclusive
<1>1. IInv => SuccessExclusive
  BY DEF IInv, SuccessInv, SuccessExclusive
<1> QED
  BY <1>1, Invariance, PTL

(* When nothing is pending, what qcloud_iot_mqtt_is_sub_ready calls ready is *)
(* subscribed at the server, however many reconnects there were.             *)
THEOREM ReadyAtServer == Spec => []ReadyIsSubscribed
<1>1. IInv => ReadyIsSubscribed
  <2> SUFFICES ASSUME IInv, Quiet, faults \subseteq {"late_unsuback", "table_full"},
                      NEW f \in Filters \ Wildcards, IsSubReady(f)
               PROVE  f \in server
    BY DEF ReadyIsSubscribed
  <2>1. PICK i \in Slots : Used(i) /\ FilterIn(i) = f
    BY DEF IsSubReady, SlotHit
  <2>2. ~ToAsk(i) /\ is_connected /\ ~Excused
    BY DEF Quiet, ToAsk, Excused, Threads
  <2>3. WillHave(f)
    BY <2>1, <2>2 DEF IInv, TableInv
  <2>4. DOMAIN up = {}
    BY DEF Quiet
  <2> QED
    BY <2>3, <2>4 DEF WillHave
<1> QED
  BY <1>1, Invariance, PTL

=============================================================================
