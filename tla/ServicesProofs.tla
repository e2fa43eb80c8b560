---------------------------- MODULE ServicesProofs ----------------------------
(***************************************************************************)
(* Notices, benchmarks, backups and the license, for any numbers of them;  *)
(* and the parts of MCServices, each by itself one of the components, so   *)
(* that what is proved of a component holds of the whole.                  *)
(***************************************************************************)
EXTENDS MCServices, SimulationProofs, FiniteSetTheorems

-----------------------------------------------------------------------------
(* Notices. *)

QueuedTo(x) == {i \in 1 .. Len(queue) : queue[i].to = x}
SendingTo(x) == sending # NoNotice /\ sending.to = x

\* The last notice on its way to x, or else the last one that got there, says how the alert is.
LastWordHolds(x) ==
    /\ \A i \in QueuedTo(x) : (\A j \in QueuedTo(x) : j <= i) => queue[i].says = active
    /\ QueuedTo(x) = {} => IF SendingTo(x) THEN sending.says = active ELSE lastTold[x] = active

\* Whoever tells, tells alone and how the alert is now.
ToldInOrder ==
    /\ retrying = {}
    /\ \A c, d \in Telling : c = d
    /\ \A c \in Telling : caller[c] = active
    /\ Telling = {} => \A x \in Channels : EventOf(active) \in picks[x] => LastWordHolds(x)
    /\ \A x \in Channels : channel[x] = "enabled"

NoticeInv == NoticeTypeOK /\ (troubled = FALSE => ToldInOrder)

\* A finite set as a sequence has each of its elements.
LEMMA SetAsSequence ==
    ASSUME NEW S, IsFiniteSet(S)
    PROVE  /\ SetToSeq(S) \in Seq(S) /\ Len(SetToSeq(S)) = Cardinality(S)
           /\ \A x \in S : \E i \in 1 .. Len(SetToSeq(S)) : SetToSeq(S)[i] = x
<1> DEFINE n == Cardinality(S)
           all == SetToSeq(S)
<1>1. n \in Nat /\ ExistsBijection(1 .. n, S)
  BY FS_CardinalityType
<1>2. \E f \in [1 .. n -> S] : IsInjective(f)
  BY <1>1 DEF ExistsBijection, Bijection, Injection
<1>3. all \in [1 .. n -> S] /\ IsInjective(all)
  BY <1>2 DEF SetToSeq
<1>4. IsFiniteSet(1 .. n) /\ Cardinality(1 .. n) = n
  BY <1>1, FS_Interval
<1>5. all \in Injection(1 .. n, S)
  BY <1>3 DEF Injection
<1>6. all \in Surjection(1 .. n, S)
  BY <1>4, <1>5, FS_Injection
<1> HIDE DEF all, n
<1>7. all \in Seq(S) /\ Len(all) = n
  BY <1>1, <1>3
<1>8. \A x \in S : \E i \in 1 .. n : all[i] = x
  BY <1>6 DEF Surjection
<1> QED  BY <1>7, <1>8 DEF all, n

LEMMA Joined ==
    ASSUME NEW s \in Seq(Notice), NEW t \in Seq(Notice)
    PROVE  /\ s \o t \in Seq(Notice) /\ Len(s \o t) = Len(s) + Len(t)
           /\ \A i \in 1 .. Len(s) : (s \o t)[i] = s[i]
           /\ \A i \in 1 .. Len(t) : (s \o t)[Len(s) + i] = t[i]
<1>1. s \o t \in Seq(Notice) /\ Len(s \o t) = Len(s) + Len(t) /\ Len(s) \in Nat /\ Len(t) \in Nat
  OBVIOUS
<1>2. \A i \in 1 .. Len(s) + Len(t) : (s \o t)[i] = IF i <= Len(s) THEN s[i] ELSE t[i - Len(s)]
  OBVIOUS
<1>3. \A i \in 1 .. Len(s) : (s \o t)[i] = s[i]
  BY <1>1, <1>2
<1>4. ASSUME NEW i \in 1 .. Len(t) PROVE (s \o t)[Len(s) + i] = t[i]
  <2>1. Len(s) + i \in 1 .. Len(s) + Len(t) /\ ~(Len(s) + i <= Len(s)) /\ (Len(s) + i) - Len(s) = i
    BY <1>1
  <2> QED  BY <1>2, <2>1
<1> QED  BY <1>1, <1>3, <1>4

LEMMA TypedNotice ==
    ASSUME NoticeTypeOK
    PROVE  /\ MaxQueue \in Nat /\ Len(queue) \in Nat /\ made \in Nat /\ NoNotice.id = 0
           /\ \A n \in Notice : n.id # 0 /\ n.to \in Channels /\ n.says \in Said /\ n.attempt \in 0 .. Retries
           /\ \A n \in Notice : n # NoNotice
           /\ \A i \in 1 .. Len(queue) : queue[i] \in Notice
<1>1. /\ MaxQueue \in Nat /\ Len(queue) \in Nat /\ made \in Nat
      /\ \A i \in 1 .. Len(queue) : queue[i] \in Notice
  BY QueueHolds, MaxNoticesType DEF NoticeTypeOK
<1>2. \A n \in Notice : n.id # 0 /\ n.to \in Channels /\ n.says \in Said /\ n.attempt \in 0 .. Retries
  BY MaxNoticesType DEF Notice
<1>3. NoNotice.id = 0
  BY DEF NoNotice
<1> QED  BY <1>1, <1>2, <1>3

\* Of a step after which nothing is known of the notices, only the types matter.
LEMMA TroubledKeeps == ASSUME NoticeTypeOK', troubled' = TRUE PROVE NoticeInv'
BY DEF NoticeInv

LEMMA ChecksKeep == ASSUME NoticeInv, NEW c \in Callers, Check(c) PROVE NoticeInv'
<1> USE DEF NoticeInv
<1>1. /\ active \in Said /\ caller \in [Callers -> Said \cup {Nothing}] /\ troubled \in BOOLEAN
      /\ \A d \in Telling : d \in Callers
  BY DEF NoticeTypeOK, Telling
<1>2. Nothing \notin Said
  BY DEF Nothing, Said, Severities
<1>3. ASSUME NEW s \in Said, caller[c] = Nothing, active' = s, caller' = [caller EXCEPT ![c] = s],
             troubled' = (troubled \/ Crowded(c)), UNCHANGED <<channel, picks, delivery, made, lastTold>>
      PROVE  NoticeInv'
  <2>1. troubled' \in BOOLEAN /\ (troubled' = FALSE => troubled = FALSE /\ Telling \ {c} = {})
    BY <1>1, <1>3, Zenon DEF Crowded
  <2>2. NoticeTypeOK'
    <3>1. caller' \in [Callers -> Said \cup {Nothing}]
      BY <1>1, <1>3
    <3> QED  BY <1>3, <2>1, <3>1 DEF NoticeTypeOK, delivery
  <2>3. ASSUME troubled' = FALSE PROVE ToldInOrder'
    <3>1. Telling' = {c} /\ caller'[c] = s
      BY <1>1, <1>2, <1>3, <2>1, <2>3 DEF Telling
    <3>2. retrying' = {}
      BY <1>3, <2>1, <2>3 DEF ToldInOrder, delivery
    <3>3. \A x \in Channels : channel'[x] = "enabled"
      BY <1>3, <2>1, <2>3 DEF ToldInOrder
    <3> QED  BY <1>3, <3>1, <3>2, <3>3 DEF ToldInOrder
  <2> QED  BY <2>2, <2>3
<1>4. ASSUME NEW s \in Severities, Fire(c, s) PROVE NoticeInv'
  <2>1. CASE IsNews(s)
    BY <1>3, <1>4, <2>1 DEF Fire, Said
  <2>2. CASE ~IsNews(s)
    <3>1. UNCHANGED noticeVars
      BY <1>4, <2>2 DEF Fire, IsNews, noticeVars, delivery
    <3> QED  BY <3>1 DEF noticeVars, NoticeTypeOK, ToldInOrder, Telling, LastWordHolds, QueuedTo, SendingTo
  <2> QED  BY <2>1, <2>2
<1>5. ASSUME Clear(c) PROVE NoticeInv'
  BY <1>3, <1>5 DEF Clear, Said
<1> QED  BY <1>4, <1>5 DEF Check

\* The notices of one change, for the channels that want them.
LEMMA EmitKeeps == ASSUME NoticeInv, NEW c \in Callers, Emit(c) PROVE NoticeInv'
<1> DEFINE wanting == {x \in Channels : channel[x] = "enabled" /\ EventOf(caller[c]) \in picks[x]}
           notice == [x \in wanting |-> [id |-> made + 1, to |-> x, says |-> caller[c], attempt |-> 0]]
           set == {[id |-> made + 1, to |-> x, says |-> caller[c], attempt |-> 0] : x \in wanting}
           all == SetToSeq(set)
           room == MaxQueue - Len(queue)
           n == IF Len(all) < room THEN Len(all) ELSE room
<1> USE DEF NoticeInv
<1>1. /\ caller[c] # Nothing /\ made < MaxNotices /\ made' = made + 1
      /\ queue' = queue \o SubSeq(all, 1, n)
      /\ caller' = [caller EXCEPT ![c] = Nothing]
      /\ UNCHANGED <<active, channel, picks, sending, retrying, lastTold>>
  BY DEF Emit
<1>2. troubled' = (troubled \/ Len(all) > room)
  BY DEF Emit
<1>3. IsFiniteSet(set)
  <2>1. IsFiniteSet(wanting)
    BY ChannelsFinite, FS_Subset
  <2>2. notice \in Surjection(wanting, set)
    BY DEF Surjection
  <2> QED  BY <2>1, <2>2, FS_Surjection
<1>4. set \subseteq Notice
  <2>1. caller[c] \in Said /\ made + 1 \in 1 .. MaxNotices /\ 0 \in 0 .. Retries
    BY <1>1, TypedNotice, MaxNoticesType, RetriesType DEF NoticeTypeOK
  <2> QED  BY <2>1 DEF Notice
<1>5. \A e \in set : e.says = caller[c]
  OBVIOUS
<1>6. \A x \in wanting : \E e \in set : e.to = x
  <2> SUFFICES ASSUME NEW x \in wanting
               PROVE  [id |-> made + 1, to |-> x, says |-> caller[c], attempt |-> 0] \in set
    OBVIOUS
  <2> QED  OBVIOUS
<1> HIDE DEF set
<1>7. /\ all \in Seq(set) /\ Len(all) \in Nat
      /\ \A e \in set : \E i \in 1 .. Len(all) : all[i] = e
  BY <1>3, SetAsSequence
<1>8. all \in Seq(Notice) /\ \A i \in 1 .. Len(all) : all[i] \in set
  <2>1. \A i \in 1 .. Len(all) : all[i] \in set
    BY <1>7
  <2> QED  BY <1>4, <1>7, <2>1
<1> HIDE DEF all
<1>9. Len(queue) \in Nat /\ Len(queue) <= MaxQueue /\ MaxQueue \in Nat /\ queue \in Seq(Notice) /\ made \in Nat
  BY TypedNotice DEF NoticeTypeOK
<1>10. n \in 0 .. Len(all) /\ n <= room /\ (Len(all) <= room => n = Len(all))
  BY <1>7, <1>9
<1> HIDE DEF n
<1>11. SubSeq(all, 1, n) \in Seq(Notice) /\ Len(SubSeq(all, 1, n)) = n
       /\ \A i \in 1 .. n : SubSeq(all, 1, n)[i] = all[i]
  <2>1. all \in Seq(Notice) /\ n \in Nat /\ n <= Len(all)
    BY <1>7, <1>8, <1>10
  <2> HIDE DEF set, room
  <2>2. \A s \in Seq(Notice), k \in Nat : k <= Len(s) =>
           SubSeq(s, 1, k) \in Seq(Notice) /\ Len(SubSeq(s, 1, k)) = k /\ \A i \in 1 .. k : SubSeq(s, 1, k)[i] = s[i]
    OBVIOUS
  <2> QED  BY <2>1, <2>2
<1>12. /\ queue' \in Seq(Notice) /\ Len(queue') = Len(queue) + n
       /\ \A i \in 1 .. Len(queue) : queue'[i] = queue[i]
       /\ \A i \in 1 .. n : queue'[Len(queue) + i] = all[i]
  <2> DEFINE some == SubSeq(all, 1, n)
  <2>1. some \in Seq(Notice) /\ Len(some) = n /\ \A i \in 1 .. n : some[i] = all[i]
    BY <1>11
  <2>2. queue' = queue \o some
    BY <1>1
  <2> HIDE DEF some
  <2>3. queue \in Seq(Notice)
    BY <1>9
  <2>4. /\ queue \o some \in Seq(Notice) /\ Len(queue \o some) = Len(queue) + Len(some)
        /\ \A i \in 1 .. Len(queue) : (queue \o some)[i] = queue[i]
        /\ \A i \in 1 .. Len(some) : (queue \o some)[Len(queue) + i] = some[i]
    BY <2>1, <2>3, Joined, Zenon
  <2> QED  BY <2>1, <2>2, <2>4, Zenon
<1>13. troubled' \in BOOLEAN /\ (troubled' = FALSE => troubled = FALSE /\ ~(Len(all) > room))
  <2>1. troubled \in BOOLEAN
    BY DEF NoticeTypeOK
  <2> HIDE DEF wanting, room
  <2> QED  BY <1>2, <2>1, Zenon
<1>14. NoticeTypeOK'
  <2>1. made' \in 0 .. MaxNotices
    BY <1>1, <1>9, MaxNoticesType
  <2>2. caller' \in [Callers -> Said \cup {Nothing}]
    BY <1>1 DEF NoticeTypeOK
  <2>3. Len(queue') <= MaxQueue
    BY <1>9, <1>10, <1>12
  <2> QED  BY <1>1, <1>12, <1>13, <2>1, <2>2, <2>3 DEF NoticeTypeOK
<1>15. ASSUME troubled' = FALSE PROVE ToldInOrder'
  <2>1. ToldInOrder /\ n = Len(all)
    BY <1>7, <1>9, <1>10, <1>13, <1>15
  <2>2. c \in Telling /\ caller[c] = active /\ Telling = {c}
    BY <1>1, <2>1 DEF ToldInOrder, Telling
  <2>3. Telling' = {}
    BY <1>1, <2>2 DEF Telling, NoticeTypeOK
  <2>4. ASSUME NEW x \in Channels, EventOf(active) \in picks[x] PROVE LastWordHolds(x)'
    <3>1. PICK k \in 1 .. n : all[k].to = x
      <4>2. x \in wanting
        BY <2>1, <2>2, <2>4 DEF ToldInOrder
      <4>1. PICK e \in set : e.to = x
        BY <1>6, <4>2
      <4> QED  BY <1>7, <2>1, <4>1
    <3>2. Len(queue) + k \in QueuedTo(x)'
      BY <1>9, <1>10, <1>12, <3>1 DEF QueuedTo
    <3>3. ASSUME NEW i \in QueuedTo(x)', \A j \in QueuedTo(x)' : j <= i PROVE queue'[i].says = active
      <4>1. Len(queue) + k <= i /\ i \in 1 .. Len(queue) + n
        BY <1>12, <3>2, <3>3 DEF QueuedTo
      <4>2. i - Len(queue) \in 1 .. n /\ i = Len(queue) + (i - Len(queue))
        BY <1>9, <1>10, <4>1
      <4>3. queue'[i] = all[i - Len(queue)]
        BY <1>12, <4>2
      <4>4. all[i - Len(queue)] \in set
        BY <1>8, <2>1, <4>2
      <4> QED  BY <1>5, <2>2, <4>3, <4>4
    <3> QED  BY <1>1, <3>2, <3>3 DEF LastWordHolds
  <2> QED  BY <1>1, <2>1, <2>3, <2>4 DEF ToldInOrder
<1> QED  BY <1>14, <1>15

LEMMA TakeKeeps == ASSUME NoticeInv, Take PROVE NoticeInv'
<1> USE DEF NoticeInv
<1>1. /\ sending = NoNotice /\ sending' = Head(queue) /\ queue' = Tail(queue) /\ queue # <<>>
      /\ UNCHANGED <<active, caller, channel, picks, retrying, made, lastTold, troubled>>
  BY DEF Take
<1>2. queue \in Seq(Notice) /\ Len(queue) \in Nat /\ Len(queue) <= MaxQueue /\ MaxQueue \in Nat
  BY TypedNotice DEF NoticeTypeOK
<1>3. /\ sending' = queue[1] /\ queue[1] \in Notice /\ queue' \in Seq(Notice) /\ Len(queue') = Len(queue) - 1
      /\ Len(queue) > 0 /\ \A i \in 1 .. Len(queue) - 1 : queue'[i] = queue[i + 1]
  BY <1>1, <1>2
<1>4. NoticeTypeOK'
  BY <1>1, <1>2, <1>3 DEF NoticeTypeOK
<1>5. ASSUME NEW x \in Channels, LastWordHolds(x) PROVE LastWordHolds(x)'
  <2>1. \A i : i \in QueuedTo(x)' <=> i + 1 \in QueuedTo(x) /\ i \in 1 .. Len(queue) - 1
    BY <1>2, <1>3 DEF QueuedTo
  <2>2. \A i \in QueuedTo(x)' : queue'[i] = queue[i + 1] /\ i \in Nat
    BY <1>2, <1>3 DEF QueuedTo
  <2>3. ASSUME NEW i \in QueuedTo(x)', \A j \in QueuedTo(x)' : j <= i PROVE queue'[i].says = active
    <3>1. i + 1 \in QueuedTo(x) /\ i \in Nat /\ i >= 1
      BY <1>2, <2>1, <2>2
    <3>2. ASSUME NEW j \in QueuedTo(x) PROVE j <= i + 1
      <4>1. j \in 1 .. Len(queue)
        BY DEF QueuedTo
      <4>2. CASE j = 1
        BY <3>1, <4>2
      <4>3. CASE j # 1
        <5>1. j - 1 \in 1 .. Len(queue) - 1 /\ (j - 1) + 1 = j
          BY <1>2, <4>1, <4>3
        <5>2. j - 1 \in QueuedTo(x)'
          BY <2>1, <5>1
        <5> QED  BY <2>3, <3>1, <4>1, <5>2
      <4> QED  BY <4>2, <4>3
    <3> QED  BY <1>5, <2>2, <3>1, <3>2 DEF LastWordHolds
  <2>4. ASSUME QueuedTo(x)' = {} PROVE IF SendingTo(x)' THEN sending'.says = active ELSE lastTold[x] = active
    <3>1. \A i \in QueuedTo(x) : i = 1
      <4> SUFFICES ASSUME NEW i \in QueuedTo(x), i # 1 PROVE FALSE
        OBVIOUS
      <4>1. i \in 1 .. Len(queue)
        BY DEF QueuedTo
      <4>2. i - 1 \in 1 .. Len(queue) - 1 /\ (i - 1) + 1 = i
        BY <1>2, <4>1
      <4> QED  BY <2>1, <2>4, <4>2
    <3>2. CASE queue[1].to = x
      <4>1. 1 \in QueuedTo(x)
        BY <1>2, <1>3, <3>2 DEF QueuedTo
      <4>2. queue[1].says = active
        BY <1>5, <3>1, <4>1 DEF LastWordHolds
      <4> QED  BY <1>3, <3>2, <4>2, TypedNotice DEF SendingTo
    <3>3. CASE queue[1].to # x
      <4>1. QueuedTo(x) = {}
        BY <3>1, <3>3 DEF QueuedTo
      <4> QED  BY <1>1, <1>3, <1>5, <3>3, <4>1 DEF LastWordHolds, SendingTo
    <3> QED  BY <3>2, <3>3
  <2> QED  BY <1>1, <2>3, <2>4 DEF LastWordHolds
<1>6. ASSUME troubled = FALSE PROVE ToldInOrder'
  <2>1. Telling' = Telling
    BY <1>1 DEF Telling
  <2> QED  BY <1>1, <1>5, <1>6, <2>1 DEF ToldInOrder
<1> QED  BY <1>1, <1>4, <1>6

LEMMA DeliverKeeps == ASSUME NoticeInv, Deliver PROVE NoticeInv'
<1> USE DEF NoticeInv
<1>1. /\ sending # NoNotice /\ sending' = NoNotice /\ lastTold' = [lastTold EXCEPT ![sending.to] = sending.says]
      /\ UNCHANGED <<active, caller, channel, picks, queue, retrying, made, troubled>>
  BY DEF Deliver, Send
<1>2. sending.to \in Channels /\ sending.says \in Said /\ lastTold \in [Channels -> Said]
  BY <1>1, TypedNotice DEF NoticeTypeOK
<1>3. \A x \in Channels : lastTold'[x] = IF x = sending.to THEN sending.says ELSE lastTold[x]
  BY <1>1, <1>2
<1>4. NoticeTypeOK'
  BY <1>1, <1>2 DEF NoticeTypeOK
<1>5. \A x \in Channels : LastWordHolds(x) => LastWordHolds(x)'
  BY <1>1, <1>3 DEF LastWordHolds, QueuedTo, SendingTo
<1>6. troubled = FALSE => ToldInOrder'
  BY <1>1, <1>5 DEF ToldInOrder, Telling
<1> QED  BY <1>1, <1>4, <1>6

\* What goes wrong is known as trouble.
LEMMA TroubleKeeps ==
    ASSUME NoticeInv, Skip \/ DeliveryFails \/ Restarts \/ ChannelNext \/ \E c \in Callers : EmitFails(c)
    PROVE  NoticeInv'
<1> USE DEF NoticeInv
<1>0. MaxQueue \in Nat /\ queue \in Seq(Notice) /\ Len(queue) <= MaxQueue
  BY TypedNotice DEF NoticeTypeOK
<1>1. ASSUME Skip PROVE NoticeInv'
  <2>1. Tail(queue) \in Seq(Notice) /\ Len(Tail(queue)) <= MaxQueue
    BY <1>0, <1>1 DEF Skip
  <2>2. NoticeTypeOK'
    BY <1>1, <2>1 DEF Skip, NoticeTypeOK
  <2> QED  BY <1>1, <2>2, TroubledKeeps DEF Skip
<1>2. ASSUME DeliveryFails PROVE NoticeInv'
  <2>1. sending.attempt < Retries => [sending EXCEPT !.attempt = @ + 1] \in Notice
    <3>1. sending \in Notice
      BY <1>2 DEF DeliveryFails, NoticeTypeOK
    <3>2. sending.attempt < Retries => sending.attempt + 1 \in 0 .. Retries
      BY <3>1, TypedNotice, RetriesType
    <3> QED  BY <3>1, <3>2 DEF Notice
  <2>2. NoticeTypeOK'
    BY <1>2, <2>1 DEF DeliveryFails, NoticeTypeOK
  <2> QED  BY <1>2, <2>2, TroubledKeeps DEF DeliveryFails
<1>3. ASSUME Restarts PROVE NoticeInv'
  <2>1. queue' \in Seq(Notice) /\ Len(queue') <= MaxQueue
    BY <1>0, <1>3 DEF Restarts
  <2>2. caller' \in [Callers -> Said \cup {Nothing}] /\ active' \in Said
    BY <1>3 DEF Restarts, Said
  <2>3. NoticeTypeOK'
    BY <1>3, <2>1, <2>2 DEF Restarts, NoticeTypeOK
  <2> QED  BY <1>3, <2>3, TroubledKeeps DEF Restarts
<1>4. ASSUME NEW x \in Channels, NEW state \in {"missing", "disabled", "enabled"}, NEW events \in SUBSET Events,
             SetChannel(x, state, events)
      PROVE  NoticeInv'
  <2>1. NoticeTypeOK'
    <3>1. channel' \in [Channels -> {"missing", "disabled", "enabled"}]
      BY <1>4 DEF SetChannel, NoticeTypeOK
    <3>2. picks' \in [Channels -> SUBSET Events]
      BY <1>4 DEF SetChannel, NoticeTypeOK
    <3> QED  BY <1>4, <3>1, <3>2 DEF SetChannel, NoticeTypeOK, delivery
  <2> QED  BY <1>4, <2>1, TroubledKeeps DEF SetChannel
<1>5. ASSUME ChannelNext PROVE NoticeInv'
  <2>1. {} \in SUBSET Events
    OBVIOUS
  <2>2. ASSUME NEW x \in Channels, StoreChannel(x) PROVE NoticeInv'
    BY <1>4, <2>1, <2>2 DEF StoreChannel
  <2>3. ASSUME NEW x \in Channels, DeleteChannel(x) PROVE NoticeInv'
    BY <1>4, <2>1, <2>3 DEF DeleteChannel
  <2> QED  BY <1>5, <2>2, <2>3 DEF ChannelNext, CreateChannel, UpdateChannel
<1>6. ASSUME NEW c \in Callers, EmitFails(c) PROVE NoticeInv'
  <2>1. NoticeTypeOK'
    BY <1>6 DEF EmitFails, NoticeTypeOK, delivery
  <2> QED  BY <1>6, <2>1, TroubledKeeps DEF EmitFails
<1> QED  BY <1>1, <1>2, <1>3, <1>5, <1>6

\* A notice that waits to be tried again is trouble already.
LEMMA RetryKeeps == ASSUME NoticeInv, NEW n \in retrying, Retry(n) PROVE NoticeInv'
<1> USE DEF NoticeInv
<1>1. n \in Notice /\ queue \in Seq(Notice) /\ Len(queue) \in Nat /\ MaxQueue \in Nat
  BY TypedNotice DEF NoticeTypeOK
<1>2. NoticeTypeOK'
  <2>1. queue' \in Seq(Notice) /\ Len(queue') <= MaxQueue
    BY <1>1 DEF Retry
  <2> QED  BY <2>1 DEF Retry, NoticeTypeOK
<1>3. troubled' = FALSE => FALSE
  BY DEF Retry, ToldInOrder
<1> QED  BY <1>2, <1>3

LEMMA NoticeStart == NoticeInit => NoticeInv
<1> SUFFICES ASSUME NoticeInit PROVE NoticeInv
  OBVIOUS
<1>1. queue \in Seq(Notice) /\ Len(queue) = 0 /\ \A x \in Channels : QueuedTo(x) = {}
  BY DEF NoticeInit, QueuedTo
<1>2. NoticeTypeOK
  <2>1. active \in Said /\ caller \in [Callers -> Said \cup {Nothing}] /\ lastTold \in [Channels -> Said]
    BY DEF NoticeInit, Said
  <2>2. channel \in [Channels -> {"missing", "disabled", "enabled"}]
    BY DEF NoticeInit
  <2>3. Len(queue) <= MaxQueue /\ made \in 0 .. MaxNotices
    BY <1>1, QueueHolds, MaxNoticesType DEF NoticeInit
  <2> QED  BY <1>1, <2>1, <2>2, <2>3 DEF NoticeInit, NoticeTypeOK
<1>3. Telling = {}
  BY DEF NoticeInit, Telling
<1>4. \A x \in Channels : LastWordHolds(x)
  BY <1>1 DEF NoticeInit, LastWordHolds, SendingTo
<1>5. ToldInOrder
  BY <1>3, <1>4 DEF NoticeInit, ToldInOrder
<1> QED  BY <1>2, <1>5 DEF NoticeInv

LEMMA NoticeStep == NoticeInv /\ [NoticeNext]_noticeVars => NoticeInv'
<1> SUFFICES ASSUME NoticeInv, [NoticeNext]_noticeVars PROVE NoticeInv'
  OBVIOUS
<1>1. ASSUME AlertNext PROVE NoticeInv'
  BY <1>1, ChecksKeep, EmitKeeps, TroubleKeeps DEF AlertNext
<1>2. ASSUME DispatchNext PROVE NoticeInv'
  BY <1>2, TakeKeeps, DeliverKeeps, TroubleKeeps DEF DispatchNext
<1>3. ASSUME UNCHANGED noticeVars PROVE NoticeInv'
  BY <1>3 DEF noticeVars, NoticeInv, NoticeTypeOK, ToldInOrder, Telling, LastWordHolds, QueuedTo, SendingTo
<1> QED  BY <1>1, <1>2, <1>3, TroubleKeeps, RetryKeeps DEF NoticeNext

\* When all notices are delivered, every channel that gets the event was last told how the alert is, for any
\* number of channels and threads and any length of the queue, unless there was trouble
\* (AlertManager.fire and clear, _Dispatcher.submit and _run).
THEOREM LastNotice == NoticeSpec => []LastNoticeHolds
<1>1. NoticeInv => LastNoticeHolds
  <2> SUFFICES ASSUME NoticeInv, ~troubled, Telling = {}, queue = <<>>, sending = NoNotice, NEW x \in Channels,
                      EventOf(active) \in picks[x]
               PROVE  lastTold[x] = active
    BY DEF LastNoticeHolds
  <2>1. troubled = FALSE
    BY Zenon DEF NoticeInv, NoticeTypeOK
  <2>2. QueuedTo(x) = {} /\ ~SendingTo(x)
    BY DEF QueuedTo, SendingTo
  <2> QED  BY <2>1, <2>2 DEF NoticeInv, ToldInOrder, LastWordHolds
<1> QED  BY <1>1, NoticeStart, NoticeStep, PTL DEF NoticeSpec

-----------------------------------------------------------------------------
(* Benchmarks. *)

\* What is in memory is of a benchmark shown as running; a task that has not begun is of one
\* that has no row yet; what is announced is what is shown.
RowsAgree == \A b \in Benchmarks :
    /\ memory[b] # None => row[b] = "running"
    /\ task[b] = Waiting => row[b] = None
    /\ task[b] >= 0 => memory[b] \in {"running", "stopped"}
    /\ published[b] \in {None, row[b]}

\* Nothing sets the status of a benchmark asked to stop before its phase is over.
StopStays == \A b \in asked :
    /\ row[b] \notin {None, "completed"}
    /\ task[b] >= 0 => memory[b] = "stopped"

DownBelow == runs = FALSE => starts < MaxStarts

BenchmarkInv == BenchmarkTypeOK /\ DownBelow /\ RowsAgree /\ StopStays

\* What a step does with b: nobody but its task ends it, and only a stop puts it among those asked.
LEMMA TaskKeeps ==
    ASSUME BenchmarkInv, NEW b \in Benchmarks, UNCHANGED <<serverRuns, asked>>,
           NEW t \in NoTask .. Phases - 1, NEW r \in Ended \cup {None, "running"},
           NEW m \in Ended \cup {None, "running", "stopped"}, NEW d \in Ended \cup {None},
           task' = [task EXCEPT ![b] = t], row' = [row EXCEPT ![b] = r], memory' = [memory EXCEPT ![b] = m],
           published' = [published EXCEPT ![b] = d], unsaved' \in SUBSET Benchmarks,
           m # None => r = "running", t # Waiting, t >= 0 => m \in {"running", "stopped"}, d \in {None, r},
           b \in asked => r \notin {None, "completed"} /\ (t >= 0 => m = "stopped")
    PROVE  BenchmarkInv'
<1> USE DEF BenchmarkInv
<1>1. BenchmarkTypeOK'
  BY DEF BenchmarkTypeOK, serverRuns
<1>2. \A x \in Benchmarks : /\ task'[x] = IF x = b THEN t ELSE task[x]
                            /\ row'[x] = IF x = b THEN r ELSE row[x]
                            /\ memory'[x] = IF x = b THEN m ELSE memory[x]
                            /\ published'[x] = IF x = b THEN d ELSE published[x]
  BY DEF BenchmarkTypeOK
<1>3. RowsAgree'
  BY <1>2 DEF RowsAgree
<1>4. StopStays'
  BY <1>2 DEF StopStays, BenchmarkTypeOK
<1> QED  BY <1>1, <1>3, <1>4 DEF DownBelow, serverRuns

\* A task has its benchmark shown as running or not at all.
LEMMA TaskIsOfRow ==
    ASSUME BenchmarkInv, NEW b \in Benchmarks, task[b] # NoTask
    PROVE  row[b] \in {None, "running"} /\ published[b] = None
<1>1. task[b] \in NoTask .. Phases - 1 /\ published[b] \in Ended \cup {None}
  BY DEF BenchmarkInv, BenchmarkTypeOK
<1>2. task[b] = Waiting \/ task[b] >= 0
  BY <1>1, PhasesType DEF NoTask, Waiting
<1>3. row[b] \in {None, "running"}
  BY <1>2 DEF BenchmarkInv, RowsAgree, None
<1> QED  BY <1>1, <1>3 DEF BenchmarkInv, RowsAgree, Ended, None

LEMMA FinishKeeps ==
    ASSUME BenchmarkInv, NEW b \in Benchmarks, task[b] # NoTask, NEW s \in Ended, Finish(b, s),
           UNCHANGED <<serverRuns, asked>>, b \in asked => s # "completed"
    PROVE  BenchmarkInv'
<1> USE DEF BenchmarkInv
<1>1. task' = [task EXCEPT ![b] = NoTask] /\ NoTask \in NoTask .. Phases - 1 /\ NoTask # Waiting /\ ~(NoTask >= 0)
  BY PhasesType DEF Finish, NoTask, Waiting
<1>2. CASE row' = [row EXCEPT ![b] = s] /\ memory' = [memory EXCEPT ![b] = None]
           /\ published' = [published EXCEPT ![b] = s] /\ UNCHANGED unsaved
  <2>1. s # None /\ unsaved' \in SUBSET Benchmarks
    BY <1>2 DEF Ended, None, BenchmarkTypeOK
  <2> QED  BY <1>1, <1>2, <2>1, TaskKeeps
<1>3. CASE unsaved' = unsaved \cup {b} /\ row' = [row EXCEPT ![b] = "running"]
           /\ memory' = [memory EXCEPT ![b] = s] /\ UNCHANGED published
  <2>1. published[b] = None
    BY TaskIsOfRow
  <2>2. published' = [published EXCEPT ![b] = None] /\ unsaved' \in SUBSET Benchmarks
    BY <1>3, <2>1 DEF BenchmarkTypeOK
  <2> QED  BY <1>1, <1>3, <2>2, TaskKeeps DEF Ended, None
<1> QED  BY <1>2, <1>3 DEF Finish

LEMMA PhasesKeep ==
    ASSUME BenchmarkInv, NEW b \in Benchmarks, task[b] # NoTask, b \notin asked, NEW p \in Nat,
           PhasesFrom(b, p), UNCHANGED <<serverRuns, asked>>
    PROVE  BenchmarkInv'
<1> USE DEF BenchmarkInv
<1>1. ASSUME NEW q \in p .. Phases - 1, Enter(b, q) PROVE BenchmarkInv'
  <2>1. q \in NoTask .. Phases - 1 /\ q >= 0 /\ q # Waiting
    BY <1>1, PhasesType DEF NoTask, Waiting
  <2>3. published[b] = None
    BY TaskIsOfRow
  <2>4. published' = [published EXCEPT ![b] = None] /\ unsaved' \in SUBSET Benchmarks
    BY <1>1, <2>3 DEF Enter, BenchmarkTypeOK
  <2> QED  BY <1>1, <2>1, <2>4, TaskKeeps DEF Enter, Ended, None
<1>2. ASSUME NEW s \in Ended, Finish(b, s) PROVE BenchmarkInv'
  BY <1>2, FinishKeeps
<1> QED  BY <1>1, <1>2 DEF PhasesFrom, Ended

LEMMA TaskStep == ASSUME BenchmarkInv, NEW b \in Benchmarks, TaskNext(b) PROVE BenchmarkInv'
<1> USE DEF BenchmarkInv
<1>1. /\ task[b] \in NoTask .. Phases - 1
      /\ task[b] = Waiting => task[b] # NoTask /\ b \notin asked
      /\ task[b] >= 0 => task[b] # NoTask /\ task[b] + 1 \in Nat
  BY PhasesType DEF BenchmarkTypeOK, RowsAgree, StopStays, NoTask, Waiting
<1>2. ASSUME Begin(b) PROVE BenchmarkInv'
  BY <1>1, <1>2, PhasesKeep DEF Begin
<1>3. ASSUME BeginFails(b) PROVE BenchmarkInv'
  <2>1. /\ task' = [task EXCEPT ![b] = NoTask]
        /\ row' = [row EXCEPT ![b] = row[b]] /\ memory' = [memory EXCEPT ![b] = memory[b]]
        /\ published' = [published EXCEPT ![b] = published[b]] /\ UNCHANGED <<serverRuns, asked, unsaved>>
    BY <1>3 DEF BeginFails, BenchmarkTypeOK, outcomes
  <2>2. NoTask \in NoTask .. Phases - 1 /\ NoTask # Waiting /\ ~(NoTask >= 0)
    BY PhasesType DEF NoTask, Waiting
  <2>3. /\ memory[b] # None => row[b] = "running"
        /\ published[b] \in {None, row[b]} /\ b \notin asked
    BY <1>1, <1>3 DEF RowsAgree, BeginFails
  <2>4. /\ row[b] \in Ended \cup {None, "running"} /\ memory[b] \in Ended \cup {None, "running", "stopped"}
        /\ published[b] \in Ended \cup {None} /\ unsaved' \in SUBSET Benchmarks
    BY <2>1 DEF BenchmarkTypeOK
  <2> QED  BY <2>1, <2>2, <2>3, <2>4, TaskKeeps
<1>4. ASSUME PhaseOver(b) PROVE BenchmarkInv'
  <2>1. CASE memory[b] = "stopped"
    BY <1>1, <1>4, <2>1, FinishKeeps DEF PhaseOver, Ended
  <2>2. CASE memory[b] # "stopped"
    BY <1>1, <1>4, <2>2, PhasesKeep DEF PhaseOver, StopStays
  <2> QED  BY <2>1, <2>2
<1>5. ASSUME SampleRaises(b) PROVE BenchmarkInv'
  BY <1>1, <1>5, FinishKeeps DEF SampleRaises, Ended
<1> QED  BY <1>2, <1>3, <1>4, <1>5 DEF TaskNext

LEMMA RequestsKeep == ASSUME BenchmarkInv, BenchmarkRequests \/ Down \/ Up PROVE BenchmarkInv'
<1> USE DEF BenchmarkInv, Ended, None, NoTask, Waiting, serverRuns, outcomes
<1>1. /\ runs \in BOOLEAN /\ starts \in 1 .. MaxStarts
      /\ row \in [Benchmarks -> Ended \cup {None, "running"}]
      /\ memory \in [Benchmarks -> Ended \cup {None, "running", "stopped"}]
      /\ task \in [Benchmarks -> NoTask .. Phases - 1]
      /\ published \in [Benchmarks -> Ended \cup {None}]
      /\ {asked, unsaved} \subseteq SUBSET Benchmarks
  BY DEF BenchmarkTypeOK
<1>2. ASSUME NEW b \in Benchmarks, StartBenchmark(b) PROVE BenchmarkInv'
  <2>1. \A x \in Benchmarks : task'[x] = IF x = b THEN Waiting ELSE task[x]
    BY <1>1, <1>2 DEF StartBenchmark
  <2>2. BenchmarkTypeOK'
    BY <1>1, <1>2, PhasesType DEF StartBenchmark, BenchmarkTypeOK
  <2>3. RowsAgree'
    BY <1>2, <2>1 DEF StartBenchmark, RowsAgree
  <2>4. StopStays'
    BY <1>1, <1>2, <2>1 DEF StartBenchmark, StopStays
  <2> QED  BY <1>2, <2>2, <2>3, <2>4 DEF StartBenchmark, DownBelow
<1>3. ASSUME NEW b \in Benchmarks, StopBenchmark(b) PROVE BenchmarkInv'
  <2>1. CASE memory[b] # None
    <3>1. /\ row[b] = "running"
          /\ \A x \in Benchmarks : memory'[x] = IF x = b THEN "stopped" ELSE memory[x]
      BY <1>1, <1>3, <2>1 DEF StopBenchmark, RowsAgree
    <3>2. BenchmarkTypeOK'
      BY <1>1, <1>3, <2>1 DEF StopBenchmark, BenchmarkTypeOK
    <3>3. RowsAgree'
      BY <1>3, <2>1, <3>1 DEF StopBenchmark, RowsAgree
    <3>4. StopStays'
      BY <1>1, <1>3, <2>1, <3>1 DEF StopBenchmark, StopStays
    <3> QED  BY <1>3, <3>2, <3>3, <3>4 DEF StopBenchmark, DownBelow
  <2>2. CASE memory[b] = None
    <3>1. /\ row[b] = "running" /\ published[b] = None
          /\ \A x \in Benchmarks : row'[x] = IF x = b THEN "aborted" ELSE row[x]
      BY <1>1, <1>3, <2>2 DEF StopBenchmark, RowsAgree
    <3>2. BenchmarkTypeOK'
      BY <1>1, <1>3, <2>2 DEF StopBenchmark, BenchmarkTypeOK
    <3>3. RowsAgree'
      BY <1>3, <2>2, <3>1 DEF StopBenchmark, RowsAgree
    <3>4. StopStays'
      BY <1>1, <1>3, <2>2, <3>1 DEF StopBenchmark, StopStays
    <3> QED  BY <1>3, <3>2, <3>3, <3>4 DEF StopBenchmark, DownBelow
  <2> QED  BY <2>1, <2>2
<1>4. ASSUME row' = Cleaned, UNCHANGED <<memory, task, outcomes>>,
             runs' = TRUE, starts' \in 1 .. MaxStarts
      PROVE  BenchmarkInv'
  <2>1. \A b \in Benchmarks : row'[b] = IF row[b] = "running" /\ memory[b] = None THEN "aborted" ELSE row[b]
    BY <1>4 DEF Cleaned
  <2>2. BenchmarkTypeOK'
    <3>1. row' \in [Benchmarks -> Ended \cup {None, "running"}]
      BY <1>1, <1>4 DEF Cleaned
    <3> QED  BY <1>1, <1>4, <3>1 DEF BenchmarkTypeOK
  <2>3. RowsAgree'
    BY <1>1, <1>4, <2>1 DEF RowsAgree
  <2>4. StopStays'
    BY <1>1, <1>4, <2>1 DEF StopStays
  <2> QED  BY <1>4, <2>2, <2>3, <2>4 DEF DownBelow
<1>5. ASSUME CleanUp PROVE BenchmarkInv'
  BY <1>1, <1>4, <1>5 DEF CleanUp
<1>6. ASSUME Up PROVE BenchmarkInv'
  <2>1. starts + 1 \in 1 .. MaxStarts
    BY <1>1, <1>6, MaxStartsType DEF Up, DownBelow
  <2> QED  BY <1>4, <1>6, <2>1 DEF Up
<1>7. ASSUME Down PROVE BenchmarkInv'
  <2>1. \A b \in Benchmarks : task'[b] = NoTask /\ memory'[b] = None
    BY <1>7 DEF Down
  <2>2. BenchmarkTypeOK'
    <3>0. NoTask \in NoTask .. Phases - 1 /\ runs' = FALSE
      BY <1>7, PhasesType DEF Down
    <3>1. task' \in [Benchmarks -> NoTask .. Phases - 1]
      BY <1>7, <3>0 DEF Down
    <3>2. memory' \in [Benchmarks -> Ended \cup {None, "running", "stopped"}]
      BY <1>7 DEF Down
    <3>3. UNCHANGED <<starts, row, published, asked, unsaved>>
      BY <1>7 DEF Down
    <3> QED  BY <1>1, <3>0, <3>1, <3>2, <3>3 DEF BenchmarkTypeOK
  <2>3. RowsAgree'
    BY <1>1, <1>7, <2>1 DEF Down, RowsAgree
  <2>4. StopStays'
    BY <1>1, <1>7, <2>1 DEF Down, StopStays
  <2> QED  BY <1>7, <2>2, <2>3, <2>4 DEF Down, DownBelow
<1> QED  BY <1>2, <1>3, <1>5, <1>6, <1>7 DEF BenchmarkRequests

LEMMA BenchmarkStart == BenchmarkInit => BenchmarkInv
<1> USE PhasesType, MaxStartsType DEF BenchmarkInit, Ended, None, NoTask, Waiting
<1>1. BenchmarkInit => BenchmarkTypeOK
  BY DEF BenchmarkTypeOK
<1>2. BenchmarkInit => DownBelow /\ RowsAgree /\ StopStays
  BY DEF DownBelow, RowsAgree, StopStays
<1> QED  BY <1>1, <1>2 DEF BenchmarkInv

LEMMA BenchmarkStep == BenchmarkInv /\ [BenchmarkNext]_benchmarkVars => BenchmarkInv'
<1> SUFFICES ASSUME BenchmarkInv, [BenchmarkNext]_benchmarkVars PROVE BenchmarkInv'
  OBVIOUS
<1>1. ASSUME NEW b \in Benchmarks, TaskNext(b) PROVE BenchmarkInv'
  BY <1>1, TaskStep
<1>2. CASE BenchmarkRequests \/ Down \/ Up
  BY <1>2, RequestsKeep
<1>3. CASE UNCHANGED benchmarkVars
  BY <1>3 DEF benchmarkVars, serverRuns, outcomes, BenchmarkInv, BenchmarkTypeOK, DownBelow, RowsAgree, StopStays
<1> QED  BY <1>1, <1>2, <1>3 DEF BenchmarkNext

\* A benchmark that was asked to stop is never shown or announced as completed, for any
\* number of benchmarks, phases and restarts (stop_benchmark and run_benchmark).
THEOREM StopsHeeded == BenchmarkSpec => []StopsAreHeeded
<1>1. BenchmarkInv => StopsAreHeeded
  BY DEF BenchmarkInv, BenchmarkTypeOK, RowsAgree, StopStays, StopsAreHeeded, None
<1> QED  BY <1>1, BenchmarkStart, BenchmarkStep, PTL DEF BenchmarkSpec

-----------------------------------------------------------------------------
(* Backups. *)

\* The name is that of a file, or of an archive that is being packed.
Taken(name, named) ==
    \/ \E b \in backups : b.name = name /\ b.named = named
    \/ \E m \in Makers : maker[m].stage = "packing" /\ maker[m].name = name /\ maker[m].named = named

\* A later name is not of an earlier hour.
NamesInOrder ==
    \A n \in 1 .. MaxBackups, h \in 0 .. MaxTime : Taken(n, h) =>
        /\ n <= names /\ h <= hour
        /\ \A k \in 1 .. MaxBackups, g \in 0 .. MaxTime : Taken(k, g) /\ k < n => g <= h

PackersNamed == \A m \in Makers : maker[m].stage = "packing" => maker[m].name > 0

ScheduledInTime ==
    /\ \A b \in backups : b.scheduled => b.at - b.named <= Slowest
    /\ maker[Maintenance].stage = "packing" => hour - maker[Maintenance].named <= Slowest

IsNewest(b) == \A c \in backups : c.name <= b.name
HasNewest == backups = {} \/ \E b \in backups : IsNewest(b)

IsYoung(b) == hour - b.named < Interval + Slowest

\* When a pass has ended within the hour, or is about to prune, some backup is young.
SomeYoung == passed \/ maker[Maintenance].stage = "packed" => \E b \in backups : IsYoung(b)

FilesInv == NamesInOrder /\ PackersNamed /\ ScheduledInTime /\ HasNewest /\ SomeYoung

\* A part that the restore has not come to is as it was; of the one it is to put back,
\* what it was lies aside.
PartsHandled ==
    /\ restoring.part \notin restoring.left
    /\ \A p \in Parts :
          /\ p \in restoring.left \/ At(p, "clear") \/ At(p, "aside") => data[p] = replaced[p]
          /\ At(p, "put") => replaced[p] \in {Absent, aside[p]}

BackupInv == BackupTypeOK /\ FilesInv /\ ReplacedIsKept /\ PartsHandled

LEMMA Times == ASSUME BackupTypeOK
               PROVE  /\ hour \in Nat /\ hour <= MaxTime /\ names \in Nat /\ names <= MaxBackups
                      /\ \A b \in backups : b \in Backup /\ b.at \in Nat /\ b.named \in 0 .. MaxTime
                                            /\ b.name \in 1 .. MaxBackups /\ b.named \in Nat
                      /\ \A m \in Makers : /\ maker[m] \in Making /\ maker[m].named \in 0 .. MaxTime
                                           /\ maker[m].name \in 0 .. MaxBackups /\ maker[m].named \in Nat
BY BoundsType DEF BackupTypeOK, Backup, Making

\* Makers leave what is restored alone, and a restore leaves the backups alone.
LEMMA OthersKeep ==
    ASSUME BackupInv
    PROVE  /\ UNCHANGED restoreVars => ReplacedIsKept' /\ PartsHandled'
           /\ UNCHANGED makingVars => FilesInv'
<1>1. UNCHANGED restoreVars => ReplacedIsKept' /\ PartsHandled'
  BY DEF BackupInv, restoreVars, ReplacedIsKept, PartsHandled, At
<1>2. UNCHANGED makingVars => NamesInOrder' /\ PackersNamed' /\ ScheduledInTime'
  BY DEF BackupInv, FilesInv, makingVars, NamesInOrder, Taken, PackersNamed, ScheduledInTime
<1>3. UNCHANGED makingVars => HasNewest' /\ SomeYoung'
  BY DEF BackupInv, FilesInv, makingVars, HasNewest, IsNewest, SomeYoung, IsYoung
<1> QED  BY <1>1, <1>2, <1>3 DEF FilesInv

\* Of the backups that are kept the newest is one, and it is young when any is.
LEMMA NewestKept ==
    ASSUME BackupTypeOK, FilesInv, backups # {}
    PROVE  \E b \in Kept : IsNewest(b) /\ ((\E c \in backups : IsYoung(c)) => IsYoung(b))
<1>1. ASSUME NEW b \in backups, IsNewest(b) PROVE b \in Kept
  <2>1. {c \in backups : c.name > b.name} = {}
    BY <1>1, Times DEF IsNewest
  <2>2. Cardinality({c \in backups : c.name > b.name}) = 0
    BY <2>1, FS_EmptySet
  <2> QED  BY <2>2, KeepType DEF Kept
<1>2. PICK b \in backups : IsNewest(b)
  BY DEF FilesInv, HasNewest
<1>3. CASE ~ \E c \in backups : IsYoung(c)
  BY <1>1, <1>2, <1>3
<1>4. ASSUME NEW c \in backups, IsYoung(c) PROVE IsYoung(b) \/ IsNewest(c)
  <2>1. /\ {b.name, c.name} \subseteq 1 .. MaxBackups /\ {b.named, c.named} \subseteq 0 .. MaxTime
        /\ Taken(b.name, b.named) /\ Taken(c.name, c.named)
    BY Times DEF Taken
  <2>2. c.name < b.name => c.named <= b.named
    BY <2>1 DEF FilesInv, NamesInOrder
  <2>3. c.name <= b.name
    BY <1>2 DEF IsNewest
  <2>4. CASE c.name < b.name
    BY <1>4, <2>1, <2>2, <2>4, Times, IntervalType, SlowestType DEF IsYoung
  <2>5. CASE c.name = b.name
    BY <1>2, <2>5 DEF IsNewest
  <2> QED  BY <2>1, <2>3, <2>4, <2>5
<1> QED  BY <1>1, <1>2, <1>3, <1>4

LEMMA MakingKeeps == ASSUME BackupInv, MakingNext PROVE BackupInv'
<1> USE DEF BackupInv, FilesInv
<1>1. /\ hour \in Nat /\ hour <= MaxTime /\ names \in Nat /\ names <= MaxBackups
      /\ \A b \in backups : b \in Backup /\ b.at \in Nat /\ b.named \in 0 .. MaxTime
                            /\ b.name \in 1 .. MaxBackups /\ b.named \in Nat
      /\ \A m \in Makers : /\ maker[m] \in Making /\ maker[m].named \in 0 .. MaxTime
                           /\ maker[m].name \in 0 .. MaxBackups /\ maker[m].named \in Nat
  BY Times
<1>2. backups \subseteq Backup /\ maker \in [Makers -> Making] /\ passed \in BOOLEAN /\ hour \in 0 .. MaxTime
  BY DEF BackupTypeOK
<1>3. Maintenance \in Makers
  BY DEF Makers, InServer
<1>4. UNCHANGED restoreVars
  BY DEF MakingNext, HourlyPass, Ask, TakeName, Write, Prune, MakingFails, AnHourPasses
<1>5. ReplacedIsKept' /\ PartsHandled'
  BY <1>4, OthersKeep
<1>6. ASSUME hour' \in 0 .. MaxTime, names' \in 0 .. MaxBackups, backups' \subseteq Backup,
             maker' \in [Makers -> Making], passed' \in BOOLEAN
      PROVE  BackupTypeOK'
  BY <1>4, <1>6 DEF BackupTypeOK, restoreVars
\* A maker goes on that packs nothing then.
<1>7. ASSUME NEW m \in Makers, NEW new \in Making, new.stage \in {"idle", "staging"},
             maker' = [maker EXCEPT ![m] = new], UNCHANGED <<hour, names>>,
             backups' \subseteq backups, HasNewest', SomeYoung', passed' \in BOOLEAN
      PROVE  BackupInv'
  <2>1. maker' \in [Makers -> Making]
        /\ \A q \in Makers : maker'[q].stage = "packing" => maker'[q] = maker[q]
    BY <1>2, <1>7
  <2>2. BackupTypeOK'
    BY <1>2, <1>6, <1>7, <2>1 DEF BackupTypeOK
  <2>3. \A n, h : Taken(n, h)' => Taken(n, h)
    BY <1>7, <2>1 DEF Taken
  <2>4. NamesInOrder'
    BY <1>7, <2>3 DEF NamesInOrder
  <2>5. PackersNamed' /\ ScheduledInTime'
    BY <1>3, <1>7, <2>1 DEF PackersNamed, ScheduledInTime
  <2> QED  BY <1>5, <1>7, <2>2, <2>4, <2>5
<1>8. ASSUME NEW m \in Makers, NEW new \in Making, new.stage \in {"idle", "staging"},
             maker' = [maker EXCEPT ![m] = new], UNCHANGED <<hour, names, backups, passed>>
      PROVE  BackupInv'
  <2>1. HasNewest'
    BY <1>8 DEF HasNewest, IsNewest
  <2>2. SomeYoung'
    <3>1. maker'[Maintenance].stage = "packed" => maker[Maintenance].stage = "packed"
      BY <1>2, <1>3, <1>8
    <3> QED  BY <1>8, <3>1 DEF SomeYoung, IsYoung
  <2> QED  BY <1>2, <1>7, <1>8, <2>1, <2>2
<1>9. Idle \in Making /\ Idle.stage = "idle"
  BY BoundsType DEF Idle, Making
<1>10. ASSUME NEW m \in Makers
       PROVE  [maker[m] EXCEPT !.stage = "staging"] \in Making
              /\ [maker[m] EXCEPT !.stage = "staging"].stage = "staging"
  BY <1>1 DEF Making
<1>11. ASSUME HourlyPass PROVE BackupInv'
  <2>1. CASE Due
    BY <1>3, <1>8, <1>10, <1>11, <2>1 DEF HourlyPass, MakerGoes, MakerIs
  <2>2. CASE ~Due
    <3>1. passed' = TRUE /\ UNCHANGED <<hour, names, backups, maker>>
      BY <1>11, <2>2 DEF HourlyPass
    <3>2. PICK b \in backups : b.scheduled /\ ~(hour - b.at >= Interval)
      BY <2>2 DEF Due
    <3>3. b.at - b.named <= Slowest
      BY <3>2 DEF ScheduledInTime
    <3>4. IsYoung(b)
      BY <1>1, <3>2, <3>3, IntervalType, SlowestType DEF IsYoung
    <3>5. BackupTypeOK'
      BY <1>1, <1>2, <1>6, <3>1 DEF BackupTypeOK
    <3>6. NamesInOrder' /\ PackersNamed' /\ ScheduledInTime'
      BY <3>1 DEF NamesInOrder, Taken, PackersNamed, ScheduledInTime
    <3>7. HasNewest' /\ SomeYoung'
      BY <3>1, <3>4 DEF HasNewest, IsNewest, SomeYoung, IsYoung
    <3> QED  BY <1>5, <3>5, <3>6, <3>7
  <2> QED  BY <2>1, <2>2
<1>12. ASSUME NEW m \in Makers, Ask(m) \/ MakingFails(m) PROVE BackupInv'
  <2>1. CASE Ask(m)
    BY <1>8, <1>10, <2>1 DEF Ask, MakerGoes, MakerIs
  <2>2. CASE MakingFails(m)
    BY <1>8, <1>9, <2>2 DEF MakingFails, MakerIs
  <2> QED  BY <1>12, <2>1, <2>2
<1>13. ASSUME NEW m \in Makers, TakeName(m) PROVE BackupInv'
  <2> DEFINE new == [stage |-> "packing", name |-> names + 1, named |-> hour]
  <2>1. /\ maker' = [maker EXCEPT ![m] = new] /\ names' = names + 1 /\ names < MaxBackups
        /\ maker[m].stage = "staging" /\ UNCHANGED <<hour, backups, passed>>
    BY <1>13 DEF TakeName, MakerIs
  <2>2. new \in Making /\ new.stage = "packing" /\ new.name = names + 1 /\ new.named = hour
    BY <1>1, <1>2, <2>1, BoundsType DEF Making
  <2> HIDE DEF new
  <2>3. maker' \in [Makers -> Making] /\ maker'[m] = new /\ \A q \in Makers : q # m => maker'[q] = maker[q]
    BY <1>2, <2>1, <2>2
  <2>4. BackupTypeOK'
    BY <1>1, <1>2, <1>6, <2>1, <2>3, BoundsType
  <2>5. NamesInOrder'
    <3>1. \A n, h : Taken(n, h)' => Taken(n, h) \/ (n = names + 1 /\ h = hour)
      BY <2>1, <2>2, <2>3 DEF Taken
    <3> SUFFICES ASSUME NEW n \in 1 .. MaxBackups, NEW h \in 0 .. MaxTime, Taken(n, h)'
                 PROVE  /\ n <= names' /\ h <= hour'
                        /\ \A k \in 1 .. MaxBackups, g \in 0 .. MaxTime : Taken(k, g)' /\ k < n => g <= h
      BY DEF NamesInOrder
    <3>2. CASE Taken(n, h)
      <4>1. n <= names /\ h <= hour
        BY <3>2 DEF NamesInOrder
      <4>2. ASSUME NEW k \in 1 .. MaxBackups, NEW g \in 0 .. MaxTime, Taken(k, g)', k < n PROVE g <= h
        <5>1. Taken(k, g)
          BY <1>1, <3>1, <4>1, <4>2
        <5> QED  BY <3>2, <4>2, <5>1 DEF NamesInOrder
      <4> QED  BY <1>1, <2>1, <4>1, <4>2
    <3>3. CASE n = names + 1 /\ h = hour
      <4>1. ASSUME NEW k \in 1 .. MaxBackups, NEW g \in 0 .. MaxTime, Taken(k, g)' PROVE g <= hour
        <5>1. CASE Taken(k, g)
          BY <5>1 DEF NamesInOrder
        <5>2. CASE g = hour
          BY <1>1, <5>2
        <5> QED  BY <3>1, <4>1, <5>1, <5>2
      <4> QED  BY <1>1, <2>1, <3>3, <4>1
    <3> QED  BY <3>1, <3>2, <3>3
  <2>6. PackersNamed'
    BY <1>1, <2>2, <2>3 DEF PackersNamed
  <2>7. ScheduledInTime'
    <3>1. CASE m = Maintenance
      BY <1>1, <2>1, <2>2, <2>3, <3>1, SlowestType DEF ScheduledInTime
    <3>2. CASE m # Maintenance
      BY <1>3, <2>1, <2>3, <3>2 DEF ScheduledInTime
    <3> QED  BY <3>1, <3>2
  <2>8. HasNewest'
    BY <2>1 DEF HasNewest, IsNewest
  <2>9. SomeYoung'
    <3>1. maker'[Maintenance].stage = "packed" => maker[Maintenance].stage = "packed"
      BY <1>3, <2>2, <2>3
    <3> QED  BY <2>1, <3>1 DEF SomeYoung, IsYoung
  <2> QED  BY <1>5, <2>4, <2>5, <2>6, <2>7, <2>8, <2>9
<1>14. ASSUME NEW m \in Makers, Write(m) PROVE BackupInv'
  <2> DEFINE new == [name |-> maker[m].name, named |-> maker[m].named, at |-> hour, scheduled |-> m = Maintenance]
             goes == [Idle EXCEPT !.stage = "packed"]
  <2>1. maker[m].name \in 1 .. MaxBackups /\ maker[m].stage = "packing"
    BY <1>1, <1>14 DEF Write, PackersNamed
  <2>2. /\ new \in Backup /\ new.name = maker[m].name /\ new.named = maker[m].named /\ new.at = hour
        /\ new.scheduled = (m = Maintenance)
    <3>1. (m = Maintenance) \in BOOLEAN /\ hour \in 0 .. MaxTime /\ maker[m].named \in 0 .. MaxTime
      BY <1>1, <1>2
    <3> QED  BY <2>1, <3>1, Zenon DEF Backup
  <2>3. backups' = backups \cup {new} /\ maker' = [maker EXCEPT ![m] = goes] /\ UNCHANGED <<hour, names, passed>>
    BY <1>14, Zenon DEF Write, MakerIs
  <2>4. goes \in Making /\ goes.stage = "packed"
    BY BoundsType DEF Making, Idle
  <2> HIDE DEF new, goes
  <2>5. maker' \in [Makers -> Making] /\ maker'[m] = goes /\ \A q \in Makers : q # m => maker'[q] = maker[q]
    BY <1>2, <2>3, <2>4
  <2>6. BackupTypeOK'
    BY <1>1, <1>2, <1>6, <2>2, <2>3, <2>5 DEF BackupTypeOK
  <2>7. NamesInOrder'
    <3>1. Taken(new.name, new.named)
      BY <2>1, <2>2 DEF Taken
    <3>2. \A n, h : Taken(n, h)' => Taken(n, h)
      <4> SUFFICES ASSUME NEW n, NEW h, Taken(n, h)' PROVE Taken(n, h)
        OBVIOUS
      <4>1. CASE \E b \in backups' : b.name = n /\ b.named = h
        BY <2>3, <3>1, <4>1 DEF Taken
      <4>2. CASE \E q \in Makers : maker'[q].stage = "packing" /\ maker'[q].name = n /\ maker'[q].named = h
        BY <2>4, <2>5, <4>2 DEF Taken
      <4> QED  BY <4>1, <4>2 DEF Taken
    <3> QED  BY <2>3, <3>2 DEF NamesInOrder
  <2>8. PackersNamed'
    BY <2>4, <2>5 DEF PackersNamed
  <2>9. ScheduledInTime'
    <3>1. new.scheduled => new.at - new.named <= Slowest
      BY <2>1, <2>2 DEF ScheduledInTime
    <3>2. maker'[Maintenance].stage = "packing" => maker'[Maintenance] = maker[Maintenance]
      BY <1>3, <2>4, <2>5
    <3> QED  BY <2>3, <3>1, <3>2 DEF ScheduledInTime
  <2>10. HasNewest'
    <3>1. CASE backups = {}
      BY <1>1, <2>1, <2>2, <2>3, <3>1 DEF HasNewest, IsNewest
    <3>2. ASSUME NEW b \in backups, IsNewest(b) PROVE HasNewest'
      <4>1. CASE new.name <= b.name
        BY <2>3, <3>2, <4>1 DEF HasNewest, IsNewest
      <4>2. CASE ~(new.name <= b.name)
        <5>1. \A c \in backups : c.name <= new.name
          BY <1>1, <2>1, <2>2, <3>2, <4>2 DEF IsNewest
        <5>2. new.name <= new.name
          BY <2>1, <2>2
        <5> QED  BY <2>3, <5>1, <5>2 DEF HasNewest, IsNewest
      <4> QED  BY <4>1, <4>2
    <3> QED  BY <3>1, <3>2 DEF HasNewest
  <2>11. SomeYoung'
    <3>1. CASE m = Maintenance
      <4>1. IsYoung(new)
        BY <1>1, <2>1, <2>2, <3>1, IntervalType, SlowestType DEF ScheduledInTime, IsYoung
      <4> QED  BY <2>3, <4>1 DEF SomeYoung, IsYoung
    <3>2. CASE m # Maintenance
      BY <1>3, <2>3, <2>5, <3>2 DEF SomeYoung, IsYoung
    <3> QED  BY <3>1, <3>2
  <2> QED  BY <1>5, <2>6, <2>7, <2>8, <2>9, <2>10, <2>11
<1>15. ASSUME NEW m \in Makers, Prune(m) PROVE BackupInv'
  <2>1. /\ backups' = Kept /\ maker' = [maker EXCEPT ![m] = Idle] /\ UNCHANGED <<hour, names>>
        /\ passed' = (passed \/ m = Maintenance) /\ maker[m].stage = "packed"
    BY <1>15, Zenon DEF Prune, MakerIs
  <2>2. Kept \subseteq backups /\ passed' \in BOOLEAN
    BY <1>2, <2>1 DEF Kept
  <2>3. HasNewest'
    <3>1. CASE backups = {}
      BY <2>1, <2>2, <3>1 DEF HasNewest
    <3>2. CASE backups # {}
      BY <2>1, <2>2, <3>2, NewestKept DEF HasNewest, IsNewest
    <3> QED  BY <3>1, <3>2
  <2>4. SomeYoung'
    <3>1. passed' \/ maker'[Maintenance].stage = "packed" => passed \/ maker[Maintenance].stage = "packed"
      BY <1>2, <1>3, <1>9, <2>1
    <3>2. (\E b \in backups : IsYoung(b)) => \E b \in Kept : IsYoung(b)
      BY NewestKept
    <3> QED  BY <2>1, <3>1, <3>2 DEF SomeYoung, IsYoung
  <2> QED  BY <1>7, <1>9, <2>1, <2>2, <2>3, <2>4
<1>16. ASSUME AnHourPasses PROVE BackupInv'
  <2>1. /\ hour' = hour + 1 /\ hour < MaxTime /\ passed' = FALSE /\ maker[Maintenance].stage # "packed"
        /\ maker[Maintenance].stage = "packing" => hour - maker[Maintenance].named < Slowest
        /\ UNCHANGED <<names, backups, maker>>
    BY <1>16 DEF AnHourPasses
  <2>2. BackupTypeOK'
    <3>1. hour' \in 0 .. MaxTime /\ names' \in 0 .. MaxBackups
      BY <1>1, <2>1, BoundsType
    <3> QED  BY <1>2, <1>6, <2>1, <3>1
  <2>3. NamesInOrder'
    <3>1. \A n, h : Taken(n, h)' <=> Taken(n, h)
      BY <2>1 DEF Taken
    <3> QED  BY <1>1, <2>1, <3>1 DEF NamesInOrder
  <2>4. PackersNamed' /\ ScheduledInTime'
    BY <1>1, <1>3, <2>1, SlowestType DEF PackersNamed, ScheduledInTime
  <2>5. HasNewest' /\ SomeYoung'
    BY <2>1 DEF HasNewest, IsNewest, SomeYoung
  <2> QED  BY <1>5, <2>2, <2>3, <2>4, <2>5
<1> QED  BY <1>11, <1>12, <1>13, <1>14, <1>15, <1>16 DEF MakingNext

LEMMA RestoringKeeps == ASSUME BackupInv, RestoreNext PROVE BackupInv'
<1> USE DEF BackupInv
<1> DEFINE Restoring == [part : Parts \cup {"none"}, stage : {"none", "clear", "aside", "put"}, left : SUBSET Parts]
           Holding == [Parts -> Absent .. MaxRestores]
<1>1. /\ data \in Holding /\ aside \in Holding /\ replaced \in Holding
      /\ restoring \in Restoring /\ restores \in 0 .. MaxRestores
  BY DEF BackupTypeOK
<1>2. "none" \notin Parts
  BY PartsAreNamed DEF Parts
<1>3. UNCHANGED makingVars
  BY DEF RestoreNext, RestoreBegins, TakePart, ClearAside, PutAside, PutBack, RestoreEnds
<1>4. FilesInv'
  BY <1>3, OthersKeep
<1>5. ASSUME data' \in Holding, aside' \in Holding, replaced' \in Holding,
             restoring' \in Restoring, restores' \in 0 .. MaxRestores
      PROVE  BackupTypeOK'
  BY <1>3, <1>5 DEF BackupTypeOK, makingVars
<1>6. restores \in Absent .. MaxRestores /\ Absent \in Absent .. MaxRestores
  BY <1>1, BoundsType DEF Absent
<1>7. NotRestoring \in Restoring /\ NotRestoring.part = "none" /\ NotRestoring.stage = "none" /\ NotRestoring.left = {}
  BY DEF NotRestoring
<1>8. ASSUME NEW parts \in SUBSET Parts, RestoreBegins(parts) PROVE BackupInv'
  <2>1. restoring'.part = "none" /\ restoring'.stage = "none" /\ restoring'.left = parts /\ restoring' \in Restoring
    BY <1>7, <1>8 DEF RestoreBegins
  <2>2. replaced' = data /\ UNCHANGED <<data, aside>> /\ restores' = restores + 1 /\ restores < MaxRestores
    BY <1>8 DEF RestoreBegins
  <2>3. BackupTypeOK'
    <3>1. restores + 1 \in 0 .. MaxRestores
      BY <1>1, <2>2, BoundsType
    <3> QED  BY <1>1, <1>5, <2>1, <2>2, <3>1
  <2>4. ReplacedIsKept' /\ PartsHandled'
    BY <1>2, <2>1, <2>2 DEF ReplacedIsKept, PartsHandled, At
  <2> QED  BY <1>4, <2>3, <2>4
<1>9. ASSUME NEW p \in Parts, TakePart(p) PROVE BackupInv'
  <2> DEFINE stage == IF data[p] = Absent THEN "put" ELSE IF p \in Files THEN "aside" ELSE "clear"
  <2>1. /\ restoring'.part = p /\ restoring'.left = restoring.left \ {p} /\ restoring'.stage = stage
        /\ restoring' \in Restoring /\ p \in restoring.left
    BY <1>1, <1>9 DEF TakePart
  <2>2. UNCHANGED <<data, aside, replaced, restores>>
    BY <1>9 DEF TakePart
  <2>3. BackupTypeOK'
    BY <1>1, <1>5, <2>1, <2>2
  <2>4. ReplacedIsKept'
    BY <2>2 DEF ReplacedIsKept
  <2>5. PartsHandled'
    <3>1. stage = "put" => replaced[p] = Absent
      BY <2>1 DEF PartsHandled
    <3> HIDE DEF stage
    <3> QED  BY <2>1, <2>2, <3>1 DEF PartsHandled, At
  <2> QED  BY <1>4, <2>3, <2>4, <2>5
<1>10. ASSUME NEW p \in Parts, ClearAside(p) PROVE BackupInv'
  <2>1. /\ restoring.part = p /\ restoring.stage = "clear" /\ restoring' \in Restoring
        /\ restoring'.part = p /\ restoring'.left = restoring.left /\ restoring'.stage = "aside"
    BY <1>1, <1>10 DEF ClearAside, At, Stage
  <2>2. /\ aside' \in Holding /\ \A q \in Parts : q # p => aside'[q] = aside[q]
        /\ UNCHANGED <<data, replaced, restores>>
    BY <1>1, <1>6, <1>10 DEF ClearAside
  <2>3. BackupTypeOK'
    BY <1>1, <1>5, <2>1, <2>2
  <2>4. ReplacedIsKept' /\ PartsHandled'
    BY <2>1, <2>2 DEF ReplacedIsKept, PartsHandled, At
  <2> QED  BY <1>4, <2>3, <2>4
<1>11. ASSUME NEW p \in Parts, PutAside(p) PROVE BackupInv'
  <2>1. /\ restoring.part = p /\ restoring.stage = "aside" /\ restoring' \in Restoring
        /\ restoring'.part = p /\ restoring'.left = restoring.left /\ restoring'.stage = "put"
    BY <1>1, <1>11 DEF PutAside, At, Stage
  <2>2. /\ aside' \in Holding /\ data' \in Holding /\ aside'[p] = data[p]
        /\ \A q \in Parts : q # p => aside'[q] = aside[q] /\ data'[q] = data[q]
        /\ UNCHANGED <<replaced, restores>>
    BY <1>1, <1>6, <1>11 DEF PutAside
  <2>3. BackupTypeOK'
    BY <1>1, <1>5, <2>1, <2>2
  <2>4. ReplacedIsKept' /\ PartsHandled'
    BY <2>1, <2>2 DEF ReplacedIsKept, PartsHandled, At
  <2> QED  BY <1>4, <2>3, <2>4
<1>12. ASSUME NEW p \in Parts, At(p, "put"), UNCHANGED <<aside, replaced, restores>>,
              data' = [data EXCEPT ![p] = restores] \/ data' = data, restoring' \in Restoring,
              restoring'.part = "none", restoring'.stage = "none", restoring'.left \subseteq restoring.left
       PROVE  BackupInv'
  <2>1. data' \in Holding /\ \A q \in Parts : q # p => data'[q] = data[q]
    BY <1>1, <1>6, <1>12
  <2>2. BackupTypeOK'
    BY <1>1, <1>5, <1>12, <2>1
  <2>3. ReplacedIsKept'
    BY <1>12, <2>1 DEF ReplacedIsKept, PartsHandled
  <2>4. PartsHandled'
    <3>1. p \notin restoring.left /\ "none" \notin restoring'.left
      BY <1>1, <1>2, <1>12 DEF PartsHandled, At
    <3> QED  BY <1>12, <2>1, <3>1 DEF PartsHandled, At
  <2> QED  BY <1>4, <2>2, <2>3, <2>4
<1>13. ASSUME NEW p \in Parts, PutBack(p) PROVE BackupInv'
  <2>1. restoring' \in Restoring /\ restoring'.part = "none" /\ restoring'.stage = "none"
        /\ restoring'.left = restoring.left
    BY <1>1, <1>13 DEF PutBack
  <2> QED  BY <1>12, <1>13, <2>1 DEF PutBack
<1>14. ASSUME RestoreEnds PROVE BackupInv'
  <2>1. CASE data' = data
    <3>1. UNCHANGED <<data, aside, replaced, restores>> /\ restoring' = NotRestoring
      BY <1>14, <2>1 DEF RestoreEnds
    <3>2. BackupTypeOK'
      BY <1>1, <1>5, <1>7, <3>1
    <3>3. ReplacedIsKept' /\ PartsHandled'
      BY <1>7, <3>1 DEF ReplacedIsKept, PartsHandled, At
    <3> QED  BY <1>4, <3>2, <3>3
  <2>2. CASE \E p \in Parts : At(p, "put") /\ data' = [data EXCEPT ![p] = restores]
    BY <1>7, <1>12, <1>14, <2>2 DEF RestoreEnds
  <2> QED  BY <1>14, <2>1, <2>2 DEF RestoreEnds
<1> QED  BY <1>8, <1>9, <1>10, <1>11, <1>13, <1>14 DEF RestoreNext

LEMMA BackupStart == BackupInit => BackupInv
<1> SUFFICES ASSUME BackupInit PROVE BackupInv
  OBVIOUS
<1> USE BoundsType DEF BackupInit
<1>1. backups = {} /\ names \in 0 .. MaxBackups /\ ~passed
  OBVIOUS
<1>2. /\ {data, aside, replaced} \subseteq [Parts -> Absent .. MaxRestores]
      /\ \A p \in Parts : replaced[p] = data[p]
  BY DEF Absent
<1>3. restoring \in [part : Parts \cup {"none"}, stage : {"none", "clear", "aside", "put"}, left : SUBSET Parts]
      /\ restoring.part = "none" /\ restoring.stage = "none" /\ restoring.left = {}
  BY DEF NotRestoring
<1>4. hour \in 0 .. MaxTime /\ restores \in 0 .. MaxRestores
  OBVIOUS
<1>5. maker \in [Makers -> Making] /\ \A m \in Makers : maker[m].stage = "idle"
  BY DEF Making, Idle
<1>6. BackupTypeOK
  <2>1. passed \in BOOLEAN
    BY Zenon
  <2> QED  BY <1>1, <1>2, <1>3, <1>4, <1>5, <2>1 DEF BackupTypeOK
<1>7. FilesInv
  <2>1. Maintenance \in Makers
    BY DEF Makers, InServer
  <2>2. \A n, h : ~Taken(n, h)
    BY <1>1, <1>5 DEF Taken
  <2>3. NamesInOrder /\ PackersNamed /\ ScheduledInTime
    BY <1>1, <1>5, <2>1, <2>2 DEF NamesInOrder, PackersNamed, ScheduledInTime
  <2> QED  BY <1>1, <1>5, <2>1, <2>3 DEF FilesInv, HasNewest, SomeYoung
<1>8. ReplacedIsKept /\ PartsHandled
  BY <1>2, <1>3 DEF ReplacedIsKept, PartsHandled, At
<1> QED  BY <1>6, <1>7, <1>8 DEF BackupInv

LEMMA BackupStep == BackupInv /\ [BackupNext]_backupVars => BackupInv'
<1>1. BackupInv /\ UNCHANGED backupVars => BackupInv'
  <2> SUFFICES ASSUME BackupInv, UNCHANGED backupVars PROVE BackupInv'
    OBVIOUS
  <2>1. BackupTypeOK'
    BY DEF BackupInv, backupVars, makingVars, restoreVars, BackupTypeOK
  <2> QED  BY <2>1, OthersKeep DEF backupVars, BackupInv
<1> QED  BY <1>1, MakingKeeps, RestoringKeeps DEF BackupNext

LEMMA BackupsAlways == BackupSpec => []BackupInv
BY BackupStart, BackupStep, PTL DEF BackupSpec

\* After an hourly pass without an error there is a backup that was named within the
\* interval and the time that packing a scheduled one takes, for any number kept and any
\* makers, however long those that users make take (create_backup, prune_backups,
\* backup_if_due).
THEOREM BackupIsFresh == BackupSpec => []FreshBackup
<1>1. BackupInv => FreshBackup
  BY DEF BackupInv, FilesInv, SomeYoung, IsYoung, FreshBackup
<1> QED  BY <1>1, BackupsAlways, PTL

\* What a restore replaces is kept aside wherever it fails or is killed, for any parts and
\* also when it is tried again (restore_backup).
THEOREM ReplacedKept == BackupSpec => []ReplacedIsKept
<1>1. BackupInv => ReplacedIsKept
  BY DEF BackupInv
<1> QED  BY <1>1, BackupsAlways, PTL

-----------------------------------------------------------------------------
(* The license. *)

\* There is a file that no install and no license holds.
LEMMA FileFree ==
    ASSUME LicenseTypeOK
    PROVE  \E f \in KeyFiles : f \notin InUse
<1> DEFINE busy == {j \in AllInstallers : installer[j] # NotInstalling}
<1> DEFINE held == {installer[i].file : i \in busy}
<1>1. IsFiniteSet(AllInstallers) /\ Cardinality(AllInstallers) \in Nat
    BY InstallersFinite, FS_CardinalityType DEF AllInstallers
<1>2. IsFiniteSet(busy) /\ Cardinality(busy) \in Nat /\ Cardinality(busy) <= Cardinality(AllInstallers)
    BY <1>1, FS_Subset, FS_CardinalityType
<1>3. [i \in busy |-> installer[i].file] \in Surjection(busy, held)
    BY DEF Surjection
<1> HIDE DEF busy, held
<1>4. IsFiniteSet(held) /\ Cardinality(held) \in Nat /\ Cardinality(held) <= Cardinality(busy)
    BY <1>2, <1>3, FS_Surjection, FS_CardinalityType
<1>5. InUse = held \cup {keyFile}
    BY DEF InUse, held, busy
<1>6. IsFiniteSet(InUse) /\ Cardinality(InUse) \in Nat /\ Cardinality(InUse) <= Cardinality(held) + 1
    BY <1>4, <1>5, FS_AddElement, FS_CardinalityType
<1>7. IsFiniteSet(KeyFiles) /\ Cardinality(KeyFiles) = Cardinality(AllInstallers) + 2
  <2>1. PICK n \in Nat : n = Cardinality(AllInstallers) + 2
      BY <1>1
  <2>2. IsFiniteSet(1 .. n) /\ Cardinality(1 .. n) = IF 1 > n THEN 0 ELSE n - 1 + 1
      BY FS_Interval
  <2>3. QED
      BY <1>1, <2>1, <2>2 DEF KeyFiles
<1>8. SUFFICES ASSUME KeyFiles \subseteq InUse PROVE FALSE
    OBVIOUS
<1>9. Cardinality(KeyFiles) <= Cardinality(InUse)
    BY <1>6, <1>8, FS_Subset
<1>10. QED
    BY <1>1, <1>2, <1>4, <1>6, <1>7, <1>9

LEMMA LicenseValues ==
    /\ AlertLevel \in AlertLevels
    /\ Empty \in Text /\ Damaged \in Text /\ License \subseteq Text
BY DEF AlertLevel, AlertLevels, Text

LEMMA LicenseAtFirst == LicenseInit => LicenseTypeOK
<1> SUFFICES ASSUME LicenseInit PROVE LicenseTypeOK
    OBVIOUS
<1>1. 1 \in KeyFiles /\ 0 \in Days /\ 0 \in 0 .. MaxChanges
  <2>1. Cardinality(AllInstallers) \in Nat
      BY InstallersFinite, FS_CardinalityType DEF AllInstallers
  <2>2. QED
      BY <2>1, LicenseBounds DEF KeyFiles, Days
<1>2. QED
    BY <1>1, LicenseValues DEF LicenseInit, LicenseTypeOK, AlertLevels

LEMMA InstallTyped ==
    ASSUME LicenseTypeOK, NEW i \in AllInstallers,
           (\E l \in License : InstallBegins(i, l)) \/ OpensTmp(i) \/ WritesTmp(i) \/ ReplacesKey(i)
    PROVE  LicenseTypeOK'
<1>1. /\ today \in Days /\ accountDays \subseteq Days /\ {keyFile, tmpFile} \subseteq KeyFiles \cup {0}
      /\ text \in [KeyFiles -> Text] /\ installer \in [AllInstallers -> Install \cup {NotInstalling}]
      /\ checked \in [AlertCheckers -> AlertLevels \cup {NotChecking}] /\ alert \in AlertLevels
      /\ changes \in 0 .. MaxChanges
    BY DEF LicenseTypeOK
<1>2. installer[i].at # "idle" => installer[i] \in Install
    BY <1>1 DEF NotInstalling
<1>3. ASSUME NEW l \in License, InstallBegins(i, l)
      PROVE  LicenseTypeOK'
  <2>1. [at |-> "open", license |-> l, file |-> 0] \in Install
      BY DEF Install
  <2>2. changes' \in 0 .. MaxChanges
      BY <1>1, <1>3, LicenseBounds DEF InstallBegins, Changes
  <2>3. installer' \in [AllInstallers -> Install \cup {NotInstalling}]
      BY <1>1, <1>3, <2>1 DEF InstallBegins
  <2>4. QED
      BY <1>1, <1>3, <2>2, <2>3 DEF InstallBegins, LicenseTypeOK
<1>4. CASE OpensTmp(i)
  <2>1. (CHOOSE f \in KeyFiles : f \notin InUse) \in KeyFiles
      BY FileFree
  <2>2. tmpFile' \in KeyFiles
      BY <1>1, <1>4, <2>1 DEF OpensTmp
  <2>3. text' \in [KeyFiles -> Text]
      BY <1>1, <1>4, <2>2, LicenseValues DEF OpensTmp
  <2>4. installer[i] \in Install
      BY <1>2, <1>4 DEF OpensTmp
  <2>5. installer' \in [AllInstallers -> Install \cup {NotInstalling}]
      BY <1>1, <1>4, <2>2, <2>4 DEF OpensTmp, Install
  <2>6. QED
      BY <1>1, <1>4, <2>2, <2>3, <2>5 DEF OpensTmp, LicenseTypeOK
<1>5. CASE WritesTmp(i)
  <2>1. installer[i] \in Install
      BY <1>2, <1>5 DEF WritesTmp
  <2>2. installer[i].license \in Text
      BY <2>1, LicenseValues DEF Install
  <2>3. \E t \in Text : text' = [text EXCEPT ![installer[i].file] = t]
      BY <1>5, <2>2, LicenseValues DEF WritesTmp
  <2>4. text' \in [KeyFiles -> Text]
      BY <1>1, <2>3
  <2>5. installer' \in [AllInstallers -> Install \cup {NotInstalling}]
      BY <1>1, <1>5, <2>1 DEF WritesTmp, Goes, Install
  <2>6. QED
      BY <1>1, <1>5, <2>4, <2>5 DEF WritesTmp, LicenseTypeOK
<1>6. CASE ReplacesKey(i)
  <2>1. installer[i] \in Install
      BY <1>2, <1>6 DEF ReplacesKey
  <2>2. text' \in [KeyFiles -> Text] /\ keyFile' \in KeyFiles \cup {0} /\ tmpFile' = 0
      BY <1>1, <1>6, LicenseValues DEF ReplacesKey
  <2>3. installer' \in [AllInstallers -> Install \cup {NotInstalling}]
    <3>1. CASE Goes(i, "check")
        BY <1>1, <2>1, <3>1 DEF Goes, Install
    <3>2. CASE installer' = [installer EXCEPT ![i] = NotInstalling]
        BY <1>1, <3>2
    <3>3. QED
        BY <1>6, <3>1, <3>2 DEF ReplacesKey
  <2>4. QED
      BY <1>1, <1>6, <2>2, <2>3 DEF ReplacesKey, LicenseTypeOK
<1>7. QED
    BY <1>3, <1>4, <1>5, <1>6

LEMMA LicenseKeepsOn == LicenseTypeOK /\ [LicenseNext]_licenseVars => LicenseTypeOK'
<1> SUFFICES ASSUME LicenseTypeOK, [LicenseNext]_licenseVars
             PROVE  LicenseTypeOK'
    OBVIOUS
<1>1. /\ today \in Days /\ accountDays \subseteq Days /\ {keyFile, tmpFile} \subseteq KeyFiles \cup {0}
      /\ text \in [KeyFiles -> Text] /\ installer \in [AllInstallers -> Install \cup {NotInstalling}]
      /\ checked \in [AlertCheckers -> AlertLevels \cup {NotChecking}] /\ alert \in AlertLevels
      /\ changes \in 0 .. MaxChanges
    BY DEF LicenseTypeOK
<1>2. Changes => changes' \in 0 .. MaxChanges
    BY <1>1, LicenseBounds DEF Changes
<1>3. ASSUME NEW c \in AlertCheckers, CheckRead(c)
      PROVE  LicenseTypeOK'
  <2>1. installer' \in [AllInstallers -> Install \cup {NotInstalling}]
      BY <1>1, <1>3 DEF CheckRead, AllInstallers
  <2>2. checked' \in [AlertCheckers -> AlertLevels \cup {NotChecking}]
      BY <1>1, <1>3, LicenseValues DEF CheckRead, Reads
  <2>3. QED
      BY <1>1, <1>3, <2>1, <2>2 DEF CheckRead, Reads, LicenseTypeOK
<1>4. ASSUME NEW c \in AlertCheckers, CheckTold(c)
      PROVE  LicenseTypeOK'
    BY <1>1, <1>4 DEF CheckTold, LicenseTypeOK
<1>5. CASE DayPasses
  <2>1. today' \in Days
      BY <1>1, <1>5, LicenseBounds DEF DayPasses, Days
  <2>2. QED
      BY <1>1, <1>5, <2>1 DEF DayPasses, LicenseTypeOK
<1>6. CASE AccountsChange
  <2>1. accountDays' \subseteq Days
      BY <1>1, <1>6 DEF AccountsChange
  <2>2. QED
      BY <1>1, <1>2, <1>6, <2>1 DEF AccountsChange, LicenseTypeOK
<1>7. CASE ServerRestarts
    BY <1>1, <1>2, <1>7 DEF ServerRestarts, LicenseTypeOK, AlertLevels
<1>8. CASE UNCHANGED licenseVars
    BY <1>1, <1>8 DEF licenseVars, LicenseTypeOK
<1>9. QED
    BY <1>3, <1>4, <1>5, <1>6, <1>7, <1>8, InstallTyped DEF LicenseNext

-----------------------------------------------------------------------------
(* The parts together. *)

\* Each variable changes with its own part, so a step of the whole is a step of each component,
\* or leaves it alone.
LEMMA StepOfEach ==
    ASSUME [ServicesNext]_<<part, vars, noticeVars, benchmarkVars, backupVars, licenseVars>>
    PROVE  /\ [Next]_vars /\ [NoticeNext]_noticeVars /\ [BenchmarkNext]_benchmarkVars
           /\ [BackupNext]_backupVars /\ [LicenseNext]_licenseVars
<1>1. MakingNext \/ RestoredNext => BackupNext
    BY DEF RestoredNext, BackupNext, MakingNext, Makers, InServer
<1>2. QED
    BY <1>1 DEF ServicesNext

\* What is proved of a component holds of it among the others.
THEOREM ServicesImplementEach ==
    ServicesSpec => Spec /\ NoticeSpec /\ BenchmarkSpec /\ BackupSpec /\ LicenseSpec
<1>1. ServicesInit => Init /\ NoticeInit /\ BenchmarkInit /\ BackupInit /\ LicenseInit
    BY DEF ServicesInit
<1>2. QED
    BY <1>1, StepOfEach, PTL DEF ServicesSpec, Spec, NoticeSpec, BenchmarkSpec, BackupSpec, LicenseSpec

\* Every state of the services has the types its variables are meant to have.
THEOREM ServicesTypes == ServicesSpec => []ServicesTypeOK
<1>1. NoticeInv => NoticeTypeOK
    BY DEF NoticeInv
<1>2. BenchmarkInv => BenchmarkTypeOK
    BY DEF BenchmarkInv
<1>3. BackupInv => BackupTypeOK
    BY DEF BackupInv
<1>4. NoticeSpec => []NoticeInv
    BY NoticeStart, NoticeStep, PTL DEF NoticeSpec
<1>5. BenchmarkSpec => []BenchmarkInv
    BY BenchmarkStart, BenchmarkStep, PTL DEF BenchmarkSpec
<1>6. LicenseSpec => []LicenseTypeOK
    BY LicenseAtFirst, LicenseKeepsOn, PTL DEF LicenseSpec
<1>7. Spec => []TypeOK
    BY TypeCorrect
<1>8. TypeOK /\ NoticeTypeOK /\ BenchmarkTypeOK /\ BackupTypeOK /\ LicenseTypeOK => ServicesTypeOK
    BY DEF ServicesTypeOK
<1>9. QED
    BY <1>1, <1>2, <1>3, <1>4, <1>5, <1>6, <1>7, <1>8, ServicesImplementEach, BackupsAlways, PTL

=============================================================================
