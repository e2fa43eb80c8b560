--------------------------- MODULE Notifications ---------------------------
(***************************************************************************)
(* One alert, and the notices of it on their way to the channels.          *)
(*                                                                         *)
(* Threads (maintenance, deployments, backups, host polls) fire and clear   *)
(* the alert under a lock and queue the notices after releasing it. One     *)
(* background thread delivers; a notice that failed waits for a timer, and  *)
(* then for room in the queue.                                             *)
(***************************************************************************)
EXTENDS Integers, Sequences, FiniteSets, SequencesExt

CONSTANTS
    Callers,        \* threads that fire and clear the alert
    Channels,       \* notification channels
    MaxQueue,       \* maxsize of the queue
    Retries,        \* len(RETRY_DELAYS)
    MaxNotices      \* bound: notices ever made

ASSUME QueueHolds == MaxQueue \in Nat \ {0}
ASSUME RetriesType == Retries \in Nat
ASSUME ChannelsFinite == IsFiniteSet(Channels)
ASSUME MaxNoticesType == MaxNotices \in Nat

VARIABLES
    active,         \* the alert: off, or its severity
    caller,         \* the notice a thread is about to queue
    channel,        \* notification_channels: missing, disabled, enabled
    picks,          \* the events an enabled channel gets: its events and only_problems
    queue,          \* _Dispatcher._queue
    sending,        \* the notice the background thread holds
    retrying,       \* notices whose timer runs, or whose put waits for room
    made,           \* notices queued or dropped so far
    lastTold,       \* what each channel was last told (history)
    troubled        \* a channel missed a notice, or may get one late (history)

noticeVars == <<active, caller, channel, picks, queue, sending, retrying, made, lastTold, troubled>>
delivery == <<queue, sending, retrying>>

Severities == {"warning", "critical"}
Said == Severities \cup {"off"}

\* alert.firing, alert.resolved. A channel that gets problems only never gets the second.
Events == {"firing", "resolved"}
EventOf(s) == IF s = "off" THEN "resolved" ELSE "firing"

Nothing == "nothing"
Notice == [id : 1 .. MaxNotices, to : Channels, says : Said, attempt : 0 .. Retries]
NoNotice == [id |-> 0]

NoticeTypeOK ==
    /\ active \in Said
    /\ caller \in [Callers -> Said \cup {Nothing}]
    /\ channel \in [Channels -> {"missing", "disabled", "enabled"}]
    /\ picks \in [Channels -> SUBSET Events]
    /\ queue \in Seq(Notice) /\ Len(queue) <= MaxQueue
    /\ sending \in Notice \cup {NoNotice}
    /\ retrying \subseteq Notice
    /\ made \in 0 .. MaxNotices
    /\ lastTold \in [Channels -> Said]
    /\ troubled \in BOOLEAN

\* Who waits to tell: more than one may tell in any order.
Telling == {c \in Callers : caller[c] # Nothing}
Crowded(c) == Telling \ {c} # {}

-----------------------------------------------------------------------------
(* AlertManager. *)

\* Mutant of IsNews: only the beginning of an alert.
IsNewsOnce(s) == active = "off"

\* Told again only when the severity is another one.
IsNews(s) == active # s

Fire(c, s) ==
    /\ caller[c] = Nothing
    /\ active' = s
    /\ IF IsNews(s)
       THEN caller' = [caller EXCEPT ![c] = s] /\ troubled' = (troubled \/ Crowded(c))
       ELSE UNCHANGED <<caller, troubled>>
    /\ UNCHANGED <<channel, picks, delivery, made, lastTold>>

Clear(c) ==
    /\ caller[c] = Nothing /\ active # "off"
    /\ active' = "off"
    /\ caller' = [caller EXCEPT ![c] = "off"]
    /\ troubled' = (troubled \/ Crowded(c))
    /\ UNCHANGED <<channel, picks, delivery, made, lastTold>>

\* emit and submit: put_nowait for each enabled channel that wants the event
Emit(c) ==
    LET wanting == {x \in Channels : channel[x] = "enabled" /\ EventOf(caller[c]) \in picks[x]}
        notice(x) == [id |-> made + 1, to |-> x, says |-> caller[c], attempt |-> 0]
        all == SetToSeq({notice(x) : x \in wanting})
        room == MaxQueue - Len(queue)
    IN
    /\ caller[c] # Nothing /\ made < MaxNotices
    /\ queue' = queue \o SubSeq(all, 1, IF Len(all) < room THEN Len(all) ELSE room)
    /\ troubled' = (troubled \/ Len(all) > room)
    /\ caller' = [caller EXCEPT ![c] = Nothing]
    /\ made' = made + 1
    /\ UNCHANGED <<active, channel, picks, sending, retrying, lastTold>>

\* The channels cannot be read: no notice is made.
EmitFails(c) ==
    /\ caller[c] # Nothing
    /\ caller' = [caller EXCEPT ![c] = Nothing]
    /\ troubled' = TRUE
    /\ UNCHANGED <<active, channel, picks, delivery, made, lastTold>>

\* The checks of each minute, and whoever ends a deployment or a backup, do one or the other.
Check(c) == (\E s \in Severities : Fire(c, s)) \/ Clear(c)

AlertNext == \E c \in Callers : Check(c) \/ Emit(c) \/ EmitFails(c)

-----------------------------------------------------------------------------
(* The dispatcher's thread. *)

Take ==
    /\ sending = NoNotice /\ queue # <<>> /\ channel[Head(queue).to] = "enabled"
    /\ sending' = Head(queue) /\ queue' = Tail(queue)
    /\ UNCHANGED <<active, caller, channel, picks, retrying, made, lastTold, troubled>>

\* The channel is gone or disabled, or could not be read.
Skip ==
    /\ sending = NoNotice /\ queue # <<>>
    /\ queue' = Tail(queue) /\ troubled' = TRUE
    /\ UNCHANGED <<active, caller, channel, picks, sending, retrying, made, lastTold>>

\* A message by mail, to Slack or to a webhook: it gets through whole or raises.
Send(n) == lastTold' = [lastTold EXCEPT ![n.to] = n.says]

Deliver ==
    /\ sending # NoNotice
    /\ Send(sending)
    /\ sending' = NoNotice
    /\ UNCHANGED <<active, caller, channel, picks, queue, retrying, made, troubled>>

\* Mutant of DeliveryFails: the attempt is not counted.
DeliveryFailsAgain ==
    /\ sending # NoNotice
    /\ retrying' = retrying \cup {sending}
    /\ sending' = NoNotice /\ troubled' = TRUE
    /\ UNCHANGED <<active, caller, channel, picks, queue, made, lastTold>>

\* The endpoint refuses or does not answer; after the last retry it is given up.
DeliveryFails ==
    /\ sending # NoNotice
    /\ retrying' = IF sending.attempt < Retries THEN retrying \cup {[sending EXCEPT !.attempt = @ + 1]} ELSE retrying
    /\ sending' = NoNotice /\ troubled' = TRUE
    /\ UNCHANGED <<active, caller, channel, picks, queue, made, lastTold>>

\* The timer's put, once there is room
Retry(n) ==
    /\ n \in retrying /\ Len(queue) < MaxQueue
    /\ retrying' = retrying \ {n}
    /\ queue' = Append(queue, n)
    /\ UNCHANGED <<active, caller, channel, picks, sending, made, lastTold, troubled>>

DispatchNext == Take \/ Skip \/ Deliver \/ DeliveryFails

-----------------------------------------------------------------------------
\* A channel that gets nothing has no events here: they are set with its state.
SetChannel(x, state, events) ==
    /\ channel' = [channel EXCEPT ![x] = state]
    /\ picks' = [picks EXCEPT ![x] = events]
    /\ troubled' = TRUE
    /\ UNCHANGED <<active, caller, delivery, made, lastTold>>

StoreChannel(x) == SetChannel(x, "disabled", {}) \/ \E events \in SUBSET Events : SetChannel(x, "enabled", events)

\* Refused when a channel has its name.
CreateChannel(x) == channel[x] = "missing" /\ StoreChannel(x)

\* A channel that was deleted meanwhile stays so.
UpdateChannel(x) == channel[x] # "missing" /\ StoreChannel(x)

DeleteChannel(x) == channel[x] # "missing" /\ SetChannel(x, "missing", {})

ChannelNext == \E x \in Channels : CreateChannel(x) \/ UpdateChannel(x) \/ DeleteChannel(x)

\* Alerts and notices are in memory.
Restarts ==
    /\ active' = "off" /\ caller' = [c \in Callers |-> Nothing]
    /\ queue' = <<>> /\ sending' = NoNotice /\ retrying' = {}
    /\ troubled' = TRUE
    /\ UNCHANGED <<channel, picks, made, lastTold>>

NoticeInit ==
    /\ active = "off" /\ caller = [c \in Callers |-> Nothing]
    /\ channel = [x \in Channels |-> "enabled"]
    /\ picks \in [Channels -> SUBSET Events]
    /\ queue = <<>> /\ sending = NoNotice /\ retrying = {}
    /\ made = 0
    /\ lastTold = [x \in Channels |-> "off"]
    /\ troubled = FALSE

NoticeNext ==
    \/ AlertNext \/ DispatchNext \/ Restarts
    \/ \E n \in retrying : Retry(n)
    \/ ChannelNext

NoticeSpec == NoticeInit /\ [][NoticeNext]_noticeVars

\* The background thread goes on (every send has a timeout), and so do timers.
NoticeFairness ==
    /\ WF_noticeVars(DispatchNext)
    /\ WF_noticeVars(\E n \in retrying : Retry(n))

-----------------------------------------------------------------------------
(* Properties. *)

\* Once all notices are delivered, what a channel was told last is how the alert is, if it
\* gets what would tell it so: changes of severity are told too. Unless a delivery failed, the
\* channels could not be read, the queue was full, a channel was changed, the process
\* restarted, or two threads told at once (alerts.py: fire; notify.py: emit).
LastNoticeHolds ==
    ~troubled /\ Telling = {} /\ queue = <<>> /\ sending = NoNotice
        => \A x \in Channels : EventOf(active) \in picks[x] => lastTold[x] = active

\* Every notice that fails leaves the queue, the thread and the timers in the end, after
\* so many attempts, whatever else is queued (notify.py: _handle).
NoticesSettle == \A i \in 1 .. MaxNotices :
    (\E n \in retrying : n.id = i) ~> (\A n \in retrying \cup ToSet(queue) \cup {sending} : n.id # i)
=============================================================================
