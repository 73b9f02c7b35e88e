---------------------------- MODULE RemoteTracks ----------------------------
(***************************************************************************)
(* Data tracks published by other participants:                            *)
(* livekit-datatrack/src/remote/manager.rs and mod.rs, with the part of    *)
(* livekit/src/room/mod.rs that carries their events.                      *)
(*                                                                         *)
(* Manager reads event_in and writes event_out, both bounded.  The first   *)
(* subscriber of a track makes it ask the SFU for a handle; once that is   *)
(* assigned, a TrackTask turns the packets that carry it into frames on a  *)
(* broadcast channel, which later subscribers join.  When the last one has *)
(* left, the task asks the manager to unsubscribe and ends.                *)
(*                                                                         *)
(* Data abstraction: all tracks belong to one publisher, whose updates     *)
(* list all its tracks; a frame is one packet.  What lies beyond position  *)
(* Capacity of a channel is a sender that waits for room, as in            *)
(* LocalTracks.                                                            *)
(***************************************************************************)
EXTENDS Naturals, Sequences, FiniteSets, SequencesExt

CONSTANTS
  Tracks,         \* tracks of the publisher
  Subscribers,    \* calls of RemoteDataTrack::subscribe
  NoTrack,        \* no track at all
  NoSubscriber,   \* no subscriber at all
  Capacity,       \* EVENT_BUFFER_COUNT
  PacketCapacity, \* PACKET_BUFFER_COUNT
  MaxPackets,     \* packets sent by the SFU in all
  MaxRestarts,    \* restarts of the session
  MayUnpublish,   \* whether the publisher may unpublish
  MayTimeOut,     \* whether subscribe may wait for its ten seconds
  MayClose        \* whether the room may be closed

ASSUME RemoteTracksAssumption ==
  /\ NoTrack \notin Tracks
  /\ NoSubscriber \notin Subscribers
  /\ IsFiniteSet(Tracks)
  /\ Capacity \in Nat \ {0}
  /\ PacketCapacity \in Nat \ {0}
  /\ MaxPackets \in Nat
  /\ MaxRestarts \in Nat
  /\ {MayUnpublish, MayTimeOut, MayClose} \subseteq BOOLEAN

VARIABLES
  event_in,    \* Manager.event_in_rx and the senders waiting for it
  event_out,   \* Manager.event_out_tx, the manager waiting for it included
  subscription,\* descriptors: "absent", "none", "pending" or "active"
  result_txs,  \* SubscriptionState::Pending.result_txs
  sub_handle,  \* SubscriptionState::Active.sub_handle, 0 when there is none
  sub_handles, \* Manager.sub_handles, the index of the handles
  published,   \* the watch channel Descriptor.published_tx
  manager,     \* "running", "closing" or "ended"
  todo,        \* descriptors shutdown() has still to visit
  joining,     \* the track whose task shutdown() waits for
  task,        \* TrackTask: "none", "running", "leaving" or "done"
  packets,     \* packets in the packet channel of a track
  channel,     \* the number of frame channels a track has had
  call,        \* where a call of subscribe, then its stream, is
  want,        \* the track a subscriber asked for
  reads,       \* the frame channel a subscriber reads
  late,        \* history: joined a channel whose task was leaving or gone
  known,       \* tracks the application was told of
  forwarding,  \* remote_dt_forward_task has not ended
  link,        \* "up", "down" while reconnecting, or "closed"
  toSfu,       \* subscription updates on their way to the SFU
  fromSfu,     \* messages on their way to the room
  server,      \* tracks that are published
  sfuHandle,   \* the handle the SFU assigned, 0 when there is none
  nextHandle,  \* the next handle of this session
  sent,        \* packets sent so far
  restarts,    \* restarts so far
  lost         \* history: what events other than packets found event_in full

mgrVars == <<subscription, result_txs, sub_handle, sub_handles, published,
             manager, todo, joining, channel>>
taskVars == <<task, packets>>
callVars == <<call, want, reads, late, known>>
sfuVars == <<toSfu, fromSfu, server, sfuHandle, nextHandle>>
netVars == <<forwarding, link, sent, restarts>>
vars == <<event_in, event_out, mgrVars, taskVars, callVars, sfuVars, netVars,
          lost>>

Handles == 1..(Cardinality(Tracks) + Cardinality(Subscribers))

Event(type, t, c, h, S) ==
  [type |-> type, track |-> t, subscriber |-> c, handle |-> h, tracks |-> S]
SubscribeRequest(c) == Event("SubscribeRequest", NoTrack, c, 0, {})
UnsubscribeRequest(t) == Event("UnsubscribeRequest", t, NoSubscriber, 0, {})
PublicationUpdates(S) ==
  Event("SfuPublicationUpdates", NoTrack, NoSubscriber, 0, S)
SubscriberHandle(h, t) == Event("SfuSubscriberHandles", t, NoSubscriber, h, {})
PacketReceived(h) == Event("PacketReceived", NoTrack, NoSubscriber, h, {})
Global(type) == Event(type, NoTrack, NoSubscriber, 0, {})

\* Output events.
Output(type, t) == [type |-> type, track |-> t]

\* The loss of an event of this type about t (or about no track).
Loss(type, t) == [type |-> type, track |-> t]

\* ManagerInput::send: an event that finds the channel full is lost.
TrySend(e) ==
  \/ /\ Len(event_in) < Capacity
     /\ manager # "ended"
     /\ event_in' = Append(event_in, e)
     /\ UNCHANGED lost
  \/ /\ Len(event_in) >= Capacity \/ manager = "ended"
     /\ lost' = IF e.type = "PacketReceived" THEN lost
                ELSE lost \cup {Loss(e.type, e.track)}
     /\ UNCHANGED event_in

\* event_out_tx.send() of several messages, in this order.
EmitAll(q) == event_out' = IF forwarding THEN event_out \o q ELSE event_out

\* A sender waits for room to queue e.
Waits(e) == \E i \in 1..Len(event_in) : i > Capacity /\ event_in[i] = e

\* The receivers of the current frame channel of t.
Readers(t) == {c \in Subscribers :
                 call[c] = "reading" /\ want[c] = t /\ reads[c] = channel[t]}

-----------------------------------------------------------------------------
(***************************************************************************)
(* The application                                                         *)
(***************************************************************************)

\* subscribe_with_options up to the wait for its result.
Subscribe(c, t) ==
  /\ call[c] = "idle"
  /\ t \in known
  /\ want' = [want EXCEPT ![c] = t]
  /\ \/ /\ manager # "ended"
        /\ event_in' = Append(event_in, SubscribeRequest(c))
        /\ call' = [call EXCEPT ![c] = "asking"]
     \/ /\ manager = "ended"
        /\ call' = [call EXCEPT ![c] = "failed"]
        /\ UNCHANGED event_in
  /\ UNCHANGED <<event_out, mgrVars, taskVars, reads, late, known, sfuVars,
                 netVars, lost>>

SubscribeTimeout(c) ==
  /\ MayTimeOut
  /\ call[c] = "asking"
  /\ ~Waits(SubscribeRequest(c))
  /\ call' = [call EXCEPT ![c] = "timedout"]
  /\ UNCHANGED <<event_in, event_out, mgrVars, taskVars, want, reads, late,
                 known, sfuVars, netVars, lost>>

\* The stream is dropped.
DropStream(c) ==
  /\ call[c] = "reading"
  /\ call' = [call EXCEPT ![c] = "dropped"]
  /\ UNCHANGED <<event_in, event_out, mgrVars, taskVars, want, reads, late,
                 known, sfuVars, netVars, lost>>

\* poll_next returns None: no sender of the channel is left.
StreamEnds(c) ==
  /\ call[c] = "reading"
  /\ \/ reads[c] # channel[want[c]]
     \/ subscription[want[c]] # "active" /\ task[want[c]] = "done"
  /\ call' = [call EXCEPT ![c] = "ended"]
  /\ UNCHANGED <<event_in, event_out, mgrVars, taskVars, want, reads, late,
                 known, sfuVars, netVars, lost>>

-----------------------------------------------------------------------------
(***************************************************************************)
(* TrackTask::run, whose select! is biased: the publish state first, then  *)
(* the absence of readers, then packets                                    *)
(***************************************************************************)
TaskUnpublished(t) ==
  /\ task[t] = "running"
  /\ ~published[t]
  /\ task' = [task EXCEPT ![t] = "done"]
  /\ packets' = [packets EXCEPT ![t] = 0]
  /\ UNCHANGED <<event_in, event_out, mgrVars, callVars, sfuVars, netVars,
                 lost>>

\* A broken variant of NoReaders: one reader is overlooked.
NoReadersOffByOne(t) == Cardinality(Readers(t)) <= 1

NoReaders(t) == Readers(t) = {}

\* frame_tx.closed(): the request is queued or waits for room.
TaskClosed(t) ==
  /\ task[t] = "running"
  /\ published[t]
  /\ NoReaders(t)
  /\ task' = [task EXCEPT ![t] = "leaving"]
  /\ event_in' = IF manager = "ended" THEN event_in
                 ELSE Append(event_in, UnsubscribeRequest(t))
  /\ UNCHANGED <<event_out, mgrVars, packets, callVars, sfuVars, netVars,
                 lost>>

TaskPacket(t) ==
  /\ task[t] = "running"
  /\ published[t]
  /\ ~NoReaders(t)
  /\ packets[t] > 0
  /\ packets' = [packets EXCEPT ![t] = @ - 1]
  /\ UNCHANGED <<event_in, event_out, mgrVars, task, callVars, sfuVars,
                 netVars, lost>>

TaskEnd(t) ==
  /\ task[t] = "leaving"
  /\ ~Waits(UnsubscribeRequest(t))
  /\ task' = [task EXCEPT ![t] = "done"]
  /\ packets' = [packets EXCEPT ![t] = 0]
  /\ UNCHANGED <<event_in, event_out, mgrVars, callVars, sfuVars, netVars,
                 lost>>

-----------------------------------------------------------------------------
(***************************************************************************)
(* Manager::run: one handler per input event                               *)
(***************************************************************************)

\* The manager takes its next event, which has this type.
Take(type) ==
  /\ manager = "running"
  /\ Len(event_out) <= Capacity
  /\ event_in # <<>>
  /\ Head(event_in).type = type
  /\ event_in' = Tail(event_in)

\* result_tx.send: a caller that has gone is not answered.
Answer(C, a) ==
  call' = [c \in Subscribers |->
             IF c \in C /\ call[c] = "asking" THEN a ELSE call[c]]

\* The callers in C get a receiver of frame channel n of t.
Join(t, C, n) ==
  /\ Answer(C, "reading")
  /\ reads' = [c \in Subscribers |->
                 IF c \in C /\ call[c] = "asking" THEN n ELSE reads[c]]

OnSubscribeRequest ==
  /\ Take("SubscribeRequest")
  /\ LET c == Head(event_in).subscriber
         t == want[c]
     IN \/ /\ subscription[t] = "absent"
           /\ Answer({c}, "failed")
           /\ UNCHANGED <<event_out, subscription, result_txs, reads, late>>
        \/ /\ subscription[t] = "none"
           /\ EmitAll(<<Output("Subscribe", t)>>)
           /\ subscription' = [subscription EXCEPT ![t] = "pending"]
           /\ result_txs' = [result_txs EXCEPT ![t] = {c}]
           /\ UNCHANGED <<call, reads, late>>
        \/ /\ subscription[t] = "pending"
           /\ result_txs' = [result_txs EXCEPT ![t] = @ \cup {c}]
           /\ UNCHANGED <<event_out, subscription, call, reads, late>>
        \/ /\ subscription[t] = "active"
           /\ Join(t, {c}, channel[t])
           /\ late' = [late EXCEPT ![c] = @ \/ task[t] # "running"]
           /\ UNCHANGED <<event_out, subscription, result_txs>>
  /\ UNCHANGED <<sub_handle, sub_handles, published, manager, todo, joining,
                 channel, taskVars, want, known, sfuVars, netVars, lost>>

\* A broken variant of Forget: the index keeps the handle.
ForgetNothing(t) == UNCHANGED sub_handles

\* sub_handles.remove(&sub_handle).
Forget(t) == sub_handles' = [sub_handles EXCEPT ![sub_handle[t]] = NoTrack]

\* A broken variant of Unsubscribed: the SFU is not told.
UnsubscribedSilently(t) ==
  /\ subscription[t] = "active"
  /\ subscription' = [subscription EXCEPT ![t] = "none"]
  /\ Forget(t)
  /\ UNCHANGED event_out

Unsubscribed(t) ==
  /\ subscription[t] = "active"
  /\ subscription' = [subscription EXCEPT ![t] = "none"]
  /\ Forget(t)
  /\ EmitAll(<<Output("Unsubscribe", t)>>)

OnUnsubscribeRequest ==
  /\ Take("UnsubscribeRequest")
  /\ LET t == Head(event_in).track
     IN \/ Unsubscribed(t)
        \/ /\ subscription[t] # "active"
           /\ UNCHANGED <<subscription, sub_handles, event_out>>
  /\ UNCHANGED <<result_txs, sub_handle, published, manager, todo, joining,
                 channel, taskVars, callVars, sfuVars, netVars, lost>>

\* handle_track_unpublished for every track in S: a pending caller finds the
\* sender of its result gone.
Withdraw(S) ==
  /\ published' = [t \in Tracks |-> published[t] /\ t \notin S]
  /\ sub_handles' = [h \in Handles |->
       IF \E t \in S : subscription[t] = "active" /\ sub_handle[t] = h
       THEN NoTrack ELSE sub_handles[h]]
  /\ Answer(UNION {result_txs[t] : t \in S}, "failed")
  /\ result_txs' = [t \in Tracks |-> IF t \in S THEN {} ELSE result_txs[t]]

\* handle_track_published for the tracks of the update that are not known,
\* then handle_track_unpublished for those that the update misses.
OnSfuPublicationUpdates ==
  /\ Take("SfuPublicationUpdates")
  /\ LET S == Head(event_in).tracks
         new == {t \in S : subscription[t] = "absent"}
         gone == {t \in Tracks \ S : subscription[t] # "absent"}
     IN /\ subscription' = [t \in Tracks |->
             IF t \in new THEN "none"
             ELSE IF t \in gone THEN "absent" ELSE subscription[t]]
        /\ \E p \in SetToSeqs(new), q \in SetToSeqs(gone) :
             EmitAll([i \in DOMAIN p |-> Output("TrackPublished", p[i])] \o
                     [i \in DOMAIN q |-> Output("TrackUnpublished", q[i])])
        /\ Withdraw(gone)
  /\ UNCHANGED <<sub_handle, manager, todo, joining, channel, taskVars, want,
                 reads, late, known, sfuVars, netVars, lost>>

\* register_subscriber_handle for an active subscription: its old handle is
\* removed from the index, whoever owns it by now.
Reassign(h, t) ==
  /\ subscription[t] = "active"
  /\ sub_handle' = [sub_handle EXCEPT ![t] = h]
  /\ sub_handles' = [sub_handles EXCEPT ![sub_handle[t]] = NoTrack, ![h] = t]
  /\ UNCHANGED <<subscription, result_txs, channel, task, packets, call, reads>>

\* register_subscriber_handle for a pending one: a task and a channel.
Activate(h, t) ==
  /\ subscription[t] = "pending"
  /\ subscription' = [subscription EXCEPT ![t] = "active"]
  /\ sub_handle' = [sub_handle EXCEPT ![t] = h]
  /\ sub_handles' = [sub_handles EXCEPT ![h] = t]
  /\ channel' = [channel EXCEPT ![t] = @ + 1]
  /\ task' = [task EXCEPT ![t] = "running"]
  /\ packets' = [packets EXCEPT ![t] = 0]
  /\ Join(t, result_txs[t], channel[t] + 1)
  /\ result_txs' = [result_txs EXCEPT ![t] = {}]

OnSfuSubscriberHandles ==
  /\ Take("SfuSubscriberHandles")
  /\ LET h == Head(event_in).handle
         t == Head(event_in).track
     IN \/ Reassign(h, t)
        \/ Activate(h, t)
        \/ /\ subscription[t] \in {"absent", "none"}
           /\ UNCHANGED <<subscription, result_txs, sub_handle, sub_handles,
                          channel, taskVars, call, reads>>
  /\ UNCHANGED <<event_out, published, manager, todo, joining, want, late,
                 known, sfuVars, netVars, lost>>

\* The packet channel of t takes one more: its receiver is alive, and there is
\* room.
TakesPacket(t) ==
  /\ subscription[t] = "active"
  /\ task[t] \in {"running", "leaving"}
  /\ packets[t] < PacketCapacity

\* A packet for an unknown handle, or one that its track does not take, is
\* dropped.
OnPacketReceived ==
  /\ Take("PacketReceived")
  /\ packets' = [t \in Tracks |->
       IF t = sub_handles[Head(event_in).handle] /\ TakesPacket(t)
       THEN packets[t] + 1 ELSE packets[t]]
  /\ UNCHANGED <<event_out, mgrVars, task, callVars, sfuVars, netVars, lost>>

Resubscribed == {t \in Tracks : subscription[t] \in {"pending", "active"}}

\* In the order of a hash map.
OnResendSubscriptionUpdates ==
  /\ Take("ResendSubscriptionUpdates")
  /\ \E q \in SetToSeqs(Resubscribed) :
       EmitAll([i \in DOMAIN q |-> Output("Subscribe", q[i])])
  /\ UNCHANGED <<mgrVars, taskVars, callVars, sfuVars, netVars, lost>>

OnShutdown ==
  /\ Take("Shutdown")
  /\ manager' = "closing"
  /\ todo' = {t \in Tracks : subscription[t] # "absent"}
  /\ UNCHANGED <<event_out, subscription, result_txs, sub_handle, sub_handles,
                 published, joining, channel, taskVars, callVars, sfuVars,
                 netVars, lost>>

\* published_tx.send(false).
Retire(t) == published' = [published EXCEPT ![t] = FALSE]

\* shutdown(): the task of an active subscription is awaited.
ShutdownTrack(t) ==
  /\ manager = "closing"
  /\ joining = NoTrack
  /\ t \in todo
  /\ todo' = todo \ {t}
  /\ Retire(t)
  /\ Answer(result_txs[t], "failed")
  /\ result_txs' = [result_txs EXCEPT ![t] = {}]
  /\ joining' = IF subscription[t] = "active" THEN t ELSE NoTrack
  /\ UNCHANGED <<event_in, event_out, subscription, sub_handle, sub_handles,
                 manager, channel, taskVars, want, reads, late, known, sfuVars,
                 netVars, lost>>

\* The task has ended, and its descriptor is dropped.
ShutdownJoined ==
  /\ joining \in Tracks
  /\ task[joining] = "done"
  /\ joining' = NoTrack
  /\ subscription' = [subscription EXCEPT ![joining] = "absent"]
  /\ Forget(joining)
  /\ UNCHANGED <<event_in, event_out, result_txs, sub_handle, published,
                 manager, todo, channel, taskVars, callVars, sfuVars, netVars,
                 lost>>

\* The manager is dropped, and the requests in event_in with it.
ManagerEnd ==
  /\ manager = "closing"
  /\ todo = {}
  /\ joining = NoTrack
  /\ manager' = "ended"
  /\ event_in' = <<>>
  /\ Answer(Subscribers, "failed")
  /\ UNCHANGED <<event_out, subscription, result_txs, sub_handle, sub_handles,
                 published, todo, joining, channel, taskVars, want, reads, late,
                 known, sfuVars, netVars, lost>>

-----------------------------------------------------------------------------
(***************************************************************************)
(* The room and the SFU                                                    *)
(***************************************************************************)

\* remote_dt_forward_task: publications go to the application; an update of a
\* subscription waits for a reconnection under way.
ForwardOut ==
  /\ forwarding
  /\ event_out # <<>>
  /\ event_out' = Tail(event_out)
  /\ LET e == Head(event_out)
     IN \/ /\ e.type \in {"TrackPublished", "TrackUnpublished"}
           /\ known' = IF e.type = "TrackPublished" THEN known \cup {e.track}
                       ELSE known
           /\ UNCHANGED toSfu
        \/ /\ e.type \in {"Subscribe", "Unsubscribe"}
           /\ link # "down"
           /\ toSfu' = IF link = "up" THEN Append(toSfu, e) ELSE toSfu
           /\ UNCHANGED known
  /\ UNCHANGED <<event_in, mgrVars, taskVars, call, want, reads, late, fromSfu,
                 server, sfuHandle, nextHandle, netVars, lost>>

\* The SFU assigns a handle to a new subscription and tells it; it forgets
\* the handle of one that is given up.  Handles are not reused in a session.
SfuServe ==
  /\ toSfu # <<>>
  /\ toSfu' = Tail(toSfu)
  /\ LET t == Head(toSfu).track
     IN \/ /\ Head(toSfu).type = "Subscribe"
           /\ t \in server
           /\ sfuHandle[t] = 0
           /\ nextHandle \in Handles
           /\ sfuHandle' = [sfuHandle EXCEPT ![t] = nextHandle]
           /\ nextHandle' = nextHandle + 1
           /\ fromSfu' = Append(fromSfu, SubscriberHandle(nextHandle, t))
        \/ /\ Head(toSfu).type = "Subscribe"
           /\ t \notin server \/ sfuHandle[t] # 0
           /\ UNCHANGED <<fromSfu, sfuHandle, nextHandle>>
        \/ /\ Head(toSfu).type = "Unsubscribe"
           /\ sfuHandle' = [sfuHandle EXCEPT ![t] = 0]
           /\ UNCHANGED <<fromSfu, nextHandle>>
  /\ UNCHANGED <<event_in, event_out, mgrVars, taskVars, callVars, server,
                 netVars, lost>>

\* A packet of t arrives over the data channel, in no order with the signals.
SfuPacket(t) ==
  /\ link = "up"
  /\ sent < MaxPackets
  /\ sfuHandle[t] # 0
  /\ sent' = sent + 1
  /\ TrySend(PacketReceived(sfuHandle[t]))
  /\ UNCHANGED <<event_out, mgrVars, taskVars, callVars, sfuVars, forwarding,
                 link, restarts>>

\* The publisher unpublishes t.
RemoteUnpublish(t) ==
  /\ MayUnpublish
  /\ t \in server
  /\ server' = server \ {t}
  /\ sfuHandle' = [sfuHandle EXCEPT ![t] = 0]
  /\ fromSfu' = IF link = "up"
                THEN Append(fromSfu, PublicationUpdates(server \ {t}))
                ELSE fromSfu
  /\ UNCHANGED <<event_in, event_out, mgrVars, taskVars, callVars, toSfu,
                 nextHandle, netVars, lost>>

\* EngineEvent::RemoteDataTrackInput.
Deliver ==
  /\ fromSfu # <<>>
  /\ fromSfu' = Tail(fromSfu)
  /\ TrySend(Head(fromSfu))
  /\ UNCHANGED <<event_out, mgrVars, taskVars, callVars, toSfu, server,
                 sfuHandle, nextHandle, netVars>>

\* The session is lost, and with it every handle.
LinkDown ==
  /\ link = "up"
  /\ restarts < MaxRestarts
  /\ restarts' = restarts + 1
  /\ link' = "down"
  /\ toSfu' = <<>>
  /\ \E n \in 0..Len(fromSfu) : fromSfu' = SubSeq(fromSfu, 1, n)
  /\ sfuHandle' = [t \in Tracks |-> 0]
  /\ nextHandle' = 1
  /\ UNCHANGED <<event_in, event_out, mgrVars, taskVars, callVars, server,
                 forwarding, sent, lost>>

\* handle_restarted; the join response lists the tracks of the publisher.
Restarted ==
  /\ link = "down"
  /\ fromSfu = <<>>
  /\ link' = "up"
  /\ fromSfu' = <<PublicationUpdates(server)>>
  /\ TrySend(Global("ResendSubscriptionUpdates"))
  /\ UNCHANGED <<event_out, mgrVars, taskVars, callVars, toSfu, server,
                 sfuHandle, nextHandle, forwarding, sent, restarts>>

\* RoomSession::close up to close_tx.send.
CloseRoom ==
  /\ MayClose
  /\ link # "closed"
  /\ link' = "closed"
  /\ toSfu' = <<>>
  /\ fromSfu' = <<>>
  /\ sfuHandle' = [t \in Tracks |-> 0]
  /\ UNCHANGED <<event_in, event_out, mgrVars, taskVars, callVars, server,
                 nextHandle, forwarding, sent, restarts, lost>>

\* remote_dt_forward_task receives from close_rx.
ForwardStop ==
  /\ link = "closed"
  /\ forwarding
  /\ forwarding' = FALSE
  /\ event_out' = <<>>
  /\ TrySend(Global("Shutdown"))
  /\ UNCHANGED <<mgrVars, taskVars, callVars, sfuVars, link, sent, restarts>>

-----------------------------------------------------------------------------
\* The room is joined, and the join response on its way to the manager.
Init ==
  /\ event_in = <<>>
  /\ event_out = <<>>
  /\ subscription = [t \in Tracks |-> "absent"]
  /\ result_txs = [t \in Tracks |-> {}]
  /\ sub_handle = [t \in Tracks |-> 0]
  /\ sub_handles = [h \in Handles |-> NoTrack]
  /\ published = [t \in Tracks |-> TRUE]
  /\ manager = "running"
  /\ todo = {}
  /\ joining = NoTrack
  /\ task = [t \in Tracks |-> "none"]
  /\ packets = [t \in Tracks |-> 0]
  /\ channel = [t \in Tracks |-> 0]
  /\ call = [c \in Subscribers |-> "idle"]
  /\ want = [c \in Subscribers |-> NoTrack]
  /\ reads = [c \in Subscribers |-> 0]
  /\ late = [c \in Subscribers |-> FALSE]
  /\ known = {}
  /\ forwarding = TRUE
  /\ link = "up"
  /\ toSfu = <<>>
  /\ fromSfu = <<PublicationUpdates(Tracks)>>
  /\ server = Tracks
  /\ sfuHandle = [t \in Tracks |-> 0]
  /\ nextHandle = 1
  /\ sent = 0
  /\ restarts = 0
  /\ lost = {}

TaskStep(t) ==
  TaskUnpublished(t) \/ TaskClosed(t) \/ TaskPacket(t) \/ TaskEnd(t)

ManagerStep ==
  \/ OnSubscribeRequest
  \/ OnUnsubscribeRequest
  \/ OnSfuPublicationUpdates
  \/ OnSfuSubscriberHandles
  \/ OnPacketReceived
  \/ OnResendSubscriptionUpdates
  \/ OnShutdown
  \/ \E t \in Tracks : ShutdownTrack(t)
  \/ ShutdownJoined
  \/ ManagerEnd

RoomStep == ForwardOut \/ Deliver \/ Restarted \/ ForwardStop

\* What the tasks of this client, the network and the SFU do.
Progress ==
  \/ ManagerStep
  \/ RoomStep
  \/ SfuServe
  \/ \E t \in Tracks : TaskStep(t)
  \/ \E c \in Subscribers : StreamEnds(c)

Next ==
  \/ Progress
  \/ \E c \in Subscribers :
       \/ \E t \in Tracks : Subscribe(c, t)
       \/ SubscribeTimeout(c)
       \/ DropStream(c)
  \/ \E t \in Tracks : SfuPacket(t) \/ RemoteUnpublish(t)
  \/ LinkDown
  \/ CloseRoom

Spec == Init /\ [][Next]_vars

-----------------------------------------------------------------------------
(***************************************************************************)
(* Properties                                                              *)
(***************************************************************************)
InputTypes == {"SubscribeRequest", "UnsubscribeRequest",
               "SfuPublicationUpdates", "SfuSubscriberHandles",
               "PacketReceived", "ResendSubscriptionUpdates", "Shutdown"}
InputEvents == [type : InputTypes, track : Tracks \cup {NoTrack},
                subscriber : Subscribers \cup {NoSubscriber},
                handle : Nat, tracks : SUBSET Tracks]
Losses == [type : InputTypes, track : Tracks \cup {NoTrack}]
OutputEvents == [type : {"Subscribe", "Unsubscribe", "TrackPublished",
                         "TrackUnpublished"}, track : Tracks]

TypeOK ==
  /\ event_in \in Seq(InputEvents)
  /\ event_out \in Seq(OutputEvents)
  /\ subscription \in [Tracks -> {"absent", "none", "pending", "active"}]
  /\ result_txs \in [Tracks -> SUBSET Subscribers]
  /\ sub_handle \in [Tracks -> Nat]
  /\ sub_handles \in [Handles -> Tracks \cup {NoTrack}]
  /\ published \in [Tracks -> BOOLEAN]
  /\ manager \in {"running", "closing", "ended"}
  /\ todo \subseteq Tracks
  /\ joining \in Tracks \cup {NoTrack}
  /\ task \in [Tracks -> {"none", "running", "leaving", "done"}]
  /\ packets \in [Tracks -> 0..PacketCapacity]
  /\ channel \in [Tracks -> Nat]
  /\ call \in [Subscribers -> {"idle", "asking", "timedout", "reading",
                               "dropped", "ended", "failed"}]
  /\ want \in [Subscribers -> Tracks \cup {NoTrack}]
  /\ reads \in [Subscribers -> Nat]
  /\ late \in [Subscribers -> BOOLEAN]
  /\ known \subseteq Tracks
  /\ forwarding \in BOOLEAN
  /\ link \in {"up", "down", "closed"}
  /\ toSfu \in Seq(OutputEvents)
  /\ fromSfu \in Seq(InputEvents)
  /\ server \subseteq Tracks
  /\ sfuHandle \in [Tracks -> Nat]
  /\ nextHandle \in Nat
  /\ sent \in Nat
  /\ restarts \in Nat
  /\ lost \subseteq Losses

\* Everything on its way has arrived and no task is about to move.
Quiet ==
  /\ link = "up"
  /\ manager = "running"
  /\ \A q \in {event_in, event_out, toSfu, fromSfu} : q = <<>>
  /\ \A t \in Tracks : task[t] = "running" => published[t] /\ ~NoReaders(t)

\* Every entry of the index of handles leads to an active subscription that
\* has this handle, across new assignments, unsubscriptions and unpublished
\* tracks: on_packet_received never meets the cases it warns about.
IndexSound ==
  \A h \in Handles :
    sub_handles[h] # NoTrack =>
      /\ subscription[sub_handles[h]] = "active"
      /\ sub_handle[sub_handles[h]] = h

\* Once things are quiet, the SFU holds a subscription exactly for the tracks
\* that have a subscription here, with the handle known here: a subscription
\* survives a restart, and nothing stays subscribed when all readers are gone.
\* Lost packets excuse nothing.  A subscription is missing at the SFU only if
\* the event that asks to resend them was lost, and its handle is not known
\* here only if the event that brings handles for this track was.
SfuAgrees ==
  Quiet => \A t \in server :
    /\ sfuHandle[t] # 0 => subscription[t] \in {"pending", "active"}
    /\ subscription[t] \in {"pending", "active"} =>
         \/ sfuHandle[t] = 0
            /\ Loss("ResendSubscriptionUpdates", NoTrack) \in lost
         \/ sfuHandle[t] # 0
            /\ \/ sub_handle[t] = sfuHandle[t]
               \/ Loss("SfuSubscriberHandles", t) \in lost

\* A stream ends only because its track was unpublished or the manager shut
\* down, unless its subscriber joined after the task of the channel had seen
\* its last reader leave: then the request to unsubscribe of that task ends it.
StreamsEndWithTrack ==
  \A c \in Subscribers :
    call[c] = "ended" => ~published[want[c]] \/ late[c]

\* Once things are quiet, the packets of an active subscription find their
\* track (RoomSession::handle_restarted: "Ensure SFU continues delivering
\* packets for existing data track subscriptions").
ActiveIsRouted ==
  Quiet => \A t \in Tracks :
    subscription[t] = "active" /\ sfuHandle[t] # 0 =>
      \/ sub_handles[sfuHandle[t]] = t
      \/ Loss("SfuSubscriberHandles", t) \in lost
=============================================================================
