-------------------------- MODULE RemoteTracksProofs --------------------------
(***************************************************************************)
(* Theorems about RemoteTracks, for any number of tracks, subscribers,     *)
(* packets, restarts and any capacity of the channels.                     *)
(***************************************************************************)
EXTENDS RemoteTracks, FiniteSetTheorems, TLAPS

-----------------------------------------------------------------------------
\* The requests and messages a handler acts on name what they are about.
Wellformed(e) ==
  /\ e \in InputEvents
  /\ e.type = "SubscribeRequest" => e.subscriber \in Subscribers
  /\ e.type \in {"UnsubscribeRequest", "SfuSubscriberHandles"} =>
       e.track \in Tracks

\* A caller whose request is on its way, or that waits for the handle of a
\* track, has called subscribe for that track.
Asked(c) == call[c] # "idle" /\ want[c] \in Tracks

EventsInv ==
  /\ \A i \in 1..Len(event_in) :
       /\ Wellformed(event_in[i])
       /\ event_in[i].type = "SubscribeRequest" =>
            Asked(event_in[i].subscriber)
  /\ \A i \in 1..Len(fromSfu) :
       /\ Wellformed(fromSfu[i])
       /\ fromSfu[i].type \notin {"SubscribeRequest", "UnsubscribeRequest"}
  /\ \A t \in Tracks : \A c \in result_txs[t] : Asked(c) /\ want[c] = t

\* The request to unsubscribe from t is in the queue at position i.
Leave(t, i) ==
  event_in[i].type = "UnsubscribeRequest" /\ event_in[i].track = t

\* While a track is published, its task runs only for an active subscription,
\* and at most one request to unsubscribe, that of the task of the active
\* subscription, is on its way.
LeaveInv ==
  /\ joining \in Tracks => ~published[joining]
  /\ \A t \in Tracks : published[t] =>
       /\ task[t] = "running" => subscription[t] = "active"
       /\ \A i \in 1..Len(event_in) : Leave(t, i) =>
            /\ task[t] \in {"leaving", "done"}
            /\ subscription[t] = "active"
       /\ \A i, j \in 1..Len(event_in) : Leave(t, i) /\ Leave(t, j) => i = j

\* A subscriber that reads a published track, and did not join too late, reads
\* the current channel of a task that runs.
ReadingInv ==
  \A c \in Subscribers :
    call[c] = "reading" /\ ~late[c] /\ published[want[c]] =>
      reads[c] = channel[want[c]] /\ task[want[c]] = "running"

StreamInv ==
  /\ \A c \in Subscribers : call[c] # "idle" => want[c] \in Tracks
  /\ LeaveInv
  /\ ReadingInv
  /\ StreamsEndWithTrack
-----------------------------------------------------------------------------
(***************************************************************************)
(* Queues and their messages                                               *)
(***************************************************************************)

\* What Append and Tail make of a sequence.
LEMMA AppendOne ==
  ASSUME NEW S, NEW q \in Seq(S), NEW e \in S
  PROVE  /\ Append(q, e) \in Seq(S)
         /\ Len(q) \in Nat /\ Len(Append(q, e)) = Len(q) + 1
         /\ \A i \in 1..Len(q) : Append(q, e)[i] = q[i]
         /\ Append(q, e)[Len(q) + 1] = e
  OBVIOUS

LEMMA TailOne ==
  ASSUME NEW S, NEW q \in Seq(S), q # <<>>
  PROVE  /\ Tail(q) \in Seq(S)
         /\ Len(q) \in Nat /\ Len(Tail(q)) = Len(q) - 1
         /\ 1 \in 1..Len(q) /\ Head(q) = q[1] /\ Head(q) \in S
         /\ \A i \in 1..Len(Tail(q)) :
              i + 1 \in 1..Len(q) /\ Tail(q)[i] = q[i + 1]
  OBVIOUS

\* The messages of the model are well formed.
LEMMA Messages ==
  /\ \A c \in Subscribers : /\ Wellformed(SubscribeRequest(c))
                            /\ SubscribeRequest(c).subscriber = c
                            /\ SubscribeRequest(c).type = "SubscribeRequest"
  /\ \A t \in Tracks : /\ Wellformed(UnsubscribeRequest(t))
                       /\ UnsubscribeRequest(t).track = t
                       /\ UnsubscribeRequest(t).type = "UnsubscribeRequest"
  /\ \A S \in SUBSET Tracks :
       /\ Wellformed(PublicationUpdates(S))
       /\ PublicationUpdates(S).type = "SfuPublicationUpdates"
  /\ \A h \in Nat, t \in Tracks :
       /\ Wellformed(SubscriberHandle(h, t))
       /\ SubscriberHandle(h, t).type = "SfuSubscriberHandles"
  /\ \A h \in Nat : /\ Wellformed(PacketReceived(h))
                    /\ PacketReceived(h).type = "PacketReceived"
  /\ \A type \in {"ResendSubscriptionUpdates", "Shutdown"} :
       Wellformed(Global(type)) /\ Global(type).type = type
  BY DEF SubscribeRequest, UnsubscribeRequest, PublicationUpdates,
         SubscriberHandle, PacketReceived, Global, Event, Wellformed,
         InputEvents, InputTypes

LEMMA Outputs ==
  \A type \in {"Subscribe", "Unsubscribe", "TrackPublished",
               "TrackUnpublished"} :
    \A t \in Tracks : Output(type, t) \in OutputEvents
  BY DEF Output, OutputEvents

\* A message per member of a set of tracks.
LEMMA OutputsOf ==
  ASSUME NEW S \in SUBSET Tracks, NEW q \in SetToSeqs(S),
         NEW type \in {"Subscribe", "TrackPublished", "TrackUnpublished"}
  PROVE  [i \in DOMAIN q |-> Output(type, q[i])] \in Seq(OutputEvents)
<1>1. Cardinality(S) \in Nat
  BY RemoteTracksAssumption, FS_Subset, FS_CardinalityType
<1>2. DOMAIN q = 1..Cardinality(S) /\ \A i \in DOMAIN q : q[i] \in Tracks
  BY DEF SetToSeqs
<1>3. \A i \in DOMAIN q : Output(type, q[i]) \in OutputEvents
  BY <1>2, Outputs
<1>4. QED
  BY <1>1, <1>2, <1>3

-----------------------------------------------------------------------------
(***************************************************************************)
(* Types                                                                   *)
(***************************************************************************)
LEMMA StepCases ==
  ASSUME [Next]_vars
  PROVE  \/ ManagerStep \/ RoomStep \/ SfuServe
         \/ \E t \in Tracks : TaskStep(t)
         \/ \E c \in Subscribers :
              StreamEnds(c) \/ SubscribeTimeout(c) \/ DropStream(c)
         \/ \E c \in Subscribers, t \in Tracks : Subscribe(c, t)
         \/ \E t \in Tracks : SfuPacket(t) \/ RemoteUnpublish(t)
         \/ LinkDown \/ CloseRoom
         \/ UNCHANGED vars
  BY DEF Next, Progress

SubscriptionTypes ==
  /\ subscription \in [Tracks -> {"absent", "none", "pending", "active"}]
  /\ result_txs \in [Tracks -> SUBSET Subscribers]
  /\ sub_handle \in [Tracks -> Nat]
  /\ sub_handles \in [Handles -> Tracks \cup {NoTrack}]
  /\ published \in [Tracks -> BOOLEAN]
  /\ channel \in [Tracks -> Nat]

ShutdownTypes ==
  /\ manager \in {"running", "closing", "ended"}
  /\ todo \subseteq Tracks
  /\ joining \in Tracks \cup {NoTrack}

TaskTypes ==
  /\ task \in [Tracks -> {"none", "running", "leaving", "done"}]
  /\ packets \in [Tracks -> 0..PacketCapacity]

CallTypes ==
  /\ call \in [Subscribers -> {"idle", "asking", "timedout", "reading",
                               "dropped", "ended", "failed"}]
  /\ want \in [Subscribers -> Tracks \cup {NoTrack}]
  /\ reads \in [Subscribers -> Nat]
  /\ late \in [Subscribers -> BOOLEAN]
  /\ known \subseteq Tracks

SfuTypes ==
  /\ forwarding \in BOOLEAN
  /\ link \in {"up", "down", "closed"}
  /\ server \subseteq Tracks
  /\ sfuHandle \in [Tracks -> Nat]
  /\ nextHandle \in Nat
  /\ sent \in Nat
  /\ restarts \in Nat
  /\ lost \subseteq Losses

QueueTypes ==
  /\ event_in \in Seq(InputEvents)
  /\ event_out \in Seq(OutputEvents)
  /\ toSfu \in Seq(OutputEvents)
  /\ fromSfu \in Seq(InputEvents)

LEMMA TypeParts ==
  TypeOK <=> /\ SubscriptionTypes /\ ShutdownTypes /\ TaskTypes /\ CallTypes
             /\ SfuTypes /\ QueueTypes
  BY DEF TypeOK, SubscriptionTypes, ShutdownTypes, TaskTypes, CallTypes,
         SfuTypes, QueueTypes

\* The event a handler takes.
LEMMA Taken ==
  ASSUME QueueTypes, EventsInv, NEW type, Take(type)
  PROVE  /\ Head(event_in) \in InputEvents /\ Wellformed(Head(event_in))
         /\ Head(event_in).type = type
         /\ event_in # <<>> /\ event_in' = Tail(event_in)
         /\ type = "SubscribeRequest" =>
              Asked(Head(event_in).subscriber)
<1>1. event_in # <<>> /\ event_in' = Tail(event_in) /\ Head(event_in).type = type
  BY DEF Take
<1>2. 1 \in 1..Len(event_in) /\ Head(event_in) = event_in[1]
  BY <1>1, TailOne DEF QueueTypes
<1>3. QED
  BY <1>1, <1>2 DEF EventsInv, Wellformed

LEMMA AnswerType ==
  ASSUME CallTypes, NEW C, NEW a \in {"failed", "reading"}, Answer(C, a)
  PROVE  call' \in [Subscribers -> {"idle", "asking", "timedout", "reading",
                                    "dropped", "ended", "failed"}]
  BY DEF CallTypes, Answer

LEMMA ActivateTypes ==
  ASSUME SubscriptionTypes, TaskTypes, NEW h \in Nat, NEW t \in Tracks,
         Activate(h, t), published' = published
  PROVE  SubscriptionTypes' /\ TaskTypes'
<1>1. /\ subscription' \in [Tracks -> {"absent", "none", "pending", "active"}]
      /\ sub_handle' \in [Tracks -> Nat]
  BY DEF Activate, SubscriptionTypes
<1>2. /\ result_txs' \in [Tracks -> SUBSET Subscribers]
      /\ sub_handles' \in [Handles -> Tracks \cup {NoTrack}]
  BY DEF Activate, SubscriptionTypes
<1>3. channel' \in [Tracks -> Nat]
  <2>1. channel \in [Tracks -> Nat] /\ channel[t] + 1 \in Nat
    BY DEF SubscriptionTypes
  <2>2. QED
    BY <2>1 DEF Activate
<1>4. 0 \in 0..PacketCapacity
  BY RemoteTracksAssumption
<1>5. QED
  BY <1>1, <1>2, <1>3, <1>4 DEF Activate, SubscriptionTypes, TaskTypes

\* The manager's handlers keep the types of what they change.
LEMMA ManagerTypes ==
  ASSUME TypeOK, EventsInv, ManagerStep
  PROVE  /\ SubscriptionTypes' /\ ShutdownTypes' /\ TaskTypes' /\ CallTypes'
         /\ SfuTypes'
<1>0. /\ SubscriptionTypes /\ ShutdownTypes /\ TaskTypes /\ CallTypes
      /\ SfuTypes /\ QueueTypes
  BY TypeParts
<1>s. SfuTypes'
  BY <1>0 DEF ManagerStep, OnSubscribeRequest, OnUnsubscribeRequest,
     OnSfuPublicationUpdates, OnSfuSubscriberHandles, OnPacketReceived,
     OnResendSubscriptionUpdates, OnShutdown, ShutdownTrack, ShutdownJoined,
     ManagerEnd, SfuTypes, sfuVars, netVars
<1>1. CASE OnSubscribeRequest
  <2> DEFINE c == Head(event_in).subscriber
  <2>1. c \in Subscribers /\ want[c] \in Tracks
    BY <1>0, <1>1, Taken DEF OnSubscribeRequest, Wellformed, Asked
  <2>2. /\ UNCHANGED <<sub_handle, sub_handles, published, channel, want, known,
                       manager, todo, joining, task, packets>>
        /\ subscription' \in {subscription,
                              [subscription EXCEPT ![want[c]] = "pending"]}
        /\ result_txs' \in
             {result_txs, [result_txs EXCEPT ![want[c]] = {c}],
              [result_txs EXCEPT ![want[c]] = @ \cup {c}]}
        /\ UNCHANGED call \/ Answer({c}, "failed") \/ Answer({c}, "reading")
        /\ \/ UNCHANGED reads
           \/ reads' = [d \in Subscribers |->
                          IF d \in {c} /\ call[d] = "asking"
                          THEN channel[want[c]] ELSE reads[d]]
        /\ \/ UNCHANGED late
           \/ late' = [late EXCEPT ![c] = @ \/ task[want[c]] # "running"]
    BY <1>1 DEF OnSubscribeRequest, taskVars, Join
  <2>3. SubscriptionTypes'
    BY <1>0, <2>1, <2>2 DEF SubscriptionTypes
  <2>4. CallTypes'
    <3>1. call' \in [Subscribers -> {"idle", "asking", "timedout", "reading",
                                     "dropped", "ended", "failed"}]
      BY <1>0, <2>2, AnswerType DEF CallTypes
    <3>2. reads' \in [Subscribers -> Nat]
      BY <1>0, <2>1, <2>2 DEF CallTypes, SubscriptionTypes
    <3>3. late' \in [Subscribers -> BOOLEAN]
      <4>1. (late[c] \/ task[want[c]] # "running") \in BOOLEAN
        OBVIOUS
      <4>2. QED
        BY <1>0, <2>1, <2>2, <4>1, Zenon DEF CallTypes
    <3>4. QED
      BY <1>0, <2>2, <3>1, <3>2, <3>3 DEF CallTypes
  <2>5. QED
    BY <1>0, <1>s, <2>2, <2>3, <2>4 DEF ShutdownTypes, TaskTypes
<1>2. CASE OnUnsubscribeRequest
  <2>1. Head(event_in).track \in Tracks
    BY <1>0, <1>2, Taken DEF OnUnsubscribeRequest, Wellformed
  <2>2. QED
    BY <1>0, <1>s, <1>2, <2>1 DEF OnUnsubscribeRequest, Unsubscribed, Forget,
       SubscriptionTypes, ShutdownTypes, TaskTypes, CallTypes, taskVars,
       callVars
<1>3. CASE OnSfuPublicationUpdates
  BY <1>0, <1>s, <1>3, AnswerType DEF OnSfuPublicationUpdates, Withdraw,
     SubscriptionTypes, ShutdownTypes, TaskTypes, CallTypes, taskVars
<1>4. CASE OnSfuSubscriberHandles
  <2> DEFINE h == Head(event_in).handle
             t == Head(event_in).track
  <2>1. h \in Nat /\ t \in Tracks
    BY <1>0, <1>4, Taken DEF OnSfuSubscriberHandles, Wellformed, InputEvents
  <2>2. ShutdownTypes' /\ published' = published
    BY <1>0, <1>4 DEF OnSfuSubscriberHandles, ShutdownTypes
  <2>3. CASE Reassign(h, t)
    BY <1>0, <1>s, <1>4, <2>1, <2>2, <2>3 DEF OnSfuSubscriberHandles, Reassign,
       SubscriptionTypes, TaskTypes, CallTypes
  <2>4. CASE Activate(h, t)
    <3>1. SubscriptionTypes' /\ TaskTypes'
      BY <1>0, <2>1, <2>2, <2>4, ActivateTypes
    <3>2. CallTypes'
      BY <1>0, <1>4, <2>1, <2>4, AnswerType
      DEF OnSfuSubscriberHandles, Activate, Join, SubscriptionTypes, CallTypes
    <3>3. QED
      BY <1>s, <2>2, <3>1, <3>2
  <2>5. CASE UNCHANGED <<subscription, result_txs, sub_handle, sub_handles,
                         channel, taskVars, call, reads>>
    BY <1>0, <1>s, <1>4, <2>2, <2>5 DEF OnSfuSubscriberHandles, taskVars,
       SubscriptionTypes, TaskTypes, CallTypes
  <2>6. QED
    BY <1>4, <2>3, <2>4, <2>5 DEF OnSfuSubscriberHandles
<1>5. CASE OnPacketReceived
  <2>1. packets' \in [Tracks -> 0..PacketCapacity]
    BY <1>0, <1>5, RemoteTracksAssumption
    DEF OnPacketReceived, TakesPacket, TaskTypes
  <2>2. QED
    BY <1>0, <1>s, <1>5, <2>1 DEF OnPacketReceived, SubscriptionTypes,
       ShutdownTypes, TaskTypes, CallTypes, mgrVars, callVars
<1>6. CASE OnResendSubscriptionUpdates
  BY <1>0, <1>s, <1>6 DEF OnResendSubscriptionUpdates, SubscriptionTypes,
     ShutdownTypes, TaskTypes, CallTypes, mgrVars, taskVars, callVars
<1>7. CASE OnShutdown
  BY <1>0, <1>s, <1>7 DEF OnShutdown, SubscriptionTypes, ShutdownTypes,
     TaskTypes, CallTypes, taskVars, callVars
<1>8. ASSUME NEW t \in Tracks, ShutdownTrack(t)
      PROVE  /\ SubscriptionTypes' /\ ShutdownTypes' /\ TaskTypes'
             /\ CallTypes' /\ SfuTypes'
  BY <1>0, <1>s, <1>8, AnswerType DEF ShutdownTrack, Retire, SubscriptionTypes,
     ShutdownTypes, TaskTypes, CallTypes, taskVars
<1>9. CASE ShutdownJoined
  BY <1>0, <1>s, <1>9 DEF ShutdownJoined, Forget, SubscriptionTypes,
     ShutdownTypes, TaskTypes, CallTypes, taskVars, callVars
<1>10. CASE ManagerEnd
  BY <1>0, <1>s, <1>10, AnswerType DEF ManagerEnd, SubscriptionTypes,
     ShutdownTypes, TaskTypes, CallTypes, taskVars
<1>11. QED
  BY <1>1, <1>2, <1>3, <1>4, <1>5, <1>6, <1>7, <1>8, <1>9, <1>10
  DEF ManagerStep

\* What a full channel loses is recorded.
LEMMA Recorded ==
  ASSUME NEW e \in InputEvents, lost \subseteq Losses, TrySend(e)
  PROVE  lost' \subseteq Losses
<1>1. Loss(e.type, e.track) \in Losses
  BY DEF Loss, Losses, InputEvents
<1>2. lost' = lost \/ lost' = lost \cup {Loss(e.type, e.track)}
  BY DEF TrySend
<1>3. QED
  BY <1>1, <1>2

\* The other steps change no subscription and none of the shutdown.
LEMMA OtherTypes ==
  ASSUME TypeOK, EventsInv, [Next]_vars, ~ManagerStep
  PROVE  /\ UNCHANGED mgrVars
         /\ TaskTypes' /\ CallTypes' /\ SfuTypes'
<1>0. /\ SubscriptionTypes /\ ShutdownTypes /\ TaskTypes /\ CallTypes
      /\ SfuTypes /\ QueueTypes
  BY TypeParts
<1>t. 0 \in 0..PacketCapacity /\ \A n \in 1..PacketCapacity : n - 1 \in 0..PacketCapacity
  BY RemoteTracksAssumption
<1>1. CASE RoomStep
  <2>1. event_out # <<>> => Head(event_out) \in OutputEvents
    BY <1>0, TailOne DEF QueueTypes
  <2>2. event_out # <<>> => Head(event_out).track \in Tracks
    BY <2>1 DEF OutputEvents
  <2>3. lost' \subseteq Losses
    <3>0. lost \subseteq Losses
      BY <1>0 DEF SfuTypes
    <3>1. CASE ForwardOut
      BY <3>0, <3>1 DEF ForwardOut
    <3>2. CASE Deliver
      <4>1. Head(fromSfu) \in InputEvents /\ TrySend(Head(fromSfu))
        BY <1>0, <3>2, TailOne DEF QueueTypes, Deliver
      <4>2. QED
        BY <3>0, <4>1, Recorded
    <3>3. CASE Restarted
      <4>1. /\ Global("ResendSubscriptionUpdates") \in InputEvents
            /\ TrySend(Global("ResendSubscriptionUpdates"))
        BY <3>3, Messages DEF Restarted, Wellformed
      <4>2. QED
        BY <3>0, <4>1, Recorded
    <3>4. CASE ForwardStop
      <4>1. Global("Shutdown") \in InputEvents /\ TrySend(Global("Shutdown"))
        BY <3>4, Messages DEF ForwardStop, Wellformed
      <4>2. QED
        BY <3>0, <4>1, Recorded
    <3>5. QED
      BY <1>1, <3>1, <3>2, <3>3, <3>4 DEF RoomStep
  <2>4. /\ UNCHANGED <<mgrVars, taskVars, call, want, reads, late, server,
                       sfuHandle, nextHandle, sent>>
        /\ known' \subseteq Tracks /\ forwarding' \in BOOLEAN
        /\ link' \in {"up", "down", "closed"} /\ restarts' \in Nat
    BY <1>0, <1>1, <2>2 DEF RoomStep, ForwardOut, Deliver, Restarted,
       ForwardStop, CallTypes, SfuTypes, callVars, sfuVars, netVars
  <2>5. QED
    BY <1>0, <2>3, <2>4 DEF TaskTypes, CallTypes, SfuTypes, taskVars
<1>2. CASE SfuServe
  <2>1. toSfu # <<>> /\ Head(toSfu) \in OutputEvents
    BY <1>0, <1>2, TailOne DEF QueueTypes, SfuServe
  <2>2. Head(toSfu).track \in Tracks
    BY <2>1 DEF OutputEvents
  <2>3. UNCHANGED <<mgrVars, taskVars, callVars, server, netVars, lost>>
    BY <1>2 DEF SfuServe
  <2>4. sfuHandle' \in [Tracks -> Nat] /\ nextHandle' \in Nat
    BY <1>0, <1>2, <2>2 DEF SfuServe, SfuTypes
  <2>5. QED
    BY <1>0, <2>3, <2>4 DEF TaskTypes, CallTypes, SfuTypes, taskVars,
       callVars, netVars
<1>3. ASSUME NEW t \in Tracks, TaskStep(t)
      PROVE  UNCHANGED mgrVars /\ TaskTypes' /\ CallTypes' /\ SfuTypes'
  <2>1. UNCHANGED <<mgrVars, callVars, sfuVars, netVars, lost>>
    BY <1>3 DEF TaskStep, TaskUnpublished, TaskClosed, TaskPacket, TaskEnd
  <2>2. TaskTypes'
    <3>1. CASE TaskUnpublished(t) \/ TaskEnd(t)
      BY <1>0, <1>t, <3>1 DEF TaskUnpublished, TaskEnd, TaskTypes
    <3>2. CASE TaskClosed(t)
      BY <1>0, <3>2 DEF TaskClosed, TaskTypes
    <3>3. CASE TaskPacket(t)
      <4>1. packets[t] - 1 \in 0..PacketCapacity
        <5>1. packets[t] \in 1..PacketCapacity
          BY <1>0, <3>3 DEF TaskPacket, TaskTypes
        <5>2. QED
          BY <1>t, <5>1
      <4>2. QED
        BY <1>0, <3>3, <4>1 DEF TaskPacket, TaskTypes
    <3>4. QED
      BY <1>3, <3>1, <3>2, <3>3 DEF TaskStep
  <2>3. QED
    BY <1>0, <2>1, <2>2 DEF CallTypes, SfuTypes, callVars, sfuVars, netVars
<1>4. ASSUME NEW c \in Subscribers, NEW t \in Tracks,
             StreamEnds(c) \/ SubscribeTimeout(c) \/ DropStream(c)
               \/ Subscribe(c, t)
      PROVE  UNCHANGED mgrVars /\ TaskTypes' /\ CallTypes' /\ SfuTypes'
  BY <1>0, <1>4 DEF StreamEnds, SubscribeTimeout, DropStream, Subscribe,
     TaskTypes, CallTypes, SfuTypes, taskVars, callVars, sfuVars, netVars
<1>5. ASSUME NEW t \in Tracks, SfuPacket(t) \/ RemoteUnpublish(t)
      PROVE  UNCHANGED mgrVars /\ TaskTypes' /\ CallTypes' /\ SfuTypes'
  <2>1. UNCHANGED <<mgrVars, taskVars, callVars, nextHandle, forwarding, link,
                    restarts>>
    BY <1>5 DEF SfuPacket, RemoteUnpublish, sfuVars, netVars
  <2>2. /\ server' \subseteq Tracks /\ sfuHandle' \in [Tracks -> Nat]
        /\ sent' \in Nat
    BY <1>0, <1>5 DEF SfuPacket, RemoteUnpublish, SfuTypes, sfuVars, netVars
  <2>3. lost' \subseteq Losses
    <3>1. lost' = lost
      BY <1>5 DEF SfuPacket, RemoteUnpublish, TrySend, PacketReceived, Event
    <3>2. QED
      BY <1>0, <3>1 DEF SfuTypes
  <2>4. QED
    BY <1>0, <2>1, <2>2, <2>3 DEF TaskTypes, CallTypes, SfuTypes, taskVars,
       callVars
<1>6. CASE LinkDown \/ CloseRoom
  BY <1>0, <1>6 DEF LinkDown, CloseRoom, TaskTypes, CallTypes, SfuTypes,
     taskVars, callVars, sfuVars, netVars
<1>7. CASE UNCHANGED vars
  BY <1>0, <1>7 DEF vars, TaskTypes, CallTypes, SfuTypes, taskVars, callVars,
     sfuVars, netVars
<1>8. ASSUME NEW c \in Subscribers, StreamEnds(c) \/ SubscribeTimeout(c) \/ DropStream(c)
      PROVE  UNCHANGED mgrVars /\ TaskTypes' /\ CallTypes' /\ SfuTypes'
  BY <1>0, <1>8 DEF StreamEnds, SubscribeTimeout, DropStream,
     TaskTypes, CallTypes, SfuTypes, taskVars, callVars, sfuVars, netVars
<1>9. QED
  BY <1>1, <1>2, <1>3, <1>4, <1>5, <1>6, <1>7, <1>8, StepCases

-----------------------------------------------------------------------------
(***************************************************************************)
(* What a step does to the queues                                          *)
(***************************************************************************)

\* e is queued by a caller, by the task that leaves, or by the room.
Queues(e) ==
  /\ Wellformed(e)
  /\ event_in' = Append(event_in, e)
  /\ e.type = "SubscribeRequest" =>
       \E t \in Tracks : Subscribe(e.subscriber, t)
  /\ e.type = "UnsubscribeRequest" => TaskClosed(e.track)

LEMMA TrySends ==
  ASSUME NEW e, Wellformed(e), TrySend(e),
         e.type \notin {"SubscribeRequest", "UnsubscribeRequest"}
  PROVE  event_in' = event_in \/ Queues(e)
  BY DEF TrySend, Queues

LEMMA InputStep ==
  ASSUME TypeOK, EventsInv, [Next]_vars
  PROVE  \/ event_in' = event_in
         \/ event_in' = <<>>
         \/ ManagerStep /\ event_in # <<>> /\ event_in' = Tail(event_in)
         \/ \E e : Queues(e) /\ ~ManagerStep
<1>0. QueueTypes /\ SfuTypes /\ CallTypes
  BY TypeParts
<1>1. CASE ManagerStep
  <2>1. \A type : Take(type) => event_in # <<>> /\ event_in' = Tail(event_in)
    BY DEF Take
  <2>2. QED
    BY <1>1, <2>1 DEF ManagerStep, OnSubscribeRequest, OnUnsubscribeRequest,
       OnSfuPublicationUpdates, OnSfuSubscriberHandles, OnPacketReceived,
       OnResendSubscriptionUpdates, OnShutdown, ShutdownTrack, ShutdownJoined,
       ManagerEnd
<1>2. CASE RoomStep /\ ~ManagerStep
  <2>1. CASE ForwardOut
    BY <2>1 DEF ForwardOut
  <2>2. CASE Deliver
    <3>1. fromSfu # <<>> /\ TrySend(Head(fromSfu))
      BY <2>2 DEF Deliver
    <3>2. 1 \in 1..Len(fromSfu) /\ Head(fromSfu) = fromSfu[1]
      BY <1>0, <3>1, TailOne DEF QueueTypes
    <3>3. Wellformed(Head(fromSfu)) /\ Head(fromSfu).type \notin {"SubscribeRequest", "UnsubscribeRequest"}
      BY <3>2 DEF EventsInv
    <3>4. QED
      BY <1>2, <3>1, <3>3, TrySends
  <2>3. CASE Restarted \/ ForwardStop
    BY <1>2, <2>3, Messages, TrySends DEF Restarted, ForwardStop
  <2>4. QED
    BY <1>2, <2>1, <2>2, <2>3 DEF RoomStep
<1>3. ASSUME NEW t \in Tracks, TaskStep(t), ~ManagerStep
      PROVE  event_in' = event_in \/ \E e : Queues(e) /\ ~ManagerStep
  <2>1. CASE TaskUnpublished(t) \/ TaskPacket(t) \/ TaskEnd(t)
    BY <2>1 DEF TaskUnpublished, TaskPacket, TaskEnd
  <2>2. CASE TaskClosed(t)
    <3>1. event_in' = event_in \/ event_in' = Append(event_in, UnsubscribeRequest(t))
      BY <2>2 DEF TaskClosed
    <3>2. event_in' = event_in \/ Queues(UnsubscribeRequest(t))
      BY <2>2, <3>1, Messages DEF Queues
    <3>3. QED
      BY <1>3, <3>2
  <2>3. QED
    BY <1>3, <2>1, <2>2 DEF TaskStep
<1>4. ASSUME NEW c \in Subscribers, NEW t \in Tracks, Subscribe(c, t), ~ManagerStep
      PROVE  event_in' = event_in \/ \E e : Queues(e) /\ ~ManagerStep
  <2>1. event_in' = event_in \/ event_in' = Append(event_in, SubscribeRequest(c))
    BY <1>4 DEF Subscribe
  <2>2. event_in' = event_in \/ Queues(SubscribeRequest(c))
    BY <1>4, <2>1, Messages DEF Queues
  <2>3. QED
    BY <1>4, <2>2
<1>5. ASSUME NEW t \in Tracks, SfuPacket(t) \/ RemoteUnpublish(t), ~ManagerStep
      PROVE  event_in' = event_in \/ \E e : Queues(e) /\ ~ManagerStep
  <2>1. sfuHandle[t] \in Nat
    BY <1>0 DEF SfuTypes
  <2>2. QED
    BY <1>5, <2>1, Messages, TrySends DEF SfuPacket, RemoteUnpublish
<1>6. ASSUME NEW c \in Subscribers,
             StreamEnds(c) \/ SubscribeTimeout(c) \/ DropStream(c)
      PROVE  event_in' = event_in
  BY <1>6 DEF StreamEnds, SubscribeTimeout, DropStream
<1>7. SfuServe \/ LinkDown \/ CloseRoom \/ UNCHANGED vars => event_in' = event_in
  BY DEF SfuServe, LinkDown, CloseRoom, vars
<1>8. QED
  BY <1>1, <1>2, <1>3, <1>4, <1>5, <1>6, <1>7, StepCases

\* Asked, in the state after a step.
AskedAfter(c) == call'[c] # "idle" /\ want'[c] \in Tracks

\* Once it has called, a subscriber stays with its track.
LEMMA AskedStays ==
  ASSUME TypeOK, [Next]_vars, NEW c \in Subscribers, Asked(c)
  PROVE  AskedAfter(c) /\ want'[c] = want[c]
<1>0. CallTypes
  BY TypeParts
<1>1. CASE UNCHANGED <<call, want>>
  BY <1>1 DEF Asked, AskedAfter
<1>2. ASSUME NEW C, NEW a \in {"failed", "reading"}, Answer(C, a),
             UNCHANGED want
      PROVE  AskedAfter(c) /\ want'[c] = want[c]
  BY <1>0, <1>2 DEF Answer, Asked, AskedAfter, CallTypes
<1>3. CASE ManagerStep
  <2>1. \/ UNCHANGED <<call, want>>
        \/ /\ UNCHANGED want
           /\ \E C : \E a \in {"failed", "reading"} : Answer(C, a)
    BY <1>3 DEF ManagerStep, OnSubscribeRequest, OnUnsubscribeRequest,
       OnSfuPublicationUpdates, OnSfuSubscriberHandles, OnPacketReceived,
       OnResendSubscriptionUpdates, OnShutdown, ShutdownTrack, ShutdownJoined,
       ManagerEnd, callVars, Withdraw, Reassign, Activate, Join
  <2>2. QED
    BY <1>1, <1>2, <2>1
<1>4. ASSUME NEW d \in Subscribers, NEW t \in Tracks,
             StreamEnds(d) \/ SubscribeTimeout(d) \/ DropStream(d)
               \/ Subscribe(d, t)
      PROVE  AskedAfter(c) /\ want'[c] = want[c]
  BY <1>0, <1>4 DEF StreamEnds, SubscribeTimeout, DropStream, Subscribe, Asked,
     AskedAfter, CallTypes
<1>5. ASSUME NEW t \in Tracks, TaskStep(t) \/ SfuPacket(t) \/ RemoteUnpublish(t)
      PROVE  UNCHANGED <<call, want>>
  BY <1>5 DEF TaskStep, TaskUnpublished, TaskClosed, TaskPacket, TaskEnd,
     SfuPacket, RemoteUnpublish, callVars
<1>6. RoomStep \/ SfuServe \/ LinkDown \/ CloseRoom \/ UNCHANGED vars =>
        UNCHANGED <<call, want>>
  BY DEF RoomStep, ForwardOut, Deliver, Restarted, ForwardStop, SfuServe,
     LinkDown, CloseRoom, vars, callVars
<1>7. ASSUME NEW d \in Subscribers,
             StreamEnds(d) \/ SubscribeTimeout(d) \/ DropStream(d)
      PROVE  AskedAfter(c) /\ want'[c] = want[c]
  <2>1. want[c] \in Tracks
    BY DEF Asked
  <2>2. QED
    BY <1>4, <1>7, <2>1
<1>8. QED
  BY <1>1, <1>3, <1>4, <1>5, <1>6, <1>7, StepCases

\* A step that queues nothing new keeps what is known of the queues.
LEMMA ShorterQueue ==
  ASSUME NEW S, NEW q \in Seq(S), NEW n \in 0..Len(q)
  PROVE  /\ SubSeq(q, 1, n) \in Seq(S) /\ Len(SubSeq(q, 1, n)) = n
         /\ \A i \in 1..n : i \in 1..Len(q) /\ SubSeq(q, 1, n)[i] = q[i]
  OBVIOUS

-----------------------------------------------------------------------------
(***************************************************************************)
(* What is known of the messages on their way                              *)
(***************************************************************************)

\* A message of the SFU that is not a request of the application.
FromServer(e) ==
  Wellformed(e) /\ e.type \notin {"SubscribeRequest", "UnsubscribeRequest"}

LEMMA ServerStep ==
  ASSUME TypeOK, EventsInv, [Next]_vars
  PROVE  /\ fromSfu' \in Seq(InputEvents) /\ toSfu' \in Seq(OutputEvents)
         /\ \A i \in 1..Len(fromSfu') : FromServer(fromSfu'[i])
<1>0. QueueTypes /\ SfuTypes
  BY TypeParts
<1>1. \A i \in 1..Len(fromSfu) : FromServer(fromSfu[i])
  BY DEF EventsInv, FromServer
<1>2. ASSUME UNCHANGED fromSfu
      PROVE  /\ fromSfu' \in Seq(InputEvents)
             /\ \A i \in 1..Len(fromSfu') : FromServer(fromSfu'[i])
  BY <1>0, <1>1, <1>2 DEF QueueTypes
<1>3. ASSUME NEW e, FromServer(e), fromSfu' = Append(fromSfu, e)
      PROVE  /\ fromSfu' \in Seq(InputEvents)
             /\ \A i \in 1..Len(fromSfu') : FromServer(fromSfu'[i])
  <2>1. e \in InputEvents /\ fromSfu \in Seq(InputEvents)
    BY <1>0, <1>3 DEF QueueTypes, FromServer, Wellformed
  <2>2. /\ fromSfu' \in Seq(InputEvents)
        /\ Len(fromSfu) \in Nat /\ Len(fromSfu') = Len(fromSfu) + 1
        /\ \A i \in 1..Len(fromSfu) : fromSfu'[i] = fromSfu[i]
        /\ fromSfu'[Len(fromSfu) + 1] = e
    BY <1>3, <2>1, AppendOne
  <2>3. QED
    BY <1>1, <1>3, <2>2
<1>4. ASSUME fromSfu # <<>>, fromSfu' = Tail(fromSfu)
      PROVE  /\ fromSfu' \in Seq(InputEvents)
             /\ \A i \in 1..Len(fromSfu') : FromServer(fromSfu'[i])
  BY <1>0, <1>1, <1>4, TailOne DEF QueueTypes
<1>5. ASSUME NEW n \in 0..Len(fromSfu), fromSfu' = SubSeq(fromSfu, 1, n)
      PROVE  /\ fromSfu' \in Seq(InputEvents)
             /\ \A i \in 1..Len(fromSfu') : FromServer(fromSfu'[i])
  BY <1>0, <1>1, <1>5, ShorterQueue DEF QueueTypes
<1>6. <<>> \in Seq(InputEvents) /\ <<>> \in Seq(OutputEvents) /\ Len(<<>>) = 0
  OBVIOUS
<1>7. CASE UNCHANGED <<fromSfu, toSfu>>
  BY <1>0, <1>2, <1>7 DEF QueueTypes
<1>8. CASE SfuServe
  <2>1. toSfu # <<>> /\ toSfu' = Tail(toSfu)
    BY <1>8 DEF SfuServe
  <2>2. toSfu' \in Seq(OutputEvents) /\ Head(toSfu) \in OutputEvents
    BY <1>0, <2>1, TailOne DEF QueueTypes
  <2>3. Head(toSfu).track \in Tracks
    BY <2>2 DEF OutputEvents
  <2>4. \/ fromSfu' = fromSfu
        \/ fromSfu' = Append(fromSfu, SubscriberHandle(nextHandle, Head(toSfu).track))
    BY <1>8 DEF SfuServe
  <2>5. FromServer(SubscriberHandle(nextHandle, Head(toSfu).track))
    BY <1>0, <2>3, Messages DEF SfuTypes, FromServer
  <2>6. QED
    BY <1>2, <1>3, <2>2, <2>4, <2>5
<1>9. CASE RoomStep
  <2>1. ASSUME NEW S \in SUBSET Tracks
        PROVE  FromServer(PublicationUpdates(S))
    BY Messages DEF FromServer
  <2>2. CASE ForwardOut
    <3>1. event_out # <<>> /\ fromSfu' = fromSfu
      BY <2>2 DEF ForwardOut
    <3>2. Head(event_out) \in OutputEvents
      BY <1>0, <3>1, TailOne DEF QueueTypes
    <3>3. toSfu' = toSfu \/ toSfu' = Append(toSfu, Head(event_out))
      BY <2>2 DEF ForwardOut
    <3>4. toSfu' \in Seq(OutputEvents)
      BY <1>0, <3>2, <3>3, AppendOne DEF QueueTypes
    <3>5. QED
      BY <1>2, <3>1, <3>4
  <2>3. CASE Deliver
    BY <1>0, <1>4, <2>3 DEF Deliver, QueueTypes
  <2>4. CASE Restarted
    <3>1. fromSfu' = <<PublicationUpdates(server)>> /\ toSfu' = toSfu
      BY <2>4 DEF Restarted
    <3>2. FromServer(PublicationUpdates(server))
      BY <1>0, <2>1 DEF SfuTypes
    <3>3. fromSfu' \in Seq(InputEvents) /\ Len(fromSfu') = 1 /\ fromSfu'[1] = PublicationUpdates(server)
      BY <3>1, <3>2 DEF FromServer, Wellformed
    <3>4. QED
      BY <1>0, <3>1, <3>2, <3>3 DEF QueueTypes
  <2>5. CASE ForwardStop
    BY <1>7, <2>5 DEF ForwardStop, sfuVars
  <2>6. QED
    BY <1>9, <2>2, <2>3, <2>4, <2>5 DEF RoomStep
<1>10. CASE ManagerStep
  BY <1>7, <1>10 DEF ManagerStep, OnSubscribeRequest, OnUnsubscribeRequest,
     OnSfuPublicationUpdates, OnSfuSubscriberHandles, OnPacketReceived,
     OnResendSubscriptionUpdates, OnShutdown, ShutdownTrack, ShutdownJoined,
     ManagerEnd, sfuVars
<1>11. ASSUME NEW c \in Subscribers, NEW t \in Tracks, Subscribe(c, t)
       PROVE  UNCHANGED <<fromSfu, toSfu>>
  BY <1>11 DEF Subscribe, sfuVars
<1>12. ASSUME NEW t \in Tracks, TaskStep(t) \/ SfuPacket(t)
       PROVE  UNCHANGED <<fromSfu, toSfu>>
  BY <1>12 DEF TaskStep, TaskUnpublished, TaskClosed, TaskPacket,
     TaskEnd, SfuPacket, sfuVars
<1>13. ASSUME NEW c \in Subscribers,
              StreamEnds(c) \/ SubscribeTimeout(c) \/ DropStream(c)
       PROVE  UNCHANGED <<fromSfu, toSfu>>
  BY <1>13 DEF StreamEnds, SubscribeTimeout, DropStream, sfuVars
<1>14. ASSUME NEW t \in Tracks, RemoteUnpublish(t)
       PROVE  /\ fromSfu' \in Seq(InputEvents) /\ toSfu' \in Seq(OutputEvents)
              /\ \A i \in 1..Len(fromSfu') : FromServer(fromSfu'[i])
  <2>1. FromServer(PublicationUpdates(server \ {t}))
    BY <1>0, Messages DEF FromServer, SfuTypes
  <2>2. /\ toSfu' = toSfu
        /\ \/ fromSfu' = fromSfu
           \/ fromSfu' = Append(fromSfu, PublicationUpdates(server \ {t}))
    BY <1>14 DEF RemoteUnpublish
  <2>3. QED
    BY <1>0, <1>2, <1>3, <2>1, <2>2 DEF QueueTypes
<1>15. CASE LinkDown \/ CloseRoom
  <2>1. toSfu' = <<>> /\ \E n \in 0..Len(fromSfu) : fromSfu' = SubSeq(fromSfu, 1, n)
    <3>1. SubSeq(fromSfu, 1, 0) = <<>> /\ 0 \in 0..Len(fromSfu)
      BY <1>0 DEF QueueTypes
    <3>2. QED
      BY <1>15, <3>1 DEF LinkDown, CloseRoom
  <2>2. QED
    BY <1>5, <1>6, <2>1
<1>16. UNCHANGED vars => UNCHANGED <<fromSfu, toSfu>>
  BY DEF vars, sfuVars
<1>17. QED
  BY <1>7, <1>8, <1>9, <1>10, <1>11, <1>12, <1>13, <1>14, <1>15, <1>16,
     StepCases

LEMMA Emits ==
  ASSUME QueueTypes, NEW q \in Seq(OutputEvents), EmitAll(q)
  PROVE  event_out' \in Seq(OutputEvents)
  BY DEF EmitAll, QueueTypes

LEMMA OutputStep ==
  ASSUME TypeOK, EventsInv, [Next]_vars
  PROVE  event_out' \in Seq(OutputEvents)
<1>0. QueueTypes /\ SubscriptionTypes
  BY TypeParts
<1>1. CASE event_out' = event_out
  BY <1>0, <1>1 DEF QueueTypes
<1>2. ASSUME NEW t \in Tracks, NEW type \in {"Subscribe", "Unsubscribe"},
             EmitAll(<<Output(type, t)>>)
      PROVE  event_out' \in Seq(OutputEvents)
  <2>1. Output(type, t) \in OutputEvents
    BY Outputs
  <2>2. <<Output(type, t)>> \in Seq(OutputEvents)
    BY <2>1
  <2>3. QED
    BY <1>0, <1>2, <2>2, Emits
<1>3. CASE OnSubscribeRequest
  <2> DEFINE c == Head(event_in).subscriber
  <2>1. want[c] \in Tracks
    BY <1>0, <1>3, Taken DEF OnSubscribeRequest, Wellformed, Asked
  <2>2. event_out' = event_out \/ EmitAll(<<Output("Subscribe", want[c])>>)
    BY <1>3 DEF OnSubscribeRequest
  <2>3. QED
    BY <1>1, <1>2, <2>1, <2>2
<1>4. CASE OnUnsubscribeRequest
  <2>1. Head(event_in).track \in Tracks
    BY <1>0, <1>4, Taken DEF OnUnsubscribeRequest, Wellformed
  <2>2. \/ event_out' = event_out
        \/ EmitAll(<<Output("Unsubscribe", Head(event_in).track)>>)
    BY <1>4 DEF OnUnsubscribeRequest, Unsubscribed
  <2>3. QED
    BY <1>1, <1>2, <2>1, <2>2
<1>5. CASE OnSfuPublicationUpdates
  <2> DEFINE S == Head(event_in).tracks
             new == {t \in S : subscription[t] = "absent"}
             gone == {t \in Tracks \ S : subscription[t] # "absent"}
  <2>1. new \in SUBSET Tracks /\ gone \in SUBSET Tracks
    BY <1>0, <1>5, Taken DEF OnSfuPublicationUpdates, InputEvents
  <2>2. PICK p \in SetToSeqs(new), q \in SetToSeqs(gone) :
          EmitAll([i \in DOMAIN p |-> Output("TrackPublished", p[i])] \o
                  [i \in DOMAIN q |-> Output("TrackUnpublished", q[i])])
    BY <1>5 DEF OnSfuPublicationUpdates
  <2> DEFINE P == [i \in DOMAIN p |-> Output("TrackPublished", p[i])]
             U == [i \in DOMAIN q |-> Output("TrackUnpublished", q[i])]
  <2>3. P \in Seq(OutputEvents) /\ U \in Seq(OutputEvents)
    BY <2>1, OutputsOf
  <2>4. EmitAll(P \o U)
    BY <2>2
  <2> HIDE DEF P, U
  <2>5. P \o U \in Seq(OutputEvents)
    BY <2>3
  <2>6. QED
    BY <1>0, <2>4, <2>5, Emits
<1>6. CASE OnResendSubscriptionUpdates
  <2>1. PICK q \in SetToSeqs(Resubscribed) :
          EmitAll([i \in DOMAIN q |-> Output("Subscribe", q[i])])
    BY <1>6 DEF OnResendSubscriptionUpdates
  <2>2. Resubscribed \in SUBSET Tracks
    BY DEF Resubscribed
  <2>3. [i \in DOMAIN q |-> Output("Subscribe", q[i])] \in Seq(OutputEvents)
    BY <2>2, OutputsOf
  <2>4. QED
    BY <1>0, <2>1, <2>3, Emits
<1>7. CASE RoomStep
  <2>1. \/ event_out' = event_out \/ event_out' = <<>>
        \/ event_out # <<>> /\ event_out' = Tail(event_out)
    BY <1>7 DEF RoomStep, ForwardOut, Deliver, Restarted, ForwardStop
  <2>2. <<>> \in Seq(OutputEvents) /\ event_out \in Seq(OutputEvents)
    BY <1>0 DEF QueueTypes
  <2>3. event_out # <<>> => Tail(event_out) \in Seq(OutputEvents)
    BY <2>2, TailOne
  <2>4. QED
    BY <2>1, <2>2, <2>3
<1>8. OnSfuSubscriberHandles \/ OnPacketReceived \/ OnShutdown
        \/ ShutdownJoined \/ ManagerEnd => event_out' = event_out
  BY DEF OnSfuSubscriberHandles, OnPacketReceived, OnShutdown, ShutdownJoined,
         ManagerEnd
<1>9. \A t \in Tracks : ShutdownTrack(t) => event_out' = event_out
  BY DEF ShutdownTrack
<1>10. ManagerStep => event_out' \in Seq(OutputEvents)
  BY <1>1, <1>3, <1>4, <1>5, <1>6, <1>8, <1>9 DEF ManagerStep
<1>11. ASSUME NEW t \in Tracks,
              TaskStep(t) \/ SfuPacket(t) \/ RemoteUnpublish(t)
       PROVE  event_out' = event_out
  BY <1>11 DEF TaskStep, TaskUnpublished, TaskClosed, TaskPacket, TaskEnd,
     SfuPacket, RemoteUnpublish
<1>12. ASSUME NEW c \in Subscribers,
              StreamEnds(c) \/ SubscribeTimeout(c) \/ DropStream(c)
       PROVE  event_out' = event_out
  BY <1>12 DEF StreamEnds, SubscribeTimeout, DropStream
<1>13. ASSUME NEW c \in Subscribers, NEW t \in Tracks, Subscribe(c, t)
       PROVE  event_out' = event_out
  BY <1>13 DEF Subscribe
<1>14. SfuServe \/ LinkDown \/ CloseRoom \/ UNCHANGED vars =>
         event_out' = event_out
  BY DEF SfuServe, LinkDown, CloseRoom, vars
<1>15. QED
  BY <1>1, <1>7, <1>10, <1>11, <1>12, <1>13, <1>14, StepCases

\* The sender of a request has asked for its track, when it is queued.
LEMMA QueuedRequests ==
  ASSUME TypeOK, NEW e, Queues(e), e.type = "SubscribeRequest"
  PROVE  AskedAfter(e.subscriber)
<1>0. CallTypes
  BY TypeParts
<1>1. PICK t \in Tracks : Subscribe(e.subscriber, t)
  BY DEF Queues
<1>2. e.subscriber \in Subscribers
  BY DEF Queues, Wellformed
<1>3. QED
  BY <1>0, <1>1, <1>2 DEF Subscribe, AskedAfter, CallTypes

\* The callers that wait for the handle of a track.
LEMMA WaitingCallers ==
  ASSUME TypeOK, EventsInv, [Next]_vars, NEW t \in Tracks, NEW c \in result_txs'[t]
  PROVE  c \in Subscribers /\ Asked(c) /\ want[c] = t
<1>0. SubscriptionTypes /\ QueueTypes
  BY TypeParts
<1>1. CASE c \in result_txs[t]
  BY <1>0, <1>1 DEF EventsInv, SubscriptionTypes
<1>2. CASE OnSubscribeRequest
  <2> DEFINE d == Head(event_in).subscriber
  <2>1. d \in Subscribers /\ Asked(d)
    BY <1>0, <1>2, Taken DEF OnSubscribeRequest, Wellformed
  <2>2. result_txs' \in {result_txs, [result_txs EXCEPT ![want[d]] = {d}],
                         [result_txs EXCEPT ![want[d]] = @ \cup {d}]}
    BY <1>2 DEF OnSubscribeRequest
  <2>3. c \in result_txs[t] \/ (t = want[d] /\ c = d)
    BY <1>0, <2>1, <2>2 DEF SubscriptionTypes
  <2>4. QED
    BY <1>1, <2>1, <2>3
<1>3. CASE ManagerStep /\ ~OnSubscribeRequest
  <2>1. c \in result_txs[t]
    BY <1>0, <1>3 DEF ManagerStep, OnUnsubscribeRequest,
       OnSfuPublicationUpdates, OnSfuSubscriberHandles, OnPacketReceived,
       OnResendSubscriptionUpdates, OnShutdown, ShutdownTrack, ShutdownJoined,
       ManagerEnd, Withdraw, Reassign, Activate, mgrVars, SubscriptionTypes
  <2>2. QED
    BY <1>1, <2>1
<1>4. CASE ~ManagerStep
  <2>1. result_txs' = result_txs
    BY <1>4, OtherTypes DEF mgrVars
  <2>2. QED
    BY <1>1, <2>1
<1>5. QED
  BY <1>2, <1>3, <1>4

\* TypeOK and EventsInv are kept.
LEMMA NextMessages ==
  ASSUME TypeOK, EventsInv, [Next]_vars
  PROVE  TypeOK' /\ EventsInv'
<1>0. QueueTypes
  BY TypeParts
<1> DEFINE Fine(e) == /\ Wellformed(e)
                      /\ e.type = "SubscribeRequest" => AskedAfter(e.subscriber)
<1>1. \A i \in 1..Len(event_in) : Fine(event_in[i])
  <2>1. ASSUME NEW i \in 1..Len(event_in) PROVE Fine(event_in[i])
    <3>1. /\ Wellformed(event_in[i])
          /\ event_in[i].type = "SubscribeRequest" =>
               /\ event_in[i].subscriber \in Subscribers
               /\ Asked(event_in[i].subscriber)
      BY DEF EventsInv, Wellformed
    <3>2. QED
      BY <3>1, AskedStays
  <2>2. QED
    BY <2>1
<1>2. /\ event_in' \in Seq(InputEvents)
      /\ \A i \in 1..Len(event_in') : Fine(event_in'[i])
  <2>1. CASE event_in' = event_in
    <3> HIDE DEF Fine
    <3>1. QED
      BY <1>0, <1>1, <2>1 DEF QueueTypes
  <2>2. CASE event_in' = <<>>
    <3>1. <<>> \in Seq(InputEvents) /\ Len(<<>>) = 0
      OBVIOUS
    <3>2. QED
      BY <2>2, <3>1
  <2>3. CASE event_in # <<>> /\ event_in' = Tail(event_in)
    <3> HIDE DEF Fine
    <3>1. QED
      BY <1>0, <1>1, <2>3, TailOne DEF QueueTypes
  <2>4. ASSUME NEW e, Queues(e)
        PROVE  /\ event_in' \in Seq(InputEvents)
               /\ \A i \in 1..Len(event_in') : Fine(event_in'[i])
    <3>1. Fine(e) /\ e \in InputEvents
      BY <2>4, QueuedRequests DEF Queues, Wellformed
    <3> HIDE DEF Fine
    <3>2. /\ event_in' \in Seq(InputEvents)
          /\ Len(event_in) \in Nat /\ Len(event_in') = Len(event_in) + 1
          /\ \A i \in 1..Len(event_in) : event_in'[i] = event_in[i]
          /\ event_in'[Len(event_in) + 1] = e
      BY <1>0, <2>4, <3>1, AppendOne DEF QueueTypes, Queues
    <3>3. QED
      BY <1>1, <3>1, <3>2
  <2>5. QED
    BY <2>1, <2>2, <2>3, <2>4, InputStep
<1>3. \A t \in Tracks : \A c \in result_txs'[t] : AskedAfter(c) /\ want'[c] = t
  BY WaitingCallers, AskedStays
<1>4. EventsInv'
  BY <1>2, <1>3, ServerStep DEF EventsInv, FromServer, Wellformed, Asked, AskedAfter
<1>5. QueueTypes'
  BY <1>2, ServerStep, OutputStep DEF QueueTypes
<1>6. SubscriptionTypes' /\ ShutdownTypes' /\ TaskTypes' /\ CallTypes'
        /\ SfuTypes'
  <2>1. CASE ManagerStep
    BY <2>1, ManagerTypes
  <2>2. CASE ~ManagerStep
    <3>1. UNCHANGED mgrVars /\ TaskTypes' /\ CallTypes' /\ SfuTypes'
      BY <2>2, OtherTypes
    <3>2. SubscriptionTypes /\ ShutdownTypes
      BY TypeParts
    <3>3. QED
      BY <3>1, <3>2 DEF mgrVars, SubscriptionTypes, ShutdownTypes
  <2>3. QED
    BY <2>1, <2>2
<1>7. TypeOK'
  BY <1>5, <1>6, TypeParts DEF TypeOK, SubscriptionTypes, ShutdownTypes,
     TaskTypes, CallTypes, SfuTypes, QueueTypes
<1>8. QED
  BY <1>4, <1>7

LEMMA SpecMessages == Spec => [](TypeOK /\ EventsInv)
<1>1. Init => TypeOK /\ EventsInv
  <2>1. SUFFICES ASSUME Init PROVE TypeOK /\ EventsInv
    OBVIOUS
  <2>2. fromSfu = <<PublicationUpdates(Tracks)>> /\ event_in = <<>>
        /\ event_out = <<>> /\ toSfu = <<>>
    BY <2>1 DEF Init
  <2>3. FromServer(PublicationUpdates(Tracks))
    BY Messages DEF FromServer
  <2>4. /\ fromSfu \in Seq(InputEvents) /\ Len(fromSfu) = 1
        /\ \A i \in 1..Len(fromSfu) : FromServer(fromSfu[i])
    BY <2>2, <2>3 DEF FromServer, Wellformed
  <2>5. /\ <<>> \in Seq(InputEvents) /\ <<>> \in Seq(OutputEvents)
        /\ Len(event_in) = 0
    BY <2>2
  <2>6. QueueTypes
    BY <2>2, <2>4, <2>5 DEF QueueTypes
  <2>7. EventsInv
    BY <2>1, <2>4, <2>5 DEF Init, EventsInv, FromServer
  <2>8. 0 \in 0..PacketCapacity
    BY RemoteTracksAssumption
  <2>9. SubscriptionTypes /\ ShutdownTypes /\ TaskTypes /\ CallTypes /\ SfuTypes
    BY <2>1, <2>8 DEF Init, SubscriptionTypes, ShutdownTypes, TaskTypes,
       CallTypes, SfuTypes
  <2>10. QED
    BY <2>6, <2>7, <2>9, TypeParts
<1>2. TypeOK /\ EventsInv /\ [Next]_vars => (TypeOK /\ EventsInv)'
  BY NextMessages
<1>3. QED
  BY <1>1, <1>2, PTL DEF Spec

\* The variables keep their types, and every request and message that the
\* manager takes names a track or a subscriber there is.
THEOREM TypeCorrect == Spec => []TypeOK
  BY SpecMessages, PTL

-----------------------------------------------------------------------------
(***************************************************************************)
(* The index of handles                                                    *)
(***************************************************************************)
LEMMA NextIndexSound ==
  ASSUME TypeOK, EventsInv, IndexSound, [Next]_vars
  PROVE  IndexSound'
<1>0. SubscriptionTypes /\ QueueTypes
  BY TypeParts
<1>1. CASE UNCHANGED <<subscription, sub_handle, sub_handles>>
  BY <1>1 DEF IndexSound
<1>2. CASE OnSubscribeRequest
  <2> DEFINE c == Head(event_in).subscriber
  <2>1. want[c] \in Tracks
    BY <1>0, <1>2, Taken DEF OnSubscribeRequest, Wellformed, Asked
  <2>2. /\ UNCHANGED <<sub_handle, sub_handles>>
        /\ \/ UNCHANGED subscription
           \/ /\ subscription[want[c]] = "none"
              /\ subscription' = [subscription EXCEPT ![want[c]] = "pending"]
    BY <1>2 DEF OnSubscribeRequest
  <2>3. QED
    BY <1>0, <2>1, <2>2 DEF IndexSound, SubscriptionTypes
<1>3. ASSUME NEW t \in Tracks, Forget(t), UNCHANGED sub_handle,
             \E a \in {"none", "absent"} :
               subscription' = [subscription EXCEPT ![t] = a]
      PROVE  IndexSound'
  BY <1>0, <1>3, RemoteTracksAssumption DEF Forget, IndexSound, SubscriptionTypes
<1>4. CASE OnUnsubscribeRequest
  <2>1. Head(event_in).track \in Tracks
    BY <1>0, <1>4, Taken DEF OnUnsubscribeRequest, Wellformed
  <2>2. QED
    BY <1>1, <1>3, <1>4, <2>1 DEF OnUnsubscribeRequest, Unsubscribed
<1>5. CASE ShutdownJoined
  BY <1>3, <1>5 DEF ShutdownJoined
<1>6. CASE OnSfuPublicationUpdates
  <2> DEFINE S == Head(event_in).tracks
             new == {t \in S : subscription[t] = "absent"}
             gone == {t \in Tracks \ S : subscription[t] # "absent"}
  <2>1. /\ subscription' = [t \in Tracks |->
             IF t \in new THEN "none"
             ELSE IF t \in gone THEN "absent" ELSE subscription[t]]
        /\ sub_handles' = [h \in Handles |->
             IF \E t \in gone : subscription[t] = "active" /\ sub_handle[t] = h
             THEN NoTrack ELSE sub_handles[h]]
        /\ sub_handle' = sub_handle
    BY <1>6 DEF OnSfuPublicationUpdates, Withdraw
  <2>2. ASSUME NEW h \in Handles, sub_handles'[h] # NoTrack
        PROVE  /\ subscription'[sub_handles'[h]] = "active"
               /\ sub_handle'[sub_handles'[h]] = h
    <3> DEFINE t == sub_handles[h]
    <3>1. sub_handles'[h] = t
      BY <2>1, <2>2
    <3>2. t \in Tracks /\ subscription[t] = "active" /\ sub_handle[t] = h
      BY <1>0, <2>2, <3>1 DEF IndexSound, SubscriptionTypes
    <3>3. t \notin gone /\ t \notin new
      BY <2>1, <2>2, <3>2
    <3>4. QED
      BY <2>1, <3>1, <3>2, <3>3
  <2>3. QED
    BY <2>2 DEF IndexSound
<1>7. CASE OnSfuSubscriberHandles
  <2>1. Head(event_in).track \in Tracks /\ Head(event_in).handle \in Nat
    BY <1>0, <1>7, Taken DEF OnSfuSubscriberHandles, Wellformed, InputEvents
  <2>2. ASSUME NEW h \in Nat, NEW t \in Tracks, Reassign(h, t)
        PROVE  IndexSound'
    BY <1>0, <2>2, RemoteTracksAssumption DEF Reassign, IndexSound, SubscriptionTypes
  <2>3. ASSUME NEW h \in Nat, NEW t \in Tracks, Activate(h, t)
        PROVE  IndexSound'
    BY <1>0, <2>3, RemoteTracksAssumption DEF Activate, IndexSound, SubscriptionTypes
  <2>4. QED
    BY <1>1, <1>7, <2>1, <2>2, <2>3 DEF OnSfuSubscriberHandles
<1>8. OnPacketReceived \/ OnResendSubscriptionUpdates \/ OnShutdown \/ ManagerEnd
        => UNCHANGED <<subscription, sub_handle, sub_handles>>
  BY DEF OnPacketReceived, OnResendSubscriptionUpdates, OnShutdown, ManagerEnd,
         mgrVars
<1>9. \A t \in Tracks :
        ShutdownTrack(t) => UNCHANGED <<subscription, sub_handle, sub_handles>>
  BY DEF ShutdownTrack
<1>10. CASE ManagerStep
  BY <1>1, <1>2, <1>4, <1>5, <1>6, <1>7, <1>8, <1>9, <1>10 DEF ManagerStep
<1>11. CASE ~ManagerStep
  <2>1. UNCHANGED <<subscription, sub_handle, sub_handles>>
    BY <1>11, OtherTypes DEF mgrVars
  <2>2. QED
    BY <1>1, <2>1
<1>12. QED
  BY <1>10, <1>11

\* Every entry of Manager.sub_handles leads to an active subscription that has
\* this handle, whatever the SFU assigns and in whatever order the publisher
\* unpublishes, the application unsubscribes and the session restarts.
THEOREM IndexCorrect == Spec => []IndexSound
<1>1. Init => IndexSound
  BY DEF Init, IndexSound
<1>2. TypeOK /\ EventsInv /\ IndexSound /\ [Next]_vars => IndexSound'
  BY NextIndexSound
<1>3. QED
  BY <1>1, <1>2, SpecMessages, PTL DEF Spec

-----------------------------------------------------------------------------
(***************************************************************************)
(* The streams of the subscribers                                          *)
(***************************************************************************)

\* How the task and the subscription of a track that stays published move.
LEMMA TrackStep ==
  ASSUME TypeOK, EventsInv, LeaveInv, [Next]_vars, NEW t \in Tracks, published'[t]
  PROVE  /\ published[t]
         /\ \/ UNCHANGED <<task[t], channel[t]>> /\ subscription'[t] = subscription[t]
            \/ TaskClosed(t) /\ UNCHANGED mgrVars
            \/ /\ task[t] = "leaving" /\ task'[t] = "done"
               /\ UNCHANGED <<subscription[t], channel[t]>>
            \/ /\ subscription[t] # "active" /\ subscription'[t] # "active"
               /\ UNCHANGED <<task[t], channel[t]>>
            \/ /\ OnUnsubscribeRequest /\ Head(event_in).track = t
               /\ UNCHANGED <<task[t], channel[t]>>
            \/ subscription[t] = "pending" /\ task'[t] = "running"
               /\ subscription'[t] = "active"
<1> DEFINE Same == UNCHANGED <<task[t], channel[t]>> /\ subscription'[t] = subscription[t]
<1>0. SubscriptionTypes /\ QueueTypes /\ TaskTypes
  BY TypeParts
<1>1. CASE UNCHANGED <<published, task, channel, subscription>>
  BY <1>1
<1>2. CASE OnSubscribeRequest
  <2> DEFINE c == Head(event_in).subscriber
  <2>1. want[c] \in Tracks
    BY <1>0, <1>2, Taken DEF OnSubscribeRequest, Wellformed, Asked
  <2>2. /\ UNCHANGED <<published, task, channel>>
        /\ \/ UNCHANGED subscription
           \/ /\ subscription[want[c]] = "none"
              /\ subscription' = [subscription EXCEPT ![want[c]] = "pending"]
    BY <1>2 DEF OnSubscribeRequest, taskVars
  <2>3. QED
    BY <1>0, <2>1, <2>2 DEF SubscriptionTypes
<1>3. CASE OnUnsubscribeRequest
  <2>1. Head(event_in).track \in Tracks
    BY <1>0, <1>3, Taken DEF OnUnsubscribeRequest, Wellformed
  <2>2. /\ UNCHANGED <<published, task, channel>>
        /\ \/ UNCHANGED subscription
           \/ subscription' = [subscription EXCEPT ![Head(event_in).track] = "none"]
    BY <1>3 DEF OnUnsubscribeRequest, Unsubscribed, taskVars
  <2>3. QED
    BY <1>0, <1>3, <2>1, <2>2 DEF SubscriptionTypes
<1>4. CASE OnSfuPublicationUpdates
  BY <1>0, <1>4 DEF OnSfuPublicationUpdates, Withdraw, taskVars, SubscriptionTypes
<1>5. CASE OnSfuSubscriberHandles
  <2>1. Head(event_in).track \in Tracks
    BY <1>0, <1>5, Taken DEF OnSfuSubscriberHandles, Wellformed
  <2>2. published' = published
    BY <1>5 DEF OnSfuSubscriberHandles
  <2>3. \A h, u : Reassign(h, u) => UNCHANGED <<task, channel, subscription>>
    BY DEF Reassign
  <2>4. ASSUME NEW h, NEW u \in Tracks, Activate(h, u)
        PROVE  \/ Same
               \/ subscription[t] = "pending" /\ task'[t] = "running"
                  /\ subscription'[t] = "active"
    BY <1>0, <2>4 DEF Activate, SubscriptionTypes, TaskTypes
  <2>5. QED
    BY <1>1, <1>5, <2>1, <2>2, <2>3, <2>4 DEF OnSfuSubscriberHandles, taskVars
<1>6. ASSUME NEW u \in Tracks, ShutdownTrack(u)
      PROVE  published[t] /\ Same
  BY <1>0, <1>6 DEF ShutdownTrack, Retire, taskVars, SubscriptionTypes
<1>7. CASE ShutdownJoined
  <2>1. joining \in Tracks /\ UNCHANGED <<published, task, channel>>
        /\ subscription' = [subscription EXCEPT ![joining] = "absent"]
    BY <1>7 DEF ShutdownJoined, taskVars
  <2>2. joining # t
    BY <2>1 DEF LeaveInv
  <2>3. QED
    BY <1>0, <2>1, <2>2 DEF SubscriptionTypes
<1>8. OnPacketReceived \/ OnResendSubscriptionUpdates \/ OnShutdown \/ ManagerEnd
        => UNCHANGED <<published, task, channel, subscription>>
  BY DEF OnPacketReceived, OnResendSubscriptionUpdates, OnShutdown, ManagerEnd,
         mgrVars, taskVars
<1>9. CASE ManagerStep
  BY <1>1, <1>2, <1>3, <1>4, <1>5, <1>6, <1>7, <1>8, <1>9 DEF ManagerStep
<1>10. CASE ~ManagerStep
  <2>1. UNCHANGED mgrVars
    BY <1>10, OtherTypes
  <2>2. UNCHANGED <<published, channel, subscription>>
    BY <2>1 DEF mgrVars
  <2>3. CASE task' = task
    BY <1>1, <2>2, <2>3
  <2>4. ASSUME NEW u \in Tracks, TaskStep(u), u # t
        PROVE  task'[t] = task[t]
    BY <1>0, <2>4 DEF TaskStep, TaskUnpublished, TaskClosed, TaskPacket,
       TaskEnd, TaskTypes
  <2>5. ASSUME TaskStep(t)
        PROVE  \/ task' = task \/ TaskClosed(t)
               \/ task[t] = "leaving" /\ task'[t] = "done"
    BY <1>0, <2>2, <2>5 DEF TaskStep, TaskUnpublished, TaskPacket, TaskEnd, TaskTypes
  <2>6. ASSUME NEW c \in Subscribers, NEW u \in Tracks, Subscribe(c, u)
        PROVE  task' = task
    BY <2>6 DEF Subscribe, taskVars
  <2>7. ASSUME NEW c \in Subscribers,
               StreamEnds(c) \/ SubscribeTimeout(c) \/ DropStream(c)
        PROVE  task' = task
    BY <2>7 DEF StreamEnds, SubscribeTimeout, DropStream, taskVars
  <2>8. ASSUME NEW u \in Tracks, SfuPacket(u) \/ RemoteUnpublish(u)
        PROVE  task' = task
    BY <2>8 DEF SfuPacket, RemoteUnpublish, taskVars
  <2>9. RoomStep \/ SfuServe \/ LinkDown \/ CloseRoom \/ UNCHANGED vars
          => task' = task
    BY DEF RoomStep, ForwardOut, Deliver, Restarted, ForwardStop, SfuServe,
       LinkDown, CloseRoom, vars, taskVars
  <2>10. \/ task' = task
         \/ \E u \in Tracks : TaskStep(u)
    BY <1>10, <2>6, <2>7, <2>8, <2>9, StepCases
  <2>11. QED
    BY <2>1, <2>2, <2>3, <2>4, <2>5, <2>10
<1>11. QED
  BY <1>9, <1>10

\* Leave, in the state after a step.
LeaveAfter(t, i) ==
  event_in'[i].type = "UnsubscribeRequest" /\ event_in'[i].track = t

\* Unless its task has just asked, the requests to unsubscribe from t after a
\* step were in the queue before, all of them moved by the same distance.
LEMMA LeavePositions ==
  ASSUME TypeOK, EventsInv, [Next]_vars, NEW t \in Tracks
  PROVE  /\ ~TaskClosed(t) =>
              \E k \in {0, 1} : \A i \in 1..Len(event_in') :
                LeaveAfter(t, i) => i + k \in 1..Len(event_in) /\ Leave(t, i + k)
         /\ ManagerStep /\ event_in' = Tail(event_in) =>
              \A i \in 1..Len(event_in') :
                LeaveAfter(t, i) => i + 1 \in 2..Len(event_in) /\ Leave(t, i + 1)
<1>0. QueueTypes
  BY TypeParts
<1>1. CASE event_in' = event_in
  <2>1. \A i \in 1..Len(event_in') :
          LeaveAfter(t, i) => i + 0 \in 1..Len(event_in) /\ Leave(t, i + 0)
    BY <1>1 DEF LeaveAfter, Leave
  <2>2. event_in' = Tail(event_in) => Len(event_in) = 0
    <3>1. ASSUME event_in # <<>> PROVE Tail(event_in) # event_in
      <4>1. Len(event_in) \in Nat /\ Len(Tail(event_in)) = Len(event_in) - 1
        BY <1>0, <3>1, TailOne DEF QueueTypes
      <4>2. QED
        BY <4>1
    <3>2. Len(<<>>) = 0
      OBVIOUS
    <3>3. QED
      BY <1>1, <3>1, <3>2
  <2>3. QED
    BY <1>1, <2>1, <2>2
<1>2. CASE event_in' = <<>>
  <2>1. Len(event_in') = 0
    BY <1>2
  <2>2. QED
    BY <2>1
<1>3. CASE event_in # <<>> /\ event_in' = Tail(event_in)
  <2>1. \A i \in 1..Len(event_in') :
          i + 1 \in 2..Len(event_in) /\ event_in'[i] = event_in[i + 1]
    BY <1>0, <1>3, TailOne DEF QueueTypes
  <2>2. QED
    BY <2>1 DEF LeaveAfter, Leave
<1>4. ASSUME NEW e, Queues(e), ~ManagerStep, ~TaskClosed(t)
      PROVE  \A i \in 1..Len(event_in') :
               LeaveAfter(t, i) => i + 0 \in 1..Len(event_in) /\ Leave(t, i + 0)
  <2>1. e \in InputEvents /\ ~(e.type = "UnsubscribeRequest" /\ e.track = t)
    BY <1>4 DEF Queues, Wellformed
  <2>2. /\ Len(event_in) \in Nat /\ Len(event_in') = Len(event_in) + 1
        /\ \A i \in 1..Len(event_in) : event_in'[i] = event_in[i]
        /\ event_in'[Len(event_in) + 1] = e
    BY <1>0, <1>4, <2>1, AppendOne DEF QueueTypes, Queues
  <2>3. QED
    BY <2>1, <2>2 DEF LeaveAfter, Leave
<1>5. QED
  BY <1>1, <1>2, <1>3, <1>4, InputStep

LEMMA NextLeaveInv ==
  ASSUME TypeOK, EventsInv, LeaveInv, [Next]_vars
  PROVE  LeaveInv'
<1>0. QueueTypes /\ ShutdownTypes
  BY TypeParts
<1>1. joining' \in Tracks => ~published'[joining']
  <2>1. CASE UNCHANGED <<joining, published>>
    BY <2>1 DEF LeaveInv
  <2>2. ASSUME NEW t \in Tracks, ShutdownTrack(t)
        PROVE  joining' \in Tracks => ~published'[joining']
    <3>1. published \in [Tracks -> BOOLEAN]
      BY TypeParts DEF SubscriptionTypes
    <3>2. QED
      BY <2>2, <3>1, RemoteTracksAssumption DEF ShutdownTrack, Retire
  <2>3. CASE ShutdownJoined
    BY <2>3, RemoteTracksAssumption DEF ShutdownJoined
  <2>4. CASE OnSfuPublicationUpdates
    BY <2>4 DEF OnSfuPublicationUpdates, Withdraw, LeaveInv
  <2>5. OnSubscribeRequest \/ OnUnsubscribeRequest \/ OnSfuSubscriberHandles
          \/ OnPacketReceived \/ OnResendSubscriptionUpdates \/ OnShutdown
          \/ ManagerEnd
          => UNCHANGED <<joining, published>>
    BY DEF OnSubscribeRequest, OnUnsubscribeRequest, OnSfuSubscriberHandles,
       OnPacketReceived, OnResendSubscriptionUpdates, OnShutdown, ManagerEnd,
       mgrVars
  <2>6. ~ManagerStep => UNCHANGED <<joining, published>>
    BY OtherTypes DEF mgrVars
  <2>7. QED
    BY <2>1, <2>2, <2>3, <2>4, <2>5, <2>6 DEF ManagerStep
<1>2. ASSUME NEW t \in Tracks, published'[t]
      PROVE  /\ task'[t] = "running" => subscription'[t] = "active"
             /\ \A i \in 1..Len(event_in') : LeaveAfter(t, i) =>
                  /\ task'[t] \in {"leaving", "done"}
                  /\ subscription'[t] = "active"
             /\ \A i, j \in 1..Len(event_in') :
                  LeaveAfter(t, i) /\ LeaveAfter(t, j) => i = j
  <2>1. /\ published[t]
        /\ task[t] = "running" => subscription[t] = "active"
        /\ \A i \in 1..Len(event_in) : Leave(t, i) =>
             task[t] \in {"leaving", "done"} /\ subscription[t] = "active"
        /\ \A i, j \in 1..Len(event_in) : Leave(t, i) /\ Leave(t, j) => i = j
    BY <1>2, TrackStep DEF LeaveInv
  <2>2. CASE TaskClosed(t)
    <3>1. task[t] = "running" /\ subscription'[t] = "active"
      BY <2>1, <2>2, <1>2, TrackStep DEF TaskClosed, mgrVars
    <3>2. task'[t] = "leaving"
      BY <2>2, TypeParts DEF TaskClosed, TaskTypes
    <3>3. \A i \in 1..Len(event_in) : ~Leave(t, i)
      BY <2>1, <3>1
    <3>4. UnsubscribeRequest(t) \in InputEvents
      BY Messages DEF Wellformed
    <3>5. CASE event_in' = event_in
      BY <3>1, <3>2, <3>3, <3>5 DEF LeaveAfter, Leave
    <3>6. CASE event_in' = Append(event_in, UnsubscribeRequest(t))
      <4>1. /\ Len(event_in) \in Nat /\ Len(event_in') = Len(event_in) + 1
            /\ \A i \in 1..Len(event_in) : event_in'[i] = event_in[i]
        BY <1>0, <3>4, <3>6, AppendOne DEF QueueTypes
      <4>2. \A i \in 1..Len(event_in') : LeaveAfter(t, i) => i = Len(event_in) + 1
        BY <3>3, <4>1 DEF LeaveAfter, Leave
      <4>3. QED
        BY <3>1, <3>2, <4>2
    <3>7. QED
      BY <2>2, <3>5, <3>6 DEF TaskClosed
  <2>3. CASE ~TaskClosed(t)
    <3>1. PICK k \in {0, 1} : \A i \in 1..Len(event_in') :
                LeaveAfter(t, i) => i + k \in 1..Len(event_in) /\ Leave(t, i + k)
      BY <2>3, LeavePositions
    <3>2. /\ \A i \in 1..Len(event_in') : LeaveAfter(t, i) =>
               task[t] \in {"leaving", "done"} /\ subscription[t] = "active"
          /\ \A i, j \in 1..Len(event_in') :
               LeaveAfter(t, i) /\ LeaveAfter(t, j) => i = j
      <4>1. \A i, j \in 1..Len(event_in') : i + k = j + k => i = j
        OBVIOUS
      <4>2. QED
        BY <2>1, <3>1, <4>1
    <3>3. CASE OnUnsubscribeRequest /\ Head(event_in).track = t
      <4>1. /\ event_in' = Tail(event_in) /\ ManagerStep
            /\ event_in # <<>> /\ Head(event_in).type = "UnsubscribeRequest"
        BY <1>0, <3>3, Taken DEF OnUnsubscribeRequest, ManagerStep
      <4>2. 1 \in 1..Len(event_in) /\ Leave(t, 1)
        BY <1>0, <3>3, <4>1, TailOne DEF QueueTypes, Leave
      <4>3. \A i \in 1..Len(event_in') : ~LeaveAfter(t, i)
        BY <2>1, <4>1, <4>2, LeavePositions
      <4>4. task[t] # "running"
        BY <2>1, <4>2
      <4>5. task'[t] = task[t]
        BY <3>3 DEF OnUnsubscribeRequest, taskVars
      <4>6. QED
        BY <4>3, <4>4, <4>5
    <3>4. CASE ~(OnUnsubscribeRequest /\ Head(event_in).track = t)
      BY <1>2, <2>1, <2>3, <3>2, <3>4, TrackStep
    <3>5. QED
      BY <3>3, <3>4
  <2>4. QED
    BY <2>2, <2>3
<1>3. QED
  BY <1>1, <1>2 DEF LeaveInv, Leave, LeaveAfter

\* How a call of subscribe, and the stream it returns, move.
LEMMA CallStep ==
  ASSUME TypeOK, EventsInv, [Next]_vars, NEW c \in Subscribers
  PROVE  /\ \/ UNCHANGED <<call[c], want[c], reads[c]>>
            \/ /\ call[c] = "idle" /\ call'[c] \in {"asking", "failed"}
               /\ want'[c] \in Tracks
            \/ /\ call'[c] \in {"failed", "timedout", "dropped"}
               /\ call[c] # "idle" /\ UNCHANGED want[c]
            \/ StreamEnds(c) /\ call'[c] = "ended" /\ UNCHANGED want[c]
            \/ /\ call[c] = "asking" /\ call'[c] = "reading"
               /\ UNCHANGED want[c] /\ want[c] \in Tracks
               /\ \/ /\ UNCHANGED <<task, channel>>
                     /\ reads'[c] = channel[want[c]]
                     /\ ~late'[c] => task[want[c]] = "running"
                  \/ /\ task'[want[c]] = "running"
                     /\ reads'[c] = channel'[want[c]]
         /\ late[c] => late'[c]
<1>0. SubscriptionTypes /\ QueueTypes /\ TaskTypes /\ CallTypes
  BY TypeParts
<1> DEFINE Kept == UNCHANGED <<call[c], want[c], reads[c]>> /\ late' = late
           Gone == /\ call'[c] \in {"failed", "timedout", "dropped"}
                   /\ call[c] # "idle" /\ UNCHANGED want[c] /\ late' = late
<1>1. CASE UNCHANGED <<call, want, reads, late>>
  BY <1>1
<1>2. ASSUME NEW C, Answer(C, "failed"), UNCHANGED <<want, reads, late>>
      PROVE  Kept \/ Gone
  BY <1>0, <1>2 DEF Answer, CallTypes
<1>3. CASE OnSubscribeRequest
  <2> DEFINE d == Head(event_in).subscriber
  <2>1. d \in Subscribers /\ want[d] \in Tracks
    BY <1>0, <1>3, Taken DEF OnSubscribeRequest, Wellformed, Asked
  <2>2. UNCHANGED <<want, task, channel>>
    BY <1>3 DEF OnSubscribeRequest, taskVars
  <2>3. CASE Answer({d}, "failed") /\ UNCHANGED <<reads, late>>
    BY <1>2, <2>2, <2>3
  <2>4. CASE UNCHANGED <<call, reads, late>>
    BY <1>1, <2>2, <2>4
  <2>5. CASE /\ Join(want[d], {d}, channel[want[d]])
             /\ late' = [late EXCEPT ![d] = @ \/ task[want[d]] # "running"]
    <3>1. CASE c # d
      BY <1>0, <2>2, <2>5, <3>1 DEF Join, Answer, CallTypes
    <3>2. CASE c = d
      <4>1. late'[c] = (late[c] \/ task[want[c]] # "running")
        BY <1>0, <2>1, <2>5, <3>2 DEF CallTypes
      <4>2. /\ late[c] => late'[c]
            /\ ~late'[c] => task[want[c]] = "running"
        BY <4>1
      <4>3. /\ call'[c] = IF call[c] = "asking" THEN "reading" ELSE call[c]
            /\ reads'[c] = IF call[c] = "asking" THEN channel[want[c]] ELSE reads[c]
        BY <1>0, <2>1, <2>5, <3>2 DEF Join, Answer
      <4>4. QED
        BY <2>1, <2>2, <3>2, <4>2, <4>3
    <3>3. QED
      BY <3>1, <3>2
  <2>6. QED
    BY <1>3, <2>3, <2>4, <2>5 DEF OnSubscribeRequest
<1>4. CASE OnSfuPublicationUpdates
  <2>1. /\ UNCHANGED <<want, reads, late>>
        /\ \E C : Answer(C, "failed")
    BY <1>4 DEF OnSfuPublicationUpdates, Withdraw
  <2>2. QED
    BY <1>2, <2>1
<1>5. CASE OnSfuSubscriberHandles
  <2>1. Head(event_in).track \in Tracks /\ UNCHANGED <<want, late>>
    BY <1>0, <1>5, Taken DEF OnSfuSubscriberHandles, Wellformed
  <2>2. ASSUME NEW h, NEW t, Reassign(h, t) PROVE Kept
    BY <2>1, <2>2 DEF Reassign
  <2>3. ASSUME NEW h, NEW t \in Tracks, Activate(h, t)
        PROVE  \/ Kept
               \/ /\ call[c] = "asking" /\ call'[c] = "reading"
                  /\ want[c] = t /\ task'[t] = "running"
                  /\ reads'[c] = channel'[t] /\ late' = late
    <3>1. c \in result_txs[t] => want[c] = t
      BY DEF EventsInv
    <3>2. task'[t] = "running" /\ channel'[t] = channel[t] + 1
      BY <1>0, <2>3 DEF Activate, SubscriptionTypes, TaskTypes
    <3>3. /\ call'[c] = IF c \in result_txs[t] /\ call[c] = "asking"
                        THEN "reading" ELSE call[c]
          /\ reads'[c] = IF c \in result_txs[t] /\ call[c] = "asking"
                         THEN channel[t] + 1 ELSE reads[c]
      BY <2>3 DEF Activate, Join, Answer
    <3>4. QED
      BY <2>1, <3>1, <3>2, <3>3
  <2>4. CASE UNCHANGED <<call, reads>>
    BY <1>1, <2>1, <2>4
  <2>5. QED
    BY <1>5, <2>1, <2>2, <2>3, <2>4 DEF OnSfuSubscriberHandles
<1>6. ASSUME NEW t \in Tracks, ShutdownTrack(t)
      PROVE  Kept \/ Gone
  <2>1. /\ UNCHANGED <<want, reads, late>>
        /\ \E C : Answer(C, "failed")
    BY <1>6 DEF ShutdownTrack
  <2>2. QED
    BY <1>2, <2>1
<1>7. CASE ManagerEnd
  BY <1>2, <1>7 DEF ManagerEnd
<1>8. OnUnsubscribeRequest \/ OnPacketReceived \/ OnResendSubscriptionUpdates
        \/ OnShutdown \/ ShutdownJoined
        => UNCHANGED <<call, want, reads, late>>
  BY DEF OnUnsubscribeRequest, OnPacketReceived, OnResendSubscriptionUpdates,
         OnShutdown, ShutdownJoined, callVars
<1>9. CASE ManagerStep
  BY <1>1, <1>3, <1>4, <1>5, <1>6, <1>7, <1>8, <1>9 DEF ManagerStep
<1>10. ASSUME NEW d \in Subscribers, NEW t \in Tracks, Subscribe(d, t)
       PROVE  \/ Kept
              \/ /\ call[c] = "idle" /\ call'[c] \in {"asking", "failed"}
                 /\ want'[c] \in Tracks /\ late' = late
  BY <1>0, <1>10 DEF Subscribe, CallTypes
<1>11. ASSUME NEW d \in Subscribers,
              StreamEnds(d) \/ SubscribeTimeout(d) \/ DropStream(d)
       PROVE  \/ Kept \/ Gone
              \/ /\ StreamEnds(c) /\ call'[c] = "ended"
                 /\ UNCHANGED want[c] /\ late' = late
  BY <1>0, <1>11 DEF StreamEnds, SubscribeTimeout, DropStream, CallTypes
<1>12. ASSUME NEW t \in Tracks,
              TaskStep(t) \/ SfuPacket(t) \/ RemoteUnpublish(t)
       PROVE  UNCHANGED <<call, want, reads, late>>
  BY <1>12 DEF TaskStep, TaskUnpublished, TaskClosed, TaskPacket, TaskEnd,
     SfuPacket, RemoteUnpublish, callVars
<1>13. RoomStep \/ SfuServe \/ LinkDown \/ CloseRoom \/ UNCHANGED vars =>
         UNCHANGED <<call, want, reads, late>>
  BY DEF RoomStep, ForwardOut, Deliver, Restarted, ForwardStop, SfuServe,
     LinkDown, CloseRoom, vars, callVars
<1>14. QED
  BY <1>1, <1>9, <1>10, <1>11, <1>12, <1>13, StepCases

LEMMA NextStreamInv ==
  ASSUME TypeOK, EventsInv, StreamInv, [Next]_vars
  PROVE  StreamInv'
<1>0. LeaveInv /\ ReadingInv /\ StreamsEndWithTrack
  BY DEF StreamInv
<1>1. ASSUME NEW c \in Subscribers, call'[c] # "idle"
      PROVE  want'[c] \in Tracks
  <2>1. call[c] # "idle" => want[c] \in Tracks
    BY DEF StreamInv
  <2>2. QED
    BY <1>1, <2>1, CallStep DEF StreamEnds
<1>2. ASSUME NEW c \in Subscribers, call[c] = "reading", ~late'[c], ~late[c],
             want'[c] = want[c], want[c] \in Tracks, published'[want[c]]
      PROVE  /\ task[want[c]] = "running" /\ reads[c] = channel[want[c]]
             /\ task'[want[c]] = "running" /\ channel'[want[c]] = channel[want[c]]
  <2> DEFINE t == want[c]
  <2>1. published[t]
    BY <1>0, <1>2, TrackStep
  <2>2. task[t] = "running" /\ reads[c] = channel[t]
    BY <1>0, <1>2, <2>1 DEF ReadingInv
  <2>3. subscription[t] = "active"
    BY <1>0, <1>2, <2>1, <2>2 DEF LeaveInv
  <2>4. ~TaskClosed(t)
    <3>1. c \in Readers(t)
      BY <1>2, <2>2 DEF Readers
    <3>2. QED
      BY <3>1 DEF TaskClosed, NoReaders
  <2>5. task'[t] = task[t] /\ channel'[t] = channel[t]
    BY <1>0, <1>2, <2>2, <2>3, <2>4, TrackStep
  <2>6. QED
    BY <2>2, <2>5
<1>3. ASSUME NEW c \in Subscribers, call'[c] = "reading", ~late'[c],
             published'[want'[c]]
      PROVE  reads'[c] = channel'[want'[c]] /\ task'[want'[c]] = "running"
  <2>1. ~late[c]
    BY <1>3, CallStep
  <2>2. CASE UNCHANGED <<call[c], want[c], reads[c]>>
    <3>1. want[c] \in Tracks
      BY <1>1, <1>3, <2>2
    <3>2. QED
      BY <1>2, <1>3, <2>1, <2>2, <3>1
  <2>3. CASE ~UNCHANGED <<call[c], want[c], reads[c]>>
    BY <1>3, <2>3, CallStep
  <2>4. QED
    BY <2>2, <2>3
<1>4. ASSUME NEW c \in Subscribers, call'[c] = "ended", published'[want'[c]]
      PROVE  late'[c]
  <2>1. want'[c] = want[c] /\ want[c] \in Tracks
    BY <1>1, <1>4, CallStep
  <2>2. published[want[c]]
    BY <1>0, <1>4, <2>1, TrackStep
  <2>3. CASE call[c] = "ended"
    <3>1. late[c]
      BY <1>0, <2>2, <2>3 DEF StreamsEndWithTrack
    <3>2. QED
      BY <3>1, CallStep
  <2>4. CASE call[c] # "ended"
    <3>1. StreamEnds(c)
      BY <1>4, <2>4, CallStep
    <3>2. CASE late[c]
      BY <3>2, CallStep
    <3>3. CASE ~late[c]
      <4>1. reads[c] = channel[want[c]] /\ task[want[c]] = "running"
        BY <1>0, <2>2, <3>1, <3>3 DEF ReadingInv, StreamEnds
      <4>2. QED
        BY <3>1, <4>1 DEF StreamEnds
    <3>4. QED
      BY <3>2, <3>3
  <2>5. QED
    BY <2>3, <2>4
<1>5. LeaveInv'
  BY <1>0, NextLeaveInv
<1>6. QED
  BY <1>1, <1>3, <1>4, <1>5 DEF StreamInv, ReadingInv, StreamsEndWithTrack

\* A frame stream ends only because the publisher unpublished its track or the
\* manager shut down, unless the subscriber joined when the task had already
\* seen its last reader leave: the request to unsubscribe that an earlier task
\* has sent never reaches a subscription made since.
THEOREM StreamsEndOnlyWithTrack == Spec => []StreamsEndWithTrack
<1>1. Init => StreamInv
  <2>1. SUFFICES ASSUME Init PROVE StreamInv
    OBVIOUS
  <2>2. /\ \A c \in Subscribers : call[c] = "idle"
        /\ \A t \in Tracks : task[t] = "none"
        /\ joining = NoTrack /\ event_in = <<>>
    BY <2>1 DEF Init
  <2>3. Len(event_in) = 0
    BY <2>2
  <2>4. QED
    BY <2>2, <2>3, RemoteTracksAssumption
    DEF StreamInv, LeaveInv, ReadingInv, StreamsEndWithTrack
<1>2. TypeOK /\ EventsInv /\ StreamInv /\ [Next]_vars => StreamInv'
  BY NextStreamInv
<1>3. StreamInv => StreamsEndWithTrack
  BY DEF StreamInv
<1>4. QED
  BY <1>1, <1>2, <1>3, SpecMessages, PTL DEF Spec

-----------------------------------------------------------------------------
(***************************************************************************)
(* SfuAgrees: the requests on their way to the SFU, and the handles on     *)
(* their way back.                                                         *)
(***************************************************************************)

\* No message of the set M is in the queue q; the last one of M is one of L.
NoneOf(q, M) == \A i \in 1..Len(q) : q[i] \notin M
LastOf(q, M, L) ==
  \E i \in 1..Len(q) : /\ q[i] \in L
                       /\ \A j \in 1..Len(q) : j > i => q[j] \notin M

Wanted(t) == subscription[t] \in {"pending", "active"}

\* The subscription updates for t, and those that say what the manager wants.
Subscribes(t) == {Output("Subscribe", t)}
Unsubscribes(t) == {Output("Unsubscribe", t)}
Updates(t) == Subscribes(t) \cup Unsubscribes(t)
Latest(t) == IF Wanted(t) THEN Subscribes(t) ELSE Unsubscribes(t)

\* The handles assigned to t, and those of them that are h.
HandlesFor(t) ==
  {e \in InputEvents : e.type = "SfuSubscriberHandles" /\ e.track = t}
Carries(t, h) == {e \in HandlesFor(t) : e.handle = h}

Resends == {e \in InputEvents : e.type = "ResendSubscriptionUpdates"}

\* The losses that leave the SFU, or the manager, without what it needs.
ResendLost == Loss("ResendSubscriptionUpdates", NoTrack) \in lost
HandleLost(t) == Loss("SfuSubscriberHandles", t) \in lost

\* The last update on its way says what the manager wants; with none on its
\* way the SFU knows, unless a restart made it forget or the event that asks
\* to resend was lost.
Requested(t) ==
  \/ LastOf(event_out, Updates(t), Latest(t))
  \/ /\ NoneOf(event_out, Updates(t))
     /\ \/ LastOf(toSfu, Updates(t), Latest(t))
        \/ /\ NoneOf(toSfu, Updates(t))
           /\ sfuHandle[t] # 0 => Wanted(t)
           /\ link = "up" /\ NoneOf(event_in, Resends) /\ Wanted(t) =>
                sfuHandle[t] # 0 \/ ResendLost

\* The last handle on its way is the one in use; with none on its way it is
\* the one known here, unless it is about to be given up or one was lost.
HandleKnown(t) ==
  /\ ~HandleLost(t)
  /\ sfuHandle[t] # 0
  /\ Wanted(t)
  /\ NoneOf(event_out, Unsubscribes(t))
  /\ NoneOf(toSfu, Unsubscribes(t))
  => \/ LastOf(fromSfu, HandlesFor(t), Carries(t, sfuHandle[t]))
     \/ /\ NoneOf(fromSfu, HandlesFor(t))
        /\ \/ LastOf(event_in, HandlesFor(t), Carries(t, sfuHandle[t]))
           \/ /\ NoneOf(event_in, HandlesFor(t))
              /\ subscription[t] = "active"
              /\ sub_handle[t] = sfuHandle[t]

\* Until the room is closed the manager goes on; an update of the publications
\* lists at least those there are.
Shutdowns == {e \in InputEvents : e.type = "Shutdown"}
NotOfSfu ==
  {e \in InputEvents :
     e.type \notin {"SfuPublicationUpdates", "SfuSubscriberHandles"}}
Outdated ==
  {e \in InputEvents :
     e.type = "SfuPublicationUpdates" /\ ~(server \subseteq e.tracks)}

OpenInv ==
  /\ NoneOf(event_in, Outdated)
  /\ NoneOf(fromSfu, NotOfSfu) /\ NoneOf(fromSfu, Outdated)
  /\ link # "closed" =>
       /\ forwarding
       /\ manager = "running"
       /\ joining = NoTrack
       /\ NoneOf(event_in, Shutdowns)

SfuTrack(t) == Requested(t) /\ HandleKnown(t)

SfuInv ==
  /\ OpenInv
  /\ link # "closed" => \A t \in server : SfuTrack(t)

-----------------------------------------------------------------------------
\* What a queue says of the messages in M: q and p say the same.
Same(q, p, M) ==
  /\ NoneOf(p, M) <=> NoneOf(q, M)
  /\ \A L \in SUBSET M : LastOf(q, M, L) => LastOf(p, M, L)

LEMMA SameQueue == ASSUME NEW q, NEW M PROVE Same(q, q, M)
  BY DEF Same

LEMMA QueueAppend ==
  ASSUME NEW S, NEW q \in Seq(S), NEW e \in S, NEW M
  PROVE  /\ e \notin M => Same(q, Append(q, e), M)
         /\ \A L : e \in L => LastOf(Append(q, e), M, L)
         /\ NoneOf(Append(q, e), M) => NoneOf(q, M)
<1>1. /\ Len(q) \in Nat /\ Len(Append(q, e)) = Len(q) + 1
      /\ \A i \in 1..Len(q) : Append(q, e)[i] = q[i]
      /\ Append(q, e)[Len(q) + 1] = e
  BY AppendOne
<1> DEFINE p == Append(q, e)
<1>2. /\ 1..Len(q) \subseteq 1..Len(p) /\ Len(q) + 1 \in 1..Len(p)
      /\ \A i \in 1..Len(p) : i \in 1..Len(q) \/ i = Len(q) + 1
  BY <1>1
<1>3. NoneOf(p, M) => NoneOf(q, M)
  BY <1>1, <1>2 DEF NoneOf
<1>4. ASSUME NEW L, e \in L PROVE LastOf(p, M, L)
  <2>1. \A j \in 1..Len(p) : ~(j > Len(q) + 1)
    BY <1>1
  <2>2. QED
    BY <1>1, <1>2, <1>4, <2>1 DEF LastOf
<1>5. ASSUME e \notin M PROVE Same(q, p, M)
  <2>1. NoneOf(q, M) => NoneOf(p, M)
    BY <1>1, <1>2, <1>5 DEF NoneOf
  <2>2. ASSUME NEW L \in SUBSET M, LastOf(q, M, L)
        PROVE  LastOf(p, M, L)
    <3>1. PICK i \in 1..Len(q) :
            q[i] \in L /\ \A j \in 1..Len(q) : j > i => q[j] \notin M
      BY <2>2 DEF LastOf
    <3>2. i \in 1..Len(p) /\ p[i] \in L
          /\ \A j \in 1..Len(p) : j > i => p[j] \notin M
      BY <1>1, <1>2, <1>5, <3>1
    <3>3. QED
      BY <3>2 DEF LastOf
  <2>3. QED
    BY <1>3, <2>1, <2>2 DEF Same
<1>6. QED
  BY <1>3, <1>4, <1>5

LEMMA QueueTail ==
  ASSUME NEW S, NEW q \in Seq(S), q # <<>>, NEW M
  PROVE  /\ Head(q) \notin M => Same(q, Tail(q), M)
         /\ NoneOf(q, M) => NoneOf(Tail(q), M) /\ Head(q) \notin M
         /\ \A L : LastOf(q, M, L) =>
              \/ LastOf(Tail(q), M, L)
              \/ NoneOf(Tail(q), M) /\ Head(q) \in L
<1> DEFINE p == Tail(q)
<1>1. /\ Len(q) \in Nat /\ Len(p) = Len(q) - 1
      /\ 1 \in 1..Len(q) /\ Head(q) = q[1]
      /\ \A i \in 1..Len(p) : i + 1 \in 1..Len(q) /\ p[i] = q[i + 1]
  BY TailOne
<1>2. \A i \in 1..Len(q) : i # 1 => i - 1 \in 1..Len(p) /\ p[i - 1] = q[i]
  <2>1. ASSUME NEW i \in 1..Len(q), i # 1
        PROVE  i - 1 \in 1..Len(p) /\ (i - 1) + 1 = i
    BY <1>1, <2>1
  <2>2. QED
    BY <1>1, <2>1
<1>3. NoneOf(q, M) => NoneOf(p, M) /\ Head(q) \notin M
  BY <1>1 DEF NoneOf
<1>4. ASSUME NEW L, LastOf(q, M, L)
      PROVE  LastOf(p, M, L) \/ (NoneOf(p, M) /\ Head(q) \in L)
  <2>1. PICK i \in 1..Len(q) :
          q[i] \in L /\ \A j \in 1..Len(q) : j > i => q[j] \notin M
    BY <1>4 DEF LastOf
  <2>2. CASE i = 1
    <3>1. \A j \in 1..Len(p) : j + 1 > 1
      OBVIOUS
    <3>2. QED
      BY <1>1, <2>1, <2>2, <3>1 DEF NoneOf
  <2>3. CASE i # 1
    <3>1. i - 1 \in 1..Len(p) /\ p[i - 1] \in L
      BY <1>2, <2>1, <2>3
    <3>2. \A j \in 1..Len(p) : j > i - 1 => j + 1 > i
      OBVIOUS
    <3>3. \A j \in 1..Len(p) : j > i - 1 => p[j] \notin M
      BY <1>1, <2>1, <3>2
    <3>4. QED
      BY <3>1, <3>3 DEF LastOf
  <2>4. QED
    BY <2>2, <2>3
<1>5. ASSUME Head(q) \notin M PROVE Same(q, p, M)
  <2>1. NoneOf(p, M) => NoneOf(q, M)
    BY <1>1, <1>2, <1>5 DEF NoneOf
  <2>2. ASSUME NEW L \in SUBSET M, LastOf(q, M, L)
        PROVE  LastOf(p, M, L)
    <3>1. PICK i \in 1..Len(q) :
            q[i] \in L /\ \A j \in 1..Len(q) : j > i => q[j] \notin M
      BY <2>2 DEF LastOf
    <3>2. CASE i # 1
      <4>1. i - 1 \in 1..Len(p) /\ p[i - 1] \in L
        BY <1>2, <3>1, <3>2
      <4>2. \A j \in 1..Len(p) : j > i - 1 => j + 1 > i
        OBVIOUS
      <4>3. QED
        BY <1>1, <3>1, <4>1, <4>2 DEF LastOf
    <3>3. i # 1
      BY <1>1, <1>5, <3>1
    <3>4. QED
      BY <3>2, <3>3
  <2>3. QED
    BY <1>3, <2>1, <2>2 DEF Same
<1>6. QED
  BY <1>3, <1>4, <1>5

LEMMA QueueConcat ==
  ASSUME NEW S, NEW q \in Seq(S), NEW p \in Seq(S), NEW M
  PROVE  /\ NoneOf(p, M) => Same(q, q \o p, M)
         /\ \A L : LastOf(p, M, L) => LastOf(q \o p, M, L)
         /\ NoneOf(q \o p, M) => NoneOf(q, M)
<1> DEFINE r == q \o p
<1>1. /\ Len(q) \in Nat /\ Len(p) \in Nat /\ Len(r) = Len(q) + Len(p)
      /\ \A i \in 1..Len(q) : i \in 1..Len(r) /\ r[i] = q[i]
      /\ \A i \in 1..Len(p) :
           Len(q) + i \in 1..Len(r) /\ r[Len(q) + i] = p[i]
  OBVIOUS
<1>2. \A i \in 1..Len(r) : i \notin 1..Len(q) =>
        i - Len(q) \in 1..Len(p) /\ r[i] = p[i - Len(q)]
  <2>1. ASSUME NEW i \in 1..Len(r), i \notin 1..Len(q)
        PROVE  i - Len(q) \in 1..Len(p) /\ Len(q) + (i - Len(q)) = i
    BY <1>1, <2>1
  <2>2. QED
    BY <1>1, <2>1
<1>3. NoneOf(r, M) => NoneOf(q, M)
  BY <1>1 DEF NoneOf
<1>4. ASSUME NEW L, LastOf(p, M, L) PROVE LastOf(r, M, L)
  <2>1. PICK i \in 1..Len(p) :
          p[i] \in L /\ \A j \in 1..Len(p) : j > i => p[j] \notin M
    BY <1>4 DEF LastOf
  <2>2. ASSUME NEW j \in 1..Len(r), j > Len(q) + i PROVE r[j] \notin M
    <3>1. j \notin 1..Len(q) /\ j - Len(q) > i
      BY <1>1, <2>2
    <3>2. QED
      BY <1>2, <2>1, <3>1
  <2>3. Len(q) + i \in 1..Len(r) /\ r[Len(q) + i] \in L
    BY <1>1, <2>1
  <2>4. QED
    BY <2>2, <2>3 DEF LastOf
<1>5. ASSUME NoneOf(p, M) PROVE Same(q, r, M)
  <2>1. \A i \in 1..Len(r) : i \notin 1..Len(q) => r[i] \notin M
    BY <1>2, <1>5 DEF NoneOf
  <2>2. NoneOf(q, M) => NoneOf(r, M)
    BY <1>1, <2>1 DEF NoneOf
  <2>3. ASSUME NEW L \in SUBSET M, LastOf(q, M, L)
        PROVE  LastOf(r, M, L)
    <3>1. PICK i \in 1..Len(q) :
            q[i] \in L /\ \A j \in 1..Len(q) : j > i => q[j] \notin M
      BY <2>3 DEF LastOf
    <3>2. \A j \in 1..Len(r) : j > i => r[j] \notin M
      BY <1>1, <2>1, <3>1
    <3>3. QED
      BY <1>1, <3>1, <3>2 DEF LastOf
  <2>4. QED
    BY <1>3, <2>2, <2>3 DEF Same
<1>6. QED
  BY <1>3, <1>4, <1>5

\* A queue whose last message of M is one of L has one of them.
LEMMA LastIsThere ==
  ASSUME NEW q, NEW M, NEW L, LastOf(q, M, L)
  PROVE  ~NoneOf(q, L)
  BY DEF LastOf, NoneOf

\* One subscription update per track of a set, in any order.
LEMMA OneUpdateEach ==
  ASSUME NEW S \in SUBSET Tracks, NEW q \in SetToSeqs(S), NEW t \in Tracks
  PROVE  LET p == [i \in DOMAIN q |-> Output("Subscribe", q[i])]
         IN  /\ t \in S => LastOf(p, Updates(t), Subscribes(t))
             /\ t \notin S => NoneOf(p, Updates(t))
             /\ NoneOf(p, Unsubscribes(t))
<1> DEFINE p == [i \in DOMAIN q |-> Output("Subscribe", q[i])]
           n == Cardinality(S)
<1>1. IsFiniteSet(S) /\ n \in Nat
  BY RemoteTracksAssumption, FS_Subset, FS_CardinalityType
<1>2. q \in [1..n -> S] /\ \A i, j \in 1..n : i # j => q[i] # q[j]
  BY DEF SetToSeqs
<1>3. p \in [1..n -> {Output("Subscribe", u) : u \in S}]
      /\ \A i \in 1..n : p[i] = Output("Subscribe", q[i])
  BY <1>2
<1>4. Len(p) = n
  BY <1>1, <1>3
<1>5. \A u \in Tracks : Output("Subscribe", u) \in Updates(t) => u = t
  BY DEF Output, Updates, Subscribes, Unsubscribes
<1>6. \A u \in Tracks : Output("Subscribe", u) \notin Unsubscribes(t)
  BY DEF Output, Unsubscribes
<1>7. NoneOf(p, Unsubscribes(t)) /\ (t \notin S => NoneOf(p, Updates(t)))
  BY <1>2, <1>3, <1>4, <1>5, <1>6 DEF NoneOf
<1>8. ASSUME t \in S PROVE LastOf(p, Updates(t), Subscribes(t))
  <2>1. PICK i \in 1..n : q[i] = t
    <3>1. q \in Injection(1..n, S)
      BY <1>2 DEF Injection, IsInjective
    <3>2. Cardinality(1..n) = n
      BY <1>1, FS_Interval
    <3>3. q \in Surjection(1..n, S)
      BY <1>1, <3>1, <3>2, FS_Injection
    <3>4. QED
      BY <1>8, <3>3 DEF Surjection
  <2>2. p[i] \in Subscribes(t)
    BY <1>3, <2>1 DEF Subscribes
  <2>3. \A j \in 1..n : j # i => p[j] \notin Updates(t)
    BY <1>2, <1>3, <1>5, <2>1
  <2>4. \A j \in 1..n : j > i => j # i
    BY <1>1
  <2>5. QED
    BY <1>4, <2>2, <2>3, <2>4 DEF LastOf
<1>9. QED
  BY <1>7, <1>8

-----------------------------------------------------------------------------
(***************************************************************************)
(* What each step makes of the requests and handles of a track             *)
(***************************************************************************)
LEMMA Kinds ==
  /\ \A t \in Tracks : /\ Latest(t) \in SUBSET Updates(t)
                       /\ Unsubscribes(t) \subseteq Updates(t)
                       /\ \A h : Carries(t, h) \in SUBSET HandlesFor(t)
  /\ \A t \in Tracks : \A e : e.type # "SfuSubscriberHandles" =>
       e \notin HandlesFor(t)
  /\ \A t, u \in Tracks : t # u =>
       \A type \in {"Subscribe", "Unsubscribe"} :
         Output(type, u) \notin Updates(t)
  /\ \A t \in Tracks : \A e : e.type \in {"TrackPublished", "TrackUnpublished"}
       => e \notin Updates(t)
  /\ \A e : e.type # "ResendSubscriptionUpdates" => e \notin Resends
  BY DEF Latest, Updates, Subscribes, Unsubscribes, Carries, HandlesFor,
         Output, Resends

\* Nothing changes for the track t, though its queues may move on.
Untouched(t) ==
  /\ Wanted(t)' <=> Wanted(t)
  /\ sfuHandle'[t] = sfuHandle[t]
  /\ sub_handle'[t] = sub_handle[t]
  /\ subscription[t] = "active" => subscription'[t] = "active"
  /\ link' = "up" => link = "up"
  /\ \A M \in {Updates(t), Unsubscribes(t)} :
       Same(event_out, event_out', M) /\ Same(toSfu, toSfu', M)
  /\ Same(event_in, event_in', HandlesFor(t))
  /\ Same(fromSfu, fromSfu', HandlesFor(t))
  /\ NoneOf(event_in', Resends) => NoneOf(event_in, Resends)
  /\ ResendLost => ResendLost'
  /\ HandleLost(t) => HandleLost(t)'

LEMMA TrackStays ==
  ASSUME NEW t \in Tracks, SfuTrack(t), Untouched(t)
  PROVE  SfuTrack(t)'
<1>1. Latest(t)' = Latest(t) /\ Latest(t) \in SUBSET Updates(t)
  BY Kinds DEF Latest, Untouched
<1>2. Requested(t)'
  BY <1>1 DEF SfuTrack, Requested, Untouched, Same
<1>3. HandleKnown(t)'
  BY Kinds DEF SfuTrack, HandleKnown, Untouched, Same
<1>4. QED
  BY <1>2, <1>3 DEF SfuTrack

\* The setting of the lemmas below.
Open(t) ==
  /\ TypeOK /\ EventsInv /\ OpenInv
  /\ t \in Tracks /\ t \in server
  /\ link # "closed" /\ lost \subseteq lost'
  /\ SfuTrack(t)

LEMMA OpenFacts ==
  ASSUME NEW t, Open(t)
  PROVE  /\ QueueTypes /\ EventsInv /\ SubscriptionTypes /\ SfuTypes
         /\ t \in Tracks /\ manager = "running" /\ joining = NoTrack
         /\ forwarding /\ SfuTrack(t)
         /\ ResendLost => ResendLost'
         /\ HandleLost(t) => HandleLost(t)'
         /\ \A q, M : Same(q, q, M)
<1>1. /\ ResendLost => ResendLost'
      /\ HandleLost(t) => HandleLost(t)'
  BY DEF Open, ResendLost, HandleLost, Loss
<1>2. QED
  BY <1>1, TypeParts, SameQueue DEF Open, OpenInv

\* What event_in becomes, for a track.
InputStays(t) ==
  /\ Same(event_in, event_in', HandlesFor(t))
  /\ NoneOf(event_in', Resends) => NoneOf(event_in, Resends)

LEMMA InputAppended ==
  ASSUME NEW t, Open(t), NEW e \in InputEvents,
         e.type # "SfuSubscriberHandles",
         event_in' = event_in \/ event_in' = Append(event_in, e)
  PROVE  InputStays(t)
<1>1. event_in \in Seq(InputEvents) /\ t \in Tracks /\ e \notin HandlesFor(t)
  BY OpenFacts, Kinds DEF QueueTypes
<1>2. /\ Same(event_in, Append(event_in, e), HandlesFor(t))
      /\ NoneOf(Append(event_in, e), Resends) => NoneOf(event_in, Resends)
  BY <1>1, QueueAppend
<1>3. QED
  BY <1>2, SameQueue DEF InputStays

LEMMA InputTaken ==
  ASSUME NEW t, Open(t), NEW type, Take(type),
         type \notin {"SfuSubscriberHandles", "ResendSubscriptionUpdates"}
  PROVE  InputStays(t)
<1>1. /\ event_in \in Seq(InputEvents) /\ event_in # <<>>
      /\ event_in' = Tail(event_in) /\ Head(event_in).type = type
  BY OpenFacts, Taken DEF QueueTypes
<1>2. Head(event_in) \notin HandlesFor(t) /\ Head(event_in) \notin Resends
  BY <1>1, OpenFacts, Kinds
<1>3. QED
  BY <1>1, <1>2, QueueTail DEF InputStays, Same

\* A step that changes none of the rest.
LEMMA InputOnly ==
  ASSUME NEW t, Open(t), InputStays(t),
         UNCHANGED <<subscription, sfuHandle, sub_handle, link, event_out,
                     toSfu, fromSfu>>
  PROVE  SfuTrack(t)'
  BY OpenFacts, TrackStays DEF InputStays, Untouched, Wanted

\* The output of the manager.
LEMMA Emitted ==
  ASSUME NEW t, Open(t), NEW p \in Seq(OutputEvents), EmitAll(p)
  PROVE  /\ \A M : NoneOf(p, M) => Same(event_out, event_out', M)
         /\ \A M, L : LastOf(p, M, L) => LastOf(event_out', M, L)
         /\ \A M : NoneOf(event_out', M) => NoneOf(event_out, M)
  BY OpenFacts, QueueConcat DEF EmitAll, QueueTypes

LEMMA OneMessage ==
  ASSUME NEW o, NEW M, NEW L
  PROVE  /\ o \notin M => NoneOf(<<o>>, M)
         /\ o \in L => LastOf(<<o>>, M, L)
  BY DEF NoneOf, LastOf

\* The manager is about to be told to give t up, or never asked for it.
LEMMA GivenUp ==
  ASSUME NEW t \in Tracks, SfuTrack(t), ~Wanted(t), sfuHandle[t] # 0
  PROVE  ~NoneOf(event_out, Unsubscribes(t)) \/ ~NoneOf(toSfu, Unsubscribes(t))
  BY LastIsThere DEF SfuTrack, Requested, Latest

LEMMA SfuSubscribeRequest ==
  ASSUME NEW t, Open(t), OnSubscribeRequest PROVE SfuTrack(t)'
<1>1. Take("SubscribeRequest") /\ InputStays(t)
  BY InputTaken DEF OnSubscribeRequest
<1>2. UNCHANGED <<sfuHandle, sub_handle, link, toSfu, fromSfu>>
  BY DEF OnSubscribeRequest, sfuVars, netVars
<1>3. PICK c : c = Head(event_in).subscriber
  OBVIOUS
<1>4. want[c] \in Tracks
  BY <1>1, <1>3, OpenFacts, Taken DEF Asked
<1>5. CASE UNCHANGED <<subscription, event_out>>
  BY <1>1, <1>2, <1>5, InputOnly
<1>6. CASE /\ subscription[want[c]] = "none"
           /\ EmitAll(<<Output("Subscribe", want[c])>>)
           /\ subscription' = [subscription EXCEPT ![want[c]] = "pending"]
  <2>1. <<Output("Subscribe", want[c])>> \in Seq(OutputEvents)
    BY <1>4, Outputs
  <2>2. Output("Subscribe", want[c]) \notin Unsubscribes(t)
    BY DEF Output, Unsubscribes
  <2>3. Same(event_out, event_out', Unsubscribes(t))
    BY <1>6, <2>1, <2>2, Emitted, OneMessage
  <2>4. CASE want[c] = t
    <3>1. ~Wanted(t) /\ Wanted(t)'
      BY <1>4, <1>6, <2>4, OpenFacts DEF Wanted, SubscriptionTypes
    <3>2. LastOf(event_out', Updates(t), Subscribes(t))
      BY <1>6, <2>1, <2>4, Emitted, OneMessage DEF Subscribes
    <3>3. Requested(t)'
      BY <3>1, <3>2 DEF Requested, Latest
    <3>4. HandleKnown(t)'
      BY <1>2, <2>3, <3>1, OpenFacts, GivenUp DEF HandleKnown, Same
    <3>5. QED
      BY <3>3, <3>4 DEF SfuTrack
  <2>5. CASE want[c] # t
    <3>1. subscription'[t] = subscription[t]
      BY <1>6, <2>5, OpenFacts DEF SubscriptionTypes
    <3>2. Output("Subscribe", want[c]) \notin Updates(t)
      BY <1>4, <2>5, OpenFacts, Kinds
    <3>3. Same(event_out, event_out', Updates(t))
      BY <1>6, <2>1, <3>2, Emitted, OneMessage
    <3>4. Untouched(t)
      BY <1>1, <1>2, <2>3, <3>1, <3>3, OpenFacts
      DEF Untouched, InputStays, Wanted
    <3>5. QED
      BY <3>4, OpenFacts, TrackStays
  <2>6. QED
    BY <2>4, <2>5
<1>7. QED
  BY <1>3, <1>5, <1>6 DEF OnSubscribeRequest

LEMMA SfuUnsubscribeRequest ==
  ASSUME NEW t, Open(t), OnUnsubscribeRequest PROVE SfuTrack(t)'
<1>1. Take("UnsubscribeRequest") /\ InputStays(t)
  BY InputTaken DEF OnUnsubscribeRequest
<1>2. UNCHANGED <<sfuHandle, sub_handle, link, toSfu, fromSfu>>
  BY DEF OnUnsubscribeRequest, sfuVars, netVars
<1>3. PICK u : u = Head(event_in).track
  OBVIOUS
<1>4. u \in Tracks
  BY <1>1, <1>3, OpenFacts, Taken DEF Wellformed
<1>5. CASE UNCHANGED <<subscription, event_out>>
  BY <1>1, <1>2, <1>5, InputOnly
<1>6. CASE /\ subscription[u] = "active"
           /\ EmitAll(<<Output("Unsubscribe", u)>>)
           /\ subscription' = [subscription EXCEPT ![u] = "none"]
  <2>1. <<Output("Unsubscribe", u)>> \in Seq(OutputEvents)
    BY <1>4, Outputs
  <2>2. CASE u = t
    <3>1. ~Wanted(t)'
      BY <1>4, <1>6, <2>2, OpenFacts DEF Wanted, SubscriptionTypes
    <3>2. LastOf(event_out', Updates(t), Unsubscribes(t))
      BY <1>6, <2>1, <2>2, Emitted, OneMessage DEF Unsubscribes
    <3>3. QED
      BY <3>1, <3>2 DEF SfuTrack, Requested, HandleKnown, Latest
  <2>3. CASE u # t
    <3>1. subscription'[t] = subscription[t]
      BY <1>6, <2>3, OpenFacts DEF SubscriptionTypes
    <3>2. /\ Output("Unsubscribe", u) \notin Updates(t)
          /\ Output("Unsubscribe", u) \notin Unsubscribes(t)
      BY <1>4, <2>3, OpenFacts, Kinds DEF Updates
    <3>3. /\ Same(event_out, event_out', Updates(t))
          /\ Same(event_out, event_out', Unsubscribes(t))
      BY <1>6, <2>1, <3>2, Emitted, OneMessage
    <3>4. Untouched(t)
      BY <1>1, <1>2, <3>1, <3>3, OpenFacts DEF Untouched, InputStays, Wanted
    <3>5. QED
      BY <3>4, OpenFacts, TrackStays
  <2>4. QED
    BY <2>2, <2>3
<1>7. QED
  BY <1>3, <1>5, <1>6 DEF OnUnsubscribeRequest, Unsubscribed

LEMMA SfuPublicationUpdates ==
  ASSUME NEW t, Open(t), OnSfuPublicationUpdates PROVE SfuTrack(t)'
<1>1. Take("SfuPublicationUpdates") /\ InputStays(t)
  BY InputTaken DEF OnSfuPublicationUpdates
<1>2. UNCHANGED <<sfuHandle, sub_handle, link, toSfu, fromSfu>>
  BY DEF OnSfuPublicationUpdates, sfuVars, netVars
<1> DEFINE S == Head(event_in).tracks
           new == {u \in S : subscription[u] = "absent"}
           gone == {u \in Tracks \ S : subscription[u] # "absent"}
<1>3. S \in SUBSET Tracks /\ t \in S
  <2>1. /\ Head(event_in) \in InputEvents /\ event_in # <<>>
        /\ Head(event_in).type = "SfuPublicationUpdates"
    BY <1>1, OpenFacts, Taken
  <2>2. 1 \in 1..Len(event_in) /\ Head(event_in) = event_in[1]
    BY <2>1, OpenFacts, TailOne DEF QueueTypes
  <2>3. t \in server /\ server \subseteq S
    BY <2>1, <2>2 DEF Open, OpenInv, NoneOf, Outdated
  <2>4. QED
    BY <2>1, <2>3 DEF InputEvents
<1>4. /\ Wanted(t)' <=> Wanted(t)
      /\ subscription[t] = "active" => subscription'[t] = "active"
  BY <1>3, OpenFacts DEF OnSfuPublicationUpdates, Wanted
<1>5. PICK a \in SetToSeqs(new), b \in SetToSeqs(gone) :
        EmitAll([i \in DOMAIN a |-> Output("TrackPublished", a[i])] \o
                [i \in DOMAIN b |-> Output("TrackUnpublished", b[i])])
  BY DEF OnSfuPublicationUpdates
<1> DEFINE pa == [i \in DOMAIN a |-> Output("TrackPublished", a[i])]
           pb == [i \in DOMAIN b |-> Output("TrackUnpublished", b[i])]
<1>6. pa \in Seq(OutputEvents) /\ pb \in Seq(OutputEvents)
  BY <1>3, OutputsOf
<1>7. /\ \A i \in 1..Len(pa) : pa[i] \notin Updates(t)
      /\ \A i \in 1..Len(pb) : pb[i] \notin Updates(t)
  <2>1. \A u : /\ Output("TrackPublished", u) \notin Updates(t)
               /\ Output("TrackUnpublished", u) \notin Updates(t)
    BY OpenFacts, Kinds DEF Output
  <2>2. /\ 1..Len(pa) = DOMAIN a
        /\ 1..Len(pb) = DOMAIN b
    BY <1>6
  <2>3. QED
    BY <2>1, <2>2
<1>8. \A M \in {Updates(t), Unsubscribes(t)} : Same(event_out, event_out', M)
  <2>1. NoneOf(pa, Updates(t)) /\ NoneOf(pb, Updates(t))
    BY <1>7 DEF NoneOf
  <2>2. \A M \in {Updates(t), Unsubscribes(t)} : NoneOf(pa, M) /\ NoneOf(pb, M)
    BY <2>1 DEF NoneOf, Updates
  <2>3. \A M \in {Updates(t), Unsubscribes(t)} : NoneOf(pa \o pb, M)
    <3>1. ASSUME NEW M, NoneOf(pa, M), NoneOf(pb, M) PROVE NoneOf(pa \o pb, M)
      BY <1>6, <3>1, QueueConcat DEF Same
    <3>2. QED
      BY <2>2, <3>1
  <2>4. pa \o pb \in Seq(OutputEvents)
    BY <1>6
  <2>5. QED
    BY <1>5, <2>3, <2>4, Emitted
<1>9. Untouched(t)
  BY <1>1, <1>2, <1>4, <1>8, OpenFacts DEF Untouched, InputStays
<1>10. QED
  BY <1>9, OpenFacts, TrackStays

LEMMA SfuSubscriberHandles ==
  ASSUME NEW t, Open(t), OnSfuSubscriberHandles PROVE SfuTrack(t)'
<1> DEFINE e == Head(event_in)
<1>1. /\ e \in InputEvents /\ e.track \in Tracks /\ e.handle \in Nat
      /\ e.type = "SfuSubscriberHandles"
      /\ event_in \in Seq(InputEvents)
      /\ event_in # <<>> /\ event_in' = Tail(event_in)
  BY OpenFacts, Taken
  DEF OnSfuSubscriberHandles, Wellformed, InputEvents, QueueTypes
<1>2. UNCHANGED <<sfuHandle, link, toSfu, fromSfu, event_out>>
  BY DEF OnSfuSubscriberHandles, sfuVars, netVars
<1>3. NoneOf(event_in', Resends) => NoneOf(event_in, Resends)
  <2>1. e \notin Resends
    BY <1>1, Kinds
  <2>2. QED
    BY <1>1, <2>1, QueueTail DEF Same
<1>4. /\ Wanted(t)' <=> Wanted(t)
      /\ subscription[t] = "active" => subscription'[t] = "active"
      /\ e.track # t => sub_handle'[t] = sub_handle[t]
      /\ e.track = t /\ Wanted(t) =>
           subscription'[t] = "active" /\ sub_handle'[t] = e.handle
  BY <1>1, OpenFacts
  DEF OnSfuSubscriberHandles, Reassign, Activate, Wanted, SubscriptionTypes
<1>5. CASE e.track # t
  <2>1. e \notin HandlesFor(t)
    BY <1>5 DEF HandlesFor
  <2>2. Same(event_in, event_in', HandlesFor(t))
    BY <1>1, <2>1, QueueTail
  <2>3. Untouched(t)
    BY <1>2, <1>3, <1>4, <1>5, <2>2, OpenFacts DEF Untouched
  <2>4. QED
    BY <2>3, OpenFacts, TrackStays
<1>6. CASE e.track = t
  <2>1. Requested(t)'
    BY <1>2, <1>3, <1>4, OpenFacts DEF SfuTrack, Requested, Latest
  <2>2. e \in HandlesFor(t)
    BY <1>1, <1>6 DEF HandlesFor
  <2>3. ~NoneOf(event_in, HandlesFor(t))
    BY <1>1, <2>2, QueueTail
  <2>4. LastOf(event_in, HandlesFor(t), Carries(t, sfuHandle[t])) =>
          \/ LastOf(event_in', HandlesFor(t), Carries(t, sfuHandle[t]))
          \/ NoneOf(event_in', HandlesFor(t)) /\ e.handle = sfuHandle[t]
    BY <1>1, QueueTail DEF Carries
  <2>5. HandleKnown(t)'
    BY <1>2, <1>4, <1>6, <2>3, <2>4, OpenFacts DEF SfuTrack, HandleKnown
  <2>6. QED
    BY <2>1, <2>5 DEF SfuTrack
<1>7. QED
  BY <1>5, <1>6

LEMMA SfuResend ==
  ASSUME NEW t, Open(t), OnResendSubscriptionUpdates PROVE SfuTrack(t)'
<1>1. UNCHANGED <<subscription, sfuHandle, sub_handle, link, toSfu, fromSfu>>
  BY DEF OnResendSubscriptionUpdates, sfuVars, netVars, mgrVars
<1>2. PICK q \in SetToSeqs(Resubscribed) :
        EmitAll([i \in DOMAIN q |-> Output("Subscribe", q[i])])
  BY DEF OnResendSubscriptionUpdates
<1> DEFINE p == [i \in DOMAIN q |-> Output("Subscribe", q[i])]
<1>3. Resubscribed \in SUBSET Tracks /\ (t \in Resubscribed <=> Wanted(t))
  BY OpenFacts DEF Resubscribed, Wanted
<1>4. /\ p \in Seq(OutputEvents)
      /\ Wanted(t) => LastOf(p, Updates(t), Subscribes(t))
      /\ ~Wanted(t) => NoneOf(p, Updates(t))
      /\ NoneOf(p, Unsubscribes(t))
  BY <1>3, OpenFacts, OutputsOf, OneUpdateEach
<1>5. /\ Same(event_out, event_out', Unsubscribes(t))
      /\ Wanted(t) => LastOf(event_out', Updates(t), Subscribes(t))
      /\ ~Wanted(t) => Same(event_out, event_out', Updates(t))
  BY <1>2, <1>4, Emitted
<1>6. Requested(t)'
  <2>1. Latest(t) \in SUBSET Updates(t)
    BY OpenFacts, Kinds
  <2>2. QED
    BY <1>1, <1>5, <2>1, OpenFacts
    DEF SfuTrack, Requested, Latest, Wanted, Same
<1>7. Same(event_in, event_in', HandlesFor(t))
  <2>1. /\ event_in \in Seq(InputEvents) /\ event_in # <<>>
        /\ event_in' = Tail(event_in)
        /\ Head(event_in).type = "ResendSubscriptionUpdates"
    BY OpenFacts, Taken DEF OnResendSubscriptionUpdates, QueueTypes
  <2>2. Head(event_in) \notin HandlesFor(t)
    BY <2>1, OpenFacts, Kinds
  <2>3. QED
    BY <2>1, <2>2, QueueTail
<1>8. HandleKnown(t)'
  BY <1>1, <1>5, <1>7, OpenFacts, Kinds
  DEF SfuTrack, HandleKnown, Wanted, Same
<1>9. QED
  BY <1>6, <1>8 DEF SfuTrack

\* An event sent to the manager, or lost.
LEMMA Sent ==
  ASSUME NEW t, Open(t), NEW e, TrySend(e)
  PROVE  \/ event_in' = Append(event_in, e)
         \/ /\ event_in' = event_in
            /\ e.type # "PacketReceived" => Loss(e.type, e.track) \in lost'
  BY OpenFacts DEF TrySend

LEMMA SfuRestarted ==
  ASSUME NEW t, Open(t), Restarted PROVE SfuTrack(t)'
<1> DEFINE e == Global("ResendSubscriptionUpdates")
<1>1. UNCHANGED <<subscription, sfuHandle, sub_handle, event_out, toSfu>>
  BY DEF Restarted, mgrVars
<1>2. /\ e \in InputEvents /\ e.type = "ResendSubscriptionUpdates"
      /\ e.track = NoTrack
      /\ event_in \in Seq(InputEvents)
      /\ \/ event_in' = Append(event_in, e)
         \/ event_in' = event_in /\ Loss(e.type, e.track) \in lost'
  <2>1. e \in InputEvents /\ e.type = "ResendSubscriptionUpdates"
    BY Messages DEF Wellformed
  <2>2. e.track = NoTrack
    BY DEF Global, Event
  <2>3. TrySend(e)
    BY DEF Restarted
  <2>4. QED
    BY <2>1, <2>2, <2>3, OpenFacts, Sent DEF QueueTypes
<1>3. ~NoneOf(event_in', Resends) \/ ResendLost'
  <2>1. CASE event_in' = Append(event_in, e)
    <3>1. e \in Resends
      BY <1>2 DEF Resends
    <3>2. LastOf(event_in', Resends, Resends)
      BY <1>2, <2>1, <3>1, QueueAppend
    <3>3. QED
      BY <3>2, LastIsThere
  <2>2. CASE Loss(e.type, e.track) \in lost'
    BY <1>2, <2>2 DEF ResendLost
  <2>3. QED
    BY <1>2, <2>1, <2>2
<1>4. Same(event_in, event_in', HandlesFor(t))
  <2>1. e \notin HandlesFor(t)
    BY <1>2, OpenFacts, Kinds
  <2>2. QED
    BY <1>2, <2>1, QueueAppend, SameQueue
<1>5. Same(fromSfu, fromSfu', HandlesFor(t))
  <2>1. fromSfu = <<>> /\ fromSfu' = <<PublicationUpdates(server)>>
    BY DEF Restarted
  <2>2. PublicationUpdates(server) \notin HandlesFor(t)
    BY DEF PublicationUpdates, Event, HandlesFor
  <2>3. NoneOf(fromSfu, HandlesFor(t)) /\ NoneOf(fromSfu', HandlesFor(t))
    BY <2>1, <2>2 DEF NoneOf
  <2>4. \A L : ~LastOf(fromSfu, HandlesFor(t), L)
    BY <2>1 DEF LastOf
  <2>5. QED
    BY <2>3, <2>4 DEF Same
<1>6. Requested(t)'
  BY <1>1, <1>3, OpenFacts DEF SfuTrack, Requested, Latest, Wanted
<1>7. HandleKnown(t)'
  BY <1>1, <1>4, <1>5, OpenFacts, Kinds DEF SfuTrack, HandleKnown, Wanted, Same
<1>8. QED
  BY <1>6, <1>7 DEF SfuTrack

LEMMA SfuDeliver ==
  ASSUME NEW t, Open(t), Deliver PROVE SfuTrack(t)'
<1> DEFINE e == Head(fromSfu)
           H == HandlesFor(t)
<1>1. UNCHANGED <<subscription, sfuHandle, sub_handle, event_out, toSfu, link>>
  BY DEF Deliver, mgrVars, netVars
<1>2. /\ e \in InputEvents
      /\ fromSfu \in Seq(InputEvents) /\ event_in \in Seq(InputEvents)
      /\ fromSfu # <<>> /\ fromSfu' = Tail(fromSfu)
  BY OpenFacts, TailOne DEF Deliver, QueueTypes
<1>3. \/ event_in' = Append(event_in, e)
      \/ /\ event_in' = event_in
         /\ e.type # "PacketReceived" => Loss(e.type, e.track) \in lost'
  BY Sent DEF Deliver
<1>4. NoneOf(event_in', Resends) => NoneOf(event_in, Resends)
  BY <1>2, <1>3, QueueAppend
<1>5. Requested(t)'
  BY <1>1, <1>4, OpenFacts DEF SfuTrack, Requested, Latest, Wanted
<1>6. CASE e \notin H
  <2>1. Same(event_in, event_in', H) /\ Same(fromSfu, fromSfu', H)
    <3>1. Same(fromSfu, fromSfu', H)
      BY <1>2, <1>6, QueueTail
    <3>2. CASE event_in' = Append(event_in, e)
      <4>1. Same(event_in, event_in', H)
        BY <1>2, <1>6, <3>2, QueueAppend
      <4>2. QED
        BY <3>1, <4>1
    <3>3. CASE event_in' = event_in
      BY <3>1, <3>3, SameQueue
    <3>4. QED
      BY <1>3, <3>2, <3>3
  <2>2. HandleKnown(t)'
    BY <1>1, <2>1, OpenFacts, Kinds DEF SfuTrack, HandleKnown, Wanted, Same
  <2>3. QED
    BY <1>5, <2>2 DEF SfuTrack
<1>7. CASE e \in H /\ event_in' = Append(event_in, e)
  <2>1. ~NoneOf(fromSfu, H)
    BY <1>2, <1>7, QueueTail
  <2>2. ASSUME NEW L, LastOf(fromSfu, H, L)
        PROVE  \/ LastOf(fromSfu', H, L)
               \/ NoneOf(fromSfu', H) /\ LastOf(event_in', H, L)
    BY <1>2, <1>7, <2>2, QueueTail, QueueAppend
  <2>3. HandleKnown(t)'
    BY <1>1, <2>1, <2>2, OpenFacts DEF SfuTrack, HandleKnown, Wanted
  <2>4. QED
    BY <1>5, <2>3 DEF SfuTrack
<1>8. CASE e \in H /\ event_in' = event_in
           /\ (e.type # "PacketReceived" => Loss(e.type, e.track) \in lost')
  <2>1. HandleLost(t)'
    BY <1>8 DEF HandlesFor, HandleLost
  <2>2. QED
    BY <1>5, <2>1 DEF SfuTrack, HandleKnown
<1>9. QED
  BY <1>3, <1>6, <1>7, <1>8

LEMMA SfuForwardOut ==
  ASSUME NEW t, Open(t), ForwardOut PROVE SfuTrack(t)'
<1> DEFINE e == Head(event_out)
<1>1. UNCHANGED <<subscription, sfuHandle, sub_handle, event_in, fromSfu, link>>
  BY DEF ForwardOut, mgrVars, netVars
<1>2. /\ e \in OutputEvents
      /\ event_out \in Seq(OutputEvents) /\ toSfu \in Seq(OutputEvents)
      /\ event_out # <<>> /\ event_out' = Tail(event_out)
  <2>1. /\ event_out \in Seq(OutputEvents) /\ toSfu \in Seq(OutputEvents)
        /\ event_out # <<>> /\ event_out' = Tail(event_out)
    BY OpenFacts DEF ForwardOut, QueueTypes
  <2>2. QED
    BY <2>1, TailOne
<1>3. CASE e.type \in {"TrackPublished", "TrackUnpublished"}
  <2>1. e \notin Updates(t) /\ e \notin Unsubscribes(t)
    BY <1>3, OpenFacts, Kinds
  <2>2. toSfu' = toSfu
    BY <1>3 DEF ForwardOut
  <2>3. \A M \in {Updates(t), Unsubscribes(t)} :
          Same(event_out, event_out', M) /\ Same(toSfu, toSfu', M)
    BY <1>2, <2>1, <2>2, QueueTail, SameQueue
  <2>4. Untouched(t)
    BY <1>1, <2>3, OpenFacts DEF Untouched, Wanted
  <2>5. QED
    BY <2>4, OpenFacts, TrackStays
<1>4. CASE e.type \in {"Subscribe", "Unsubscribe"}
  <2>1. toSfu' = Append(toSfu, e)
    BY <1>4, OpenFacts DEF ForwardOut, Open, SfuTypes
  <2>2. CASE e \notin Updates(t)
    <3>1. e \notin Unsubscribes(t)
      BY <2>2 DEF Updates
    <3>2. \A M \in {Updates(t), Unsubscribes(t)} :
            Same(event_out, event_out', M) /\ Same(toSfu, toSfu', M)
      BY <1>2, <2>1, <2>2, <3>1, QueueTail, QueueAppend
    <3>3. Untouched(t)
      BY <1>1, <3>2, OpenFacts DEF Untouched, Wanted
    <3>4. QED
      BY <3>3, OpenFacts, TrackStays
  <2>3. CASE e \in Updates(t)
    <3>1. Requested(t)'
      <4>1. ~NoneOf(event_out, Updates(t))
        BY <1>2, <2>3, QueueTail
      <4>2. LastOf(event_out, Updates(t), Latest(t)) =>
              \/ LastOf(event_out', Updates(t), Latest(t))
              \/ /\ NoneOf(event_out', Updates(t))
                 /\ LastOf(toSfu', Updates(t), Latest(t))
        BY <1>2, <2>1, QueueTail, QueueAppend
      <4>3. QED
        BY <1>1, <4>1, <4>2, OpenFacts DEF SfuTrack, Requested, Latest, Wanted
    <3>2. NoneOf(toSfu', Unsubscribes(t)) =>
            NoneOf(toSfu, Unsubscribes(t)) /\ e \notin Unsubscribes(t)
      <4>1. e \in Unsubscribes(t) => ~NoneOf(toSfu', Unsubscribes(t))
        BY <1>2, <2>1, QueueAppend, LastIsThere
      <4>2. QED
        BY <1>2, <2>1, <4>1, QueueAppend
    <3>3. e \notin Unsubscribes(t) =>
            Same(event_out, event_out', Unsubscribes(t))
      BY <1>2, QueueTail
    <3>4. HandleKnown(t)'
      BY <1>1, <3>2, <3>3, OpenFacts
      DEF SfuTrack, HandleKnown, Wanted, Same
    <3>5. QED
      BY <3>1, <3>4 DEF SfuTrack
  <2>4. QED
    BY <2>2, <2>3
<1>5. QED
  BY <1>2, <1>3, <1>4 DEF OutputEvents

LEMMA SfuServes ==
  ASSUME NEW t, Open(t), SfuServe PROVE SfuTrack(t)'
<1> DEFINE e == Head(toSfu)
           u == e.track
           H == HandlesFor(t)
<1>1. UNCHANGED <<subscription, sub_handle, event_in, event_out, link>>
  BY DEF SfuServe, mgrVars, netVars
<1>2. /\ e \in OutputEvents /\ u \in Tracks
      /\ e.type \in {"Subscribe", "Unsubscribe"}
      /\ toSfu \in Seq(OutputEvents) /\ fromSfu \in Seq(InputEvents)
      /\ toSfu # <<>> /\ toSfu' = Tail(toSfu)
      /\ sfuHandle \in [Tracks -> Nat]
  <2>1. /\ toSfu \in Seq(OutputEvents) /\ fromSfu \in Seq(InputEvents)
        /\ toSfu # <<>> /\ toSfu' = Tail(toSfu)
        /\ sfuHandle \in [Tracks -> Nat]
        /\ e.type \in {"Subscribe", "Unsubscribe"}
    BY OpenFacts DEF SfuServe, QueueTypes, SfuTypes
  <2>2. e \in OutputEvents
    BY <2>1, TailOne
  <2>3. QED
    BY <2>1, <2>2 DEF OutputEvents
\* The SFU serves the update of some track.
<1>3. \/ /\ e.type = "Subscribe" /\ sfuHandle[u] = 0
         /\ nextHandle \in Nat \ {0}
         /\ sfuHandle' = [sfuHandle EXCEPT ![u] = nextHandle]
         /\ fromSfu' = Append(fromSfu, SubscriberHandle(nextHandle, u))
      \/ /\ e.type = "Subscribe" /\ (u \notin server \/ sfuHandle[u] # 0)
         /\ UNCHANGED <<sfuHandle, fromSfu>>
      \/ /\ e.type = "Unsubscribe"
         /\ sfuHandle' = [sfuHandle EXCEPT ![u] = 0]
         /\ UNCHANGED fromSfu
  <2>1. nextHandle \in Handles => nextHandle \in Nat \ {0}
    BY DEF Handles
  <2>2. QED
    BY <2>1 DEF SfuServe
<1>4. nextHandle \in Nat \ {0} =>
        /\ SubscriberHandle(nextHandle, u) \in InputEvents
        /\ SubscriberHandle(nextHandle, u).type = "SfuSubscriberHandles"
        /\ SubscriberHandle(nextHandle, u).track = u
        /\ SubscriberHandle(nextHandle, u).handle = nextHandle
  <2>1. ASSUME nextHandle \in Nat
        PROVE  SubscriberHandle(nextHandle, u) \in InputEvents
    BY <1>2, <2>1, Messages DEF Wellformed
  <2>2. QED
    BY <2>1 DEF SubscriberHandle, Event
<1>5. CASE u # t
  <2>1. e \notin Updates(t) /\ e \notin Unsubscribes(t)
    BY <1>5 DEF Updates, Subscribes, Unsubscribes, Output
  <2>2. \A M \in {Updates(t), Unsubscribes(t)} : Same(toSfu, toSfu', M)
    BY <1>2, <2>1, QueueTail
  <2>3. sfuHandle'[t] = sfuHandle[t]
    BY <1>2, <1>3, <1>5, OpenFacts
  <2>4. Same(fromSfu, fromSfu', H)
    <3>1. CASE fromSfu' = fromSfu
      BY <3>1, OpenFacts
    <3>2. CASE /\ nextHandle \in Nat \ {0}
               /\ fromSfu' = Append(fromSfu, SubscriberHandle(nextHandle, u))
      <4>1. SubscriberHandle(nextHandle, u) \notin H
        BY <1>4, <1>5, <3>2 DEF HandlesFor
      <4>2. QED
        BY <1>2, <1>4, <3>2, <4>1, QueueAppend
    <3>3. QED
      BY <1>3, <3>1, <3>2
  <2>5. Untouched(t)
    BY <1>1, <2>2, <2>3, <2>4, OpenFacts DEF Untouched, Wanted
  <2>6. QED
    BY <2>5, OpenFacts, TrackStays
<1>6. CASE u = t
  <2>1. \/ e.type = "Subscribe" /\ e \in Subscribes(t) /\ e \notin Unsubscribes(t)
        \/ e.type = "Unsubscribe" /\ e \in Unsubscribes(t)
             /\ e \notin Subscribes(t)
    BY <1>2, <1>6 DEF OutputEvents, Output, Subscribes, Unsubscribes
  <2>2. /\ e.type = "Subscribe" => sfuHandle'[t] # 0
        /\ e.type = "Unsubscribe" => sfuHandle'[t] = 0
    BY <1>2, <1>3, <1>6 DEF Open
  <2>3. ~NoneOf(toSfu, Updates(t))
    BY <1>2, <2>1, QueueTail DEF Updates
  <2>4. LastOf(toSfu, Updates(t), Latest(t)) =>
          \/ LastOf(toSfu', Updates(t), Latest(t))
          \/ NoneOf(toSfu', Updates(t)) /\ e \in Latest(t)
    BY <1>2, QueueTail
  <2>5. Requested(t)'
    <3>1. e \in Latest(t) => (e.type = "Subscribe" <=> Wanted(t))
      BY <2>1 DEF Latest
    <3>2. Latest(t)' = Latest(t) /\ (Wanted(t)' <=> Wanted(t))
      BY <1>1 DEF Latest, Wanted
    <3>3. e \in Latest(t) => (sfuHandle'[t] # 0 <=> Wanted(t))
      BY <1>2, <2>2, <3>1
    <3>4. QED
      BY <1>1, <2>3, <2>4, <3>2, <3>3, OpenFacts DEF SfuTrack, Requested
  <2>6. CASE sfuHandle'[t] = 0
    BY <2>5, <2>6 DEF SfuTrack, HandleKnown
  <2>7. CASE UNCHANGED <<sfuHandle, fromSfu>> /\ e.type = "Subscribe"
    <3>1. Same(toSfu, toSfu', Unsubscribes(t))
      BY <1>2, <2>1, <2>7, QueueTail
    <3>2. HandleKnown(t)'
      BY <1>1, <2>7, <3>1, OpenFacts DEF SfuTrack, HandleKnown, Wanted, Same
    <3>3. QED
      BY <2>5, <3>2 DEF SfuTrack
  <2>8. CASE /\ nextHandle \in Nat \ {0}
             /\ sfuHandle' = [sfuHandle EXCEPT ![u] = nextHandle]
             /\ fromSfu' = Append(fromSfu, SubscriberHandle(nextHandle, u))
    <3>1. sfuHandle'[t] = nextHandle
      BY <1>2, <1>6, <2>8
    <3>2. SubscriberHandle(nextHandle, u) \in Carries(t, nextHandle)
      BY <1>4, <1>6, <2>8 DEF Carries, HandlesFor
    <3>3. LastOf(fromSfu', H, Carries(t, nextHandle))
      BY <1>2, <1>4, <2>8, <3>2, QueueAppend
    <3>4. QED
      BY <2>5, <3>1, <3>3 DEF SfuTrack, HandleKnown
  <2>9. QED
    BY <1>2, <1>3, <1>6, <2>2, <2>6, <2>7, <2>8
<1>7. QED
  BY <1>5, <1>6

LEMMA SfuLinkDown ==
  ASSUME NEW t, Open(t), LinkDown PROVE SfuTrack(t)'
<1>1. UNCHANGED <<subscription, event_out>> /\ toSfu' = <<>>
      /\ sfuHandle'[t] = 0 /\ link' = "down"
  BY OpenFacts DEF LinkDown, mgrVars
<1>2. NoneOf(toSfu', Updates(t))
  BY <1>1 DEF NoneOf
<1>3. QED
  BY <1>1, <1>2, OpenFacts DEF SfuTrack, Requested, HandleKnown, Latest, Wanted

LEMMA SfuRemoteUnpublish ==
  ASSUME NEW t, Open(t), NEW u \in Tracks, RemoteUnpublish(u), u # t
  PROVE  SfuTrack(t)'
<1>1. UNCHANGED <<subscription, sub_handle, event_in, event_out, toSfu, link>>
  BY DEF RemoteUnpublish, mgrVars, netVars
<1>2. sfuHandle'[t] = sfuHandle[t]
  BY OpenFacts DEF RemoteUnpublish, SfuTypes
<1>3. Same(fromSfu, fromSfu', HandlesFor(t))
  <2> DEFINE e == PublicationUpdates(server \ {u})
  <2>1. e \in InputEvents /\ fromSfu \in Seq(InputEvents)
    BY OpenFacts, Messages DEF SfuTypes, QueueTypes, Wellformed
  <2>2. e \notin HandlesFor(t)
    BY DEF PublicationUpdates, Event, HandlesFor
  <2>3. fromSfu' = fromSfu \/ fromSfu' = Append(fromSfu, e)
    BY DEF RemoteUnpublish
  <2>4. QED
    BY <2>1, <2>2, <2>3, QueueAppend, SameQueue
<1>4. Untouched(t)
  BY <1>1, <1>2, <1>3, OpenFacts DEF Untouched, Wanted
<1>5. QED
  BY <1>4, OpenFacts, TrackStays

-----------------------------------------------------------------------------
(***************************************************************************)
(* SfuInv                                                                  *)
(***************************************************************************)

\* A closed room stays closed, and only closing it ends the forwarding; what
\* was unpublished stays so.
LEMMA LinkStep ==
  ASSUME [Next]_vars
  PROVE  /\ link' # "closed" => link # "closed" /\ forwarding' = forwarding
         /\ server' \subseteq server
         /\ lost \subseteq lost'
<1>2. ManagerStep => UNCHANGED <<link, server, forwarding, lost>>
  BY DEF ManagerStep, OnSubscribeRequest, OnUnsubscribeRequest,
     OnSfuPublicationUpdates, OnSfuSubscriberHandles, OnPacketReceived,
     OnResendSubscriptionUpdates, OnShutdown, ShutdownTrack, ShutdownJoined,
     ManagerEnd, sfuVars, netVars
<1>3. RoomStep \/ LinkDown \/ CloseRoom =>
        /\ link' # "closed" => link # "closed" /\ forwarding' = forwarding
        /\ server' = server
        /\ lost \subseteq lost'
  BY DEF RoomStep, ForwardOut, Deliver, Restarted, ForwardStop, LinkDown,
     CloseRoom, TrySend, sfuVars, netVars
<1>4. ASSUME NEW c \in Subscribers, NEW t \in Tracks, Subscribe(c, t)
      PROVE  UNCHANGED <<link, server, forwarding, lost>>
  BY <1>4 DEF Subscribe, sfuVars, netVars
<1>5. ASSUME NEW c \in Subscribers,
             StreamEnds(c) \/ SubscribeTimeout(c) \/ DropStream(c)
      PROVE  UNCHANGED <<link, server, forwarding, lost>>
  BY <1>5 DEF StreamEnds, SubscribeTimeout, DropStream, sfuVars, netVars
<1>6. ASSUME NEW t \in Tracks, TaskStep(t)
      PROVE  UNCHANGED <<link, server, forwarding, lost>>
  BY <1>6 DEF TaskStep, TaskUnpublished, TaskClosed, TaskPacket, TaskEnd,
     sfuVars, netVars
<1>7. ASSUME NEW t \in Tracks, SfuPacket(t) \/ RemoteUnpublish(t)
      PROVE  /\ UNCHANGED <<link, forwarding>>
             /\ server' \subseteq server
             /\ lost \subseteq lost'
  BY <1>7 DEF SfuPacket, RemoteUnpublish, TrySend, sfuVars, netVars
<1>8. SfuServe \/ UNCHANGED vars =>
        UNCHANGED <<link, server, forwarding, lost>>
  BY DEF SfuServe, vars, sfuVars, netVars
<1>9. QED
  BY <1>2, <1>3, <1>4, <1>5, <1>6, <1>7, <1>8, StepCases

LEMMA OutdatedStays ==
  ASSUME server' \subseteq server, NEW q, NoneOf(q, Outdated)
  PROVE  NoneOf(q, Outdated')
  BY DEF NoneOf, Outdated

\* What is queued for the manager.
LEMMA InputsOpen ==
  ASSUME TypeOK, EventsInv, OpenInv, [Next]_vars
  PROVE  /\ NoneOf(event_in', Outdated')
         /\ link' # "closed" => NoneOf(event_in', Shutdowns)
<1>0. /\ event_in \in Seq(InputEvents) /\ fromSfu \in Seq(InputEvents)
      /\ server' \subseteq server
      /\ link' # "closed" => link # "closed"
  BY TypeParts, LinkStep DEF QueueTypes
<1>1. /\ NoneOf(event_in, Outdated)
      /\ link' # "closed" => NoneOf(event_in, Shutdowns)
  BY <1>0 DEF OpenInv
<1> DEFINE Goal == /\ NoneOf(event_in', Outdated')
                   /\ link' # "closed" => NoneOf(event_in', Shutdowns)
<1>2. ASSUME NEW e \in InputEvents, event_in' = Append(event_in, e),
             e \notin Outdated, link' # "closed" => e.type # "Shutdown"
      PROVE  Goal
  <2>1. NoneOf(event_in', Outdated)
    BY <1>0, <1>1, <1>2, QueueAppend DEF Same
  <2>2. link' # "closed" => NoneOf(event_in', Shutdowns)
    BY <1>0, <1>1, <1>2, QueueAppend DEF Same, Shutdowns
  <2>3. QED
    BY <1>0, <2>1, <2>2, OutdatedStays
<1>3. CASE event_in' = event_in
  BY <1>0, <1>1, <1>3, OutdatedStays
<1>4. CASE event_in' = <<>>
  BY <1>4 DEF NoneOf
<1>5. CASE ManagerStep
  <2>1. CASE event_in # <<>> /\ event_in' = Tail(event_in)
    BY <1>0, <1>1, <2>1, QueueTail, OutdatedStays
  <2>2. \A type : Take(type) => event_in # <<>> /\ event_in' = Tail(event_in)
    BY DEF Take
  <2>3. QED
    BY <1>3, <1>4, <1>5, <2>1, <2>2
    DEF ManagerStep, OnSubscribeRequest, OnUnsubscribeRequest,
        OnSfuPublicationUpdates, OnSfuSubscriberHandles, OnPacketReceived,
        OnResendSubscriptionUpdates, OnShutdown, ShutdownTrack,
        ShutdownJoined, ManagerEnd
<1>6. ASSUME NEW e \in InputEvents, TrySend(e),
             e \notin Outdated, link' # "closed" => e.type # "Shutdown"
      PROVE  Goal
  BY <1>2, <1>3, <1>6 DEF TrySend
<1>7. CASE RoomStep
  <2>1. CASE Deliver
    <3>1. fromSfu # <<>> /\ TrySend(Head(fromSfu))
      BY <2>1 DEF Deliver
    <3>2. /\ Head(fromSfu) \in InputEvents
          /\ Head(fromSfu) \notin Outdated
          /\ Head(fromSfu) \notin NotOfSfu
      BY <1>0, <3>1, TailOne, QueueTail DEF OpenInv
    <3>3. QED
      BY <1>6, <3>1, <3>2 DEF NotOfSfu
  <2>2. CASE Restarted \/ ForwardStop
    <3>1. \A type \in {"ResendSubscriptionUpdates", "Shutdown"} :
            /\ Global(type) \in InputEvents /\ Global(type) \notin Outdated
            /\ Global(type).type = type
      BY Messages DEF Wellformed, Outdated
    <3>2. ForwardStop => link' = "closed"
      BY DEF ForwardStop
    <3>3. QED
      BY <1>6, <2>2, <3>1, <3>2 DEF Restarted, ForwardStop
  <2>3. CASE ForwardOut
    BY <1>3, <2>3 DEF ForwardOut
  <2>4. QED
    BY <1>7, <2>1, <2>2, <2>3 DEF RoomStep
<1>8. ASSUME NEW c \in Subscribers, NEW t \in Tracks, Subscribe(c, t)
      PROVE  Goal
  <2>1. /\ SubscribeRequest(c) \in InputEvents
        /\ SubscribeRequest(c).type = "SubscribeRequest"
    BY Messages DEF Wellformed
  <2>2. SubscribeRequest(c) \notin Outdated
    BY <2>1 DEF Outdated
  <2>3. event_in' = event_in \/ event_in' = Append(event_in, SubscribeRequest(c))
    BY <1>8 DEF Subscribe
  <2>4. QED
    BY <1>2, <1>3, <2>1, <2>2, <2>3
<1>9. ASSUME NEW t \in Tracks, TaskStep(t) PROVE Goal
  <2>1. /\ UnsubscribeRequest(t) \in InputEvents
        /\ UnsubscribeRequest(t).type = "UnsubscribeRequest"
    BY Messages DEF Wellformed
  <2>2. UnsubscribeRequest(t) \notin Outdated
    BY <2>1 DEF Outdated
  <2>3. \/ event_in' = event_in
        \/ event_in' = Append(event_in, UnsubscribeRequest(t))
    BY <1>9 DEF TaskStep, TaskUnpublished, TaskClosed, TaskPacket, TaskEnd
  <2>4. QED
    BY <1>2, <1>3, <2>1, <2>2, <2>3
<1>10. ASSUME NEW t \in Tracks, SfuPacket(t) \/ RemoteUnpublish(t) PROVE Goal
  <2>1. sfuHandle[t] \in Nat
    BY TypeParts DEF SfuTypes
  <2>2. /\ PacketReceived(sfuHandle[t]) \in InputEvents
        /\ PacketReceived(sfuHandle[t]).type = "PacketReceived"
    BY <2>1, Messages DEF Wellformed
  <2>3. PacketReceived(sfuHandle[t]) \notin Outdated
    BY <2>2 DEF Outdated
  <2>4. event_in' = event_in \/ TrySend(PacketReceived(sfuHandle[t]))
    BY <1>10 DEF SfuPacket, RemoteUnpublish
  <2>5. QED
    BY <1>3, <1>6, <2>2, <2>3, <2>4
<1>11. ASSUME NEW c \in Subscribers,
              StreamEnds(c) \/ SubscribeTimeout(c) \/ DropStream(c)
       PROVE  Goal
  BY <1>3, <1>11 DEF StreamEnds, SubscribeTimeout, DropStream
<1>12. SfuServe \/ LinkDown \/ CloseRoom \/ UNCHANGED vars =>
         event_in' = event_in
  BY DEF SfuServe, LinkDown, CloseRoom, vars
<1>13. QED
  BY <1>3, <1>5, <1>7, <1>8, <1>9, <1>10, <1>11, <1>12, StepCases

\* What is on its way from the SFU.
LEMMA AnswersOpen ==
  ASSUME TypeOK, EventsInv, OpenInv, [Next]_vars
  PROVE  NoneOf(fromSfu', NotOfSfu) /\ NoneOf(fromSfu', Outdated')
<1>0. /\ fromSfu \in Seq(InputEvents) /\ toSfu \in Seq(OutputEvents)
      /\ SfuTypes
      /\ server' \subseteq server
      /\ NoneOf(fromSfu, NotOfSfu) /\ NoneOf(fromSfu, Outdated)
  BY TypeParts, LinkStep DEF QueueTypes, OpenInv
<1>1. NoneOf(fromSfu, Outdated')
  BY <1>0, OutdatedStays
<1> DEFINE Goal == NoneOf(fromSfu', NotOfSfu) /\ NoneOf(fromSfu', Outdated')
<1>2. ASSUME NEW e \in InputEvents, fromSfu' = Append(fromSfu, e),
             e \notin NotOfSfu, e \notin Outdated'
      PROVE  Goal
  BY <1>0, <1>1, <1>2, QueueAppend DEF Same
<1>3. CASE fromSfu' = fromSfu
  BY <1>0, <1>1, <1>3
<1>4. ASSUME NEW n \in 0..Len(fromSfu), fromSfu' = SubSeq(fromSfu, 1, n)
      PROVE  Goal
  BY <1>0, <1>1, <1>4, ShorterQueue DEF NoneOf
<1>5. \A S \in SUBSET Tracks :
        /\ PublicationUpdates(S) \in InputEvents
        /\ PublicationUpdates(S) \notin NotOfSfu
        /\ server' \subseteq S => PublicationUpdates(S) \notin Outdated'
  <2>1. \A S \in SUBSET Tracks :
          /\ PublicationUpdates(S) \in InputEvents
          /\ PublicationUpdates(S).type = "SfuPublicationUpdates"
          /\ PublicationUpdates(S).tracks = S
    BY Messages DEF Wellformed, PublicationUpdates, Event
  <2>2. QED
    BY <2>1 DEF NotOfSfu, Outdated
<1>6. CASE Deliver
  BY <1>0, <1>1, <1>6, QueueTail DEF Deliver
<1>7. CASE Restarted
  <2>1. fromSfu' = <<PublicationUpdates(server)>> /\ server \in SUBSET Tracks
    BY <1>0, <1>7 DEF Restarted, SfuTypes
  <2>2. QED
    BY <1>0, <1>5, <2>1, OneMessage
<1>8. ASSUME NEW t \in Tracks, RemoteUnpublish(t) PROVE Goal
  <2>1. /\ server' = server \ {t} /\ server \ {t} \in SUBSET Tracks
        /\ \/ fromSfu' = fromSfu
           \/ fromSfu' = Append(fromSfu, PublicationUpdates(server \ {t}))
    BY <1>0, <1>8 DEF RemoteUnpublish, SfuTypes
  <2>2. QED
    BY <1>2, <1>3, <1>5, <2>1
<1>9. CASE SfuServe
  <2>1. toSfu # <<>>
    BY <1>9 DEF SfuServe
  <2>2. Head(toSfu) \in OutputEvents
    BY <1>0, <2>1, TailOne
  <2>3. Head(toSfu).track \in Tracks /\ nextHandle \in Nat
    BY <1>0, <2>2 DEF OutputEvents, SfuTypes
  <2>4. /\ SubscriberHandle(nextHandle, Head(toSfu).track) \in InputEvents
        /\ SubscriberHandle(nextHandle, Head(toSfu).track).type =
             "SfuSubscriberHandles"
    BY <2>3, Messages DEF Wellformed
  <2>5. /\ SubscriberHandle(nextHandle, Head(toSfu).track) \notin NotOfSfu
        /\ SubscriberHandle(nextHandle, Head(toSfu).track) \notin Outdated'
    BY <2>4 DEF NotOfSfu, Outdated
  <2>6. \/ fromSfu' = fromSfu
        \/ fromSfu' =
             Append(fromSfu, SubscriberHandle(nextHandle, Head(toSfu).track))
    BY <1>9 DEF SfuServe
  <2>7. QED
    BY <1>2, <1>3, <2>4, <2>5, <2>6
<1>10. CASE LinkDown
  BY <1>4, <1>10 DEF LinkDown
<1>11. CASE CloseRoom
  <2>1. fromSfu' = <<>>
    BY <1>11 DEF CloseRoom
  <2>2. QED
    BY <2>1 DEF NoneOf
<1>12. ManagerStep \/ ForwardOut \/ ForwardStop \/ UNCHANGED vars =>
         fromSfu' = fromSfu
  BY DEF ManagerStep, OnSubscribeRequest, OnUnsubscribeRequest,
     OnSfuPublicationUpdates, OnSfuSubscriberHandles, OnPacketReceived,
     OnResendSubscriptionUpdates, OnShutdown, ShutdownTrack, ShutdownJoined,
     ManagerEnd, ForwardOut, ForwardStop, vars, sfuVars
<1>13. ASSUME NEW c \in Subscribers, NEW t \in Tracks, Subscribe(c, t)
       PROVE  fromSfu' = fromSfu
  BY <1>13 DEF Subscribe, sfuVars
<1>14. ASSUME NEW t \in Tracks, TaskStep(t) \/ SfuPacket(t)
       PROVE  fromSfu' = fromSfu
  BY <1>14 DEF TaskStep, TaskUnpublished, TaskClosed, TaskPacket, TaskEnd,
     SfuPacket, sfuVars
<1>15. ASSUME NEW c \in Subscribers,
              StreamEnds(c) \/ SubscribeTimeout(c) \/ DropStream(c)
       PROVE  fromSfu' = fromSfu
  BY <1>15 DEF StreamEnds, SubscribeTimeout, DropStream, sfuVars
<1>16. QED
  BY <1>3, <1>6, <1>7, <1>8, <1>9, <1>10, <1>11, <1>12, <1>13, <1>14, <1>15,
     StepCases DEF RoomStep

LEMMA NextOpenInv ==
  ASSUME TypeOK, EventsInv, OpenInv, [Next]_vars
  PROVE  OpenInv'
<1>1. ASSUME link' # "closed"
      PROVE  forwarding' /\ manager' = "running" /\ joining' = NoTrack
  <2>1. /\ forwarding /\ manager = "running" /\ joining = NoTrack
        /\ NoneOf(event_in, Shutdowns)
        /\ forwarding' = forwarding
    BY <1>1, LinkStep DEF OpenInv
  <2>2. ~OnShutdown
    <3>1. ASSUME OnShutdown PROVE FALSE
      <4>1. /\ event_in \in Seq(InputEvents) /\ event_in # <<>>
            /\ Head(event_in) \in InputEvents
            /\ Head(event_in).type = "Shutdown"
        BY <3>1, TypeParts, Taken DEF OnShutdown, QueueTypes
      <4>2. QED
        BY <2>1, <4>1, QueueTail DEF Shutdowns
    <3>2. QED
      BY <3>1
  <2>3. CASE ManagerStep
    BY <2>1, <2>2, <2>3, RemoteTracksAssumption
    DEF ManagerStep, OnSubscribeRequest, OnUnsubscribeRequest,
        OnSfuPublicationUpdates, OnSfuSubscriberHandles, OnPacketReceived,
        OnResendSubscriptionUpdates, ShutdownTrack, ShutdownJoined, ManagerEnd,
        mgrVars
  <2>4. CASE ~ManagerStep
    BY <2>1, <2>4, OtherTypes DEF mgrVars
  <2>5. QED
    BY <2>1, <2>3, <2>4
<1>2. QED
  BY <1>1, InputsOpen, AnswersOpen DEF OpenInv

LEMMA NextSfuTrack ==
  ASSUME NEW t, Open(t), [Next]_vars, link' # "closed", t \in server'
  PROVE  SfuTrack(t)'
<1>0. /\ t \in Tracks /\ TypeOK /\ EventsInv /\ OpenInv /\ SfuTypes
      /\ manager = "running" /\ joining = NoTrack
  BY OpenFacts DEF Open
<1>1. CASE ManagerStep
  <2>1. CASE OnPacketReceived
    <3>1. UNCHANGED <<subscription, sfuHandle, sub_handle, link, event_out,
                      toSfu, fromSfu>>
      BY <2>1 DEF OnPacketReceived, mgrVars, sfuVars, netVars
    <3>2. InputStays(t)
      BY <2>1, InputTaken DEF OnPacketReceived
    <3>3. QED
      BY <3>1, <3>2, InputOnly
  <2>2. ~OnShutdown /\ ~ShutdownJoined /\ ~ManagerEnd
        /\ \A u \in Tracks : ~ShutdownTrack(u)
    <3>1. OpenInv' /\ manager' = "running"
      BY <1>0, NextOpenInv DEF OpenInv
    <3>2. QED
      BY <1>0, <3>1, RemoteTracksAssumption
      DEF OnShutdown, ShutdownTrack, ShutdownJoined, ManagerEnd
  <2>3. QED
    BY <1>1, <2>1, <2>2, SfuSubscribeRequest, SfuUnsubscribeRequest,
       SfuPublicationUpdates, SfuSubscriberHandles, SfuResend
    DEF ManagerStep
<1>2. CASE RoomStep
  <2>1. ~ForwardStop
    BY DEF ForwardStop, Open
  <2>2. QED
    BY <1>2, <2>1, SfuForwardOut, SfuDeliver, SfuRestarted DEF RoomStep
<1>3. CASE SfuServe \/ LinkDown
  BY <1>3, SfuServes, SfuLinkDown
<1>4. ASSUME NEW u \in Tracks, RemoteUnpublish(u) PROVE SfuTrack(t)'
  <2>1. u # t
    BY <1>4 DEF RemoteUnpublish
  <2>2. QED
    BY <1>4, <2>1, SfuRemoteUnpublish
<1>5. ~CloseRoom
  BY DEF CloseRoom
<1> DEFINE Others == UNCHANGED <<subscription, sfuHandle, sub_handle, link,
                                 event_out, toSfu, fromSfu>>
<1>6. CASE event_in' = event_in /\ Others
  BY <1>6, OpenFacts, InputOnly DEF InputStays
<1>7. ASSUME NEW c \in Subscribers, NEW u \in Tracks, Subscribe(c, u)
      PROVE  SfuTrack(t)'
  <2>1. /\ SubscribeRequest(c) \in InputEvents
        /\ SubscribeRequest(c).type # "SfuSubscriberHandles"
    BY Messages DEF Wellformed
  <2>2. \/ event_in' = event_in
        \/ event_in' = Append(event_in, SubscribeRequest(c))
    BY <1>7 DEF Subscribe
  <2>3. Others
    BY <1>7 DEF Subscribe, mgrVars, sfuVars, netVars
  <2>4. QED
    BY <2>1, <2>2, <2>3, InputAppended, InputOnly
<1>8. ASSUME NEW u \in Tracks, TaskStep(u) PROVE SfuTrack(t)'
  <2>1. /\ UnsubscribeRequest(u) \in InputEvents
        /\ UnsubscribeRequest(u).type # "SfuSubscriberHandles"
    BY Messages DEF Wellformed
  <2>2. \/ event_in' = event_in
        \/ event_in' = Append(event_in, UnsubscribeRequest(u))
    BY <1>8 DEF TaskStep, TaskUnpublished, TaskClosed, TaskPacket, TaskEnd
  <2>3. Others
    BY <1>8 DEF TaskStep, TaskUnpublished, TaskClosed, TaskPacket, TaskEnd,
       mgrVars, sfuVars, netVars
  <2>4. QED
    BY <2>1, <2>2, <2>3, InputAppended, InputOnly
<1>9. ASSUME NEW u \in Tracks, SfuPacket(u) PROVE SfuTrack(t)'
  <2>1. /\ PacketReceived(sfuHandle[u]) \in InputEvents
        /\ PacketReceived(sfuHandle[u]).type # "SfuSubscriberHandles"
    BY <1>0, Messages DEF Wellformed, SfuTypes
  <2>2. \/ event_in' = event_in
        \/ event_in' = Append(event_in, PacketReceived(sfuHandle[u]))
    BY <1>9, Sent DEF SfuPacket
  <2>3. Others
    BY <1>9 DEF SfuPacket, mgrVars, sfuVars, netVars
  <2>4. QED
    BY <2>1, <2>2, <2>3, InputAppended, InputOnly
<1>10. ASSUME NEW c \in Subscribers,
              StreamEnds(c) \/ SubscribeTimeout(c) \/ DropStream(c)
       PROVE  SfuTrack(t)'
  BY <1>6, <1>10
  DEF StreamEnds, SubscribeTimeout, DropStream, mgrVars, sfuVars, netVars
<1>11. CASE UNCHANGED vars
  BY <1>6, <1>11 DEF vars, mgrVars, sfuVars, netVars
<1>12. QED
  BY <1>0, <1>1, <1>2, <1>3, <1>4, <1>5, <1>7, <1>8, <1>9, <1>10, <1>11,
     StepCases

LEMMA InitSfuInv == Init => SfuInv
<1>1. SUFFICES ASSUME Init PROVE SfuInv
  OBVIOUS
<1>2. /\ event_in = <<>> /\ event_out = <<>> /\ toSfu = <<>>
      /\ fromSfu = <<PublicationUpdates(Tracks)>>
      /\ server = Tracks /\ forwarding /\ manager = "running"
      /\ joining = NoTrack
      /\ \A t \in Tracks : sfuHandle[t] = 0 /\ subscription[t] = "absent"
  BY <1>1 DEF Init
<1>3. /\ PublicationUpdates(Tracks).type = "SfuPublicationUpdates"
      /\ PublicationUpdates(Tracks).tracks = Tracks
  BY DEF PublicationUpdates, Event
<1>4. /\ \A M : NoneOf(event_in, M) /\ NoneOf(event_out, M) /\ NoneOf(toSfu, M)
      /\ NoneOf(fromSfu, NotOfSfu) /\ NoneOf(fromSfu, Outdated)
  BY <1>2, <1>3 DEF NoneOf, NotOfSfu, Outdated
<1>5. \A t \in server : SfuTrack(t)
  BY <1>2, <1>4 DEF SfuTrack, Requested, HandleKnown, Wanted
<1>6. QED
  BY <1>2, <1>4, <1>5 DEF SfuInv, OpenInv

\* Once things are quiet the SFU holds a subscription exactly for the tracks
\* that have one here, with the handle known here, for any number of tracks,
\* subscribers and restarts: no update of a subscription is overtaken by
\* another, and no handle of an older subscription outlives the newer one.  Of
\* what the full queue of the manager loses, only the event that asks to resend
\* the subscriptions can leave the SFU without one, and only a handle of the
\* track can leave the manager without its handle.
THEOREM SfuHasSubscriptions == Spec => []SfuAgrees
<1>1. TypeOK /\ EventsInv /\ SfuInv /\ [Next]_vars => SfuInv'
  <2>1. SUFFICES ASSUME TypeOK, EventsInv, SfuInv, [Next]_vars PROVE SfuInv'
    OBVIOUS
  <2>2. OpenInv'
    BY <2>1, NextOpenInv DEF SfuInv
  <2>3. ASSUME link' # "closed", NEW t \in server'
        PROVE  SfuTrack(t)'
    <3>1. link # "closed" /\ t \in server /\ lost \subseteq lost'
      BY <2>1, <2>3, LinkStep
    <3>2. t \in Tracks
      BY <2>1, <3>1, TypeParts DEF SfuTypes
    <3>3. Open(t)
      BY <2>1, <2>3, <3>1, <3>2 DEF Open, SfuInv
    <3>4. QED
      BY <2>1, <2>3, <3>3, NextSfuTrack
  <2>4. QED
    BY <2>2, <2>3 DEF SfuInv
<1>2. SfuInv => SfuAgrees
  <2>1. SUFFICES ASSUME SfuInv, Quiet, NEW t \in server
                 PROVE  /\ sfuHandle[t] # 0 => Wanted(t)
                        /\ Wanted(t) =>
                             \/ sfuHandle[t] = 0 /\ ResendLost
                             \/ /\ sfuHandle[t] # 0
                                /\ \/ sub_handle[t] = sfuHandle[t]
                                   \/ HandleLost(t)
    BY DEF SfuAgrees, Wanted, ResendLost, HandleLost
  <2>2. /\ event_in = <<>> /\ event_out = <<>>
        /\ toSfu = <<>> /\ fromSfu = <<>> /\ link = "up"
    BY <2>1 DEF Quiet
  <2>3. \A M : /\ NoneOf(event_in, M) /\ NoneOf(event_out, M)
               /\ NoneOf(toSfu, M) /\ NoneOf(fromSfu, M)
    BY <2>2 DEF NoneOf
  <2>4. \A M, L : /\ ~LastOf(event_in, M, L) /\ ~LastOf(event_out, M, L)
                  /\ ~LastOf(toSfu, M, L) /\ ~LastOf(fromSfu, M, L)
    BY <2>2 DEF LastOf
  <2>5. SfuTrack(t)
    BY <2>1, <2>2 DEF SfuInv
  <2>6. QED
    BY <2>2, <2>3, <2>4, <2>5 DEF SfuTrack, Requested, HandleKnown
<1>3. QED
  BY <1>1, <1>2, InitSfuInv, SpecMessages, PTL DEF Spec
=============================================================================
