----------------------------- MODULE LocalTracks -----------------------------
(***************************************************************************)
(* Data tracks published by the local participant:                         *)
(* livekit-datatrack/src/local/manager.rs and mod.rs, with the part of     *)
(* livekit/src/room/mod.rs that carries their events.                      *)
(*                                                                         *)
(* Manager is an actor: it reads event_in, a bounded channel, and writes   *)
(* event_out, another one, waiting while that is full.  Every published    *)
(* track has a TrackTask that watches the publish state of the track and   *)
(* turns frames into packets.  The room forwards event_out to the SFU and  *)
(* the answers of the SFU to event_in.                                     *)
(*                                                                         *)
(* Data abstraction: a track is named by the call of publish_track that    *)
(* asked for it, and its handle by the track.  A channel is the sequence   *)
(* of its messages followed by those of the senders that wait for room in  *)
(* it: what lies beyond position EventBufferCount is a waiting sender.     *)
(***************************************************************************)
EXTENDS Naturals, Sequences, FiniteSets

CONSTANTS
  Tracks,       \* the calls of publish_track
  NoTrack,      \* no track at all
  EventBufferCount, \* EVENT_BUFFER_COUNT
  HandleLimit,  \* how many handles the allocator has
  MaxPushes,    \* frames pushed in all
  MaxRestarts,  \* restarts of the session
  SfuMayRefuse, \* whether the SFU may refuse or end a publication
  MayTimeOut,   \* whether publish_track may wait for PUBLISH_TIMEOUT
  MayCloseRoom  \* whether the room may be closed

ASSUME LocalTracksAssumption ==
  /\ NoTrack \notin Tracks
  /\ EventBufferCount \in Nat \ {0}
  /\ HandleLimit \in Nat
  /\ MaxPushes \in Nat
  /\ MaxRestarts \in Nat
  /\ SfuMayRefuse \in BOOLEAN
  /\ MayTimeOut \in BOOLEAN
  /\ MayCloseRoom \in BOOLEAN

VARIABLES
  event_in,    \* Manager.event_in_rx and the senders waiting for it
  event_out,   \* Manager.event_out_tx, the manager waiting for it included
  descriptors, \* Manager.descriptors: "none", "pending" or "active"
  allocated,   \* HandleAllocator.value
  manager,     \* "running", "republishing", "closing" or "ended"
  todo,        \* descriptors the loop of the manager has still to visit
  joining,     \* the track whose task shutdown() waits for
  state,       \* the watch channel of a track: its PublishState
  task,        \* TrackTask: "none", "running", "ending" or "done"
  seen,        \* the local `state` of TrackTask::run
  frame_rx,    \* frames in the frame channel of a track
  result,      \* the oneshot of Descriptor::Pending
  forwarder,   \* forward_publish_result: "none", "waiting" or "done"
  user,        \* what the caller of publish_track has
  forwarding,  \* local_dt_forward_task has not ended
  link,        \* "up", "down" while reconnecting, or "closed"
  toSfu,       \* requests on their way to the SFU
  fromSfu,     \* answers on their way to the room
  sfu,         \* tracks the SFU has as published
  pushed,      \* frames pushed so far
  restarts,    \* restarts so far
  lost         \* history: events that found event_in full

mgrVars == <<descriptors, allocated, manager, todo, joining>>
trackVars == <<state, task, seen, frame_rx>>
userVars == <<result, forwarder, user>>
netVars == <<forwarding, link, toSfu, fromSfu, sfu>>
countVars == <<pushed, restarts>>
localTracksVars == <<event_in, event_out, mgrVars, trackVars, userVars,
                     netVars, countVars, lost>>

Event(type, c) == [type |-> type, track |-> c]
Global(type) == Event(type, NoTrack)

\* ManagerInput::send and the other try_sends: an event that finds the
\* channel full is lost.
TrySend(e) ==
  \/ /\ Len(event_in) < EventBufferCount
     /\ manager # "ended"
     /\ event_in' = Append(event_in, e)
     /\ UNCHANGED lost
  \/ /\ Len(event_in) >= EventBufferCount \/ manager = "ended"
     /\ lost' = lost \cup {e}
     /\ UNCHANGED event_in

\* event_out_tx.send(): the message is queued, or the manager waits with it;
\* when the receiver is gone it is dropped.
Emit(e) == event_out' = IF forwarding THEN Append(event_out, e) ELSE event_out

\* watch::Sender::send: nothing happens when the receiver is gone.
SetState(c, s) ==
  state' = IF task[c] = "done" THEN state ELSE [state EXCEPT ![c] = s]

-----------------------------------------------------------------------------
(***************************************************************************)
(* The application and forward_publish_result                              *)
(***************************************************************************)

\* publish_track up to its await.
PublishTrack(c) ==
  /\ user[c] = "idle"
  /\ \/ /\ Len(event_in) < EventBufferCount
        /\ manager # "ended"
        /\ event_in' = Append(event_in, Event("PublishRequest", c))
        /\ user' = [user EXCEPT ![c] = "asking"]
     \/ /\ Len(event_in) >= EventBufferCount \/ manager = "ended"
        /\ user' = [user EXCEPT ![c] = "failed"]
        /\ UNCHANGED event_in
  /\ UNCHANGED <<event_out, mgrVars, trackVars, result, forwarder, netVars,
                 countVars, lost>>

\* PUBLISH_TIMEOUT: the receiver of the result is dropped.
PublishTimeout(c) ==
  /\ MayTimeOut
  /\ user[c] = "asking"
  /\ user' = [user EXCEPT ![c] = "timedout"]
  /\ UNCHANGED <<event_in, event_out, mgrVars, trackVars, result, forwarder,
                 netVars, countVars, lost>>

\* forward_publish_result, first branch: a track that nobody waits for any
\* longer is dropped, which unpublishes it.
ForwardResult(c) ==
  /\ forwarder[c] = "waiting"
  /\ result[c] # "none"
  /\ forwarder' = [forwarder EXCEPT ![c] = "done"]
  /\ \/ /\ user[c] = "asking"
        /\ user' = [user EXCEPT ![c] = IF result[c] = "track"
                                       THEN "holding" ELSE "failed"]
        /\ UNCHANGED state
     \/ /\ user[c] # "asking"
        /\ \/ result[c] = "track" /\ SetState(c, "Unpublished")
           \/ result[c] # "track" /\ UNCHANGED state
        /\ UNCHANGED user
  /\ UNCHANGED <<event_in, event_out, mgrVars, task, seen, frame_rx, result,
                 netVars, countVars, lost>>

\* forward_publish_result, second branch: the caller has gone.
ForwardCancel(c) ==
  /\ forwarder[c] = "waiting"
  /\ result[c] = "none"
  /\ user[c] # "asking"
  /\ forwarder' = [forwarder EXCEPT ![c] = "done"]
  /\ TrySend(Event("PublishCancelled", c))
  /\ UNCHANGED <<event_out, mgrVars, trackVars, result, user, netVars,
                 countVars>>

\* LocalDataTrack::unpublish, or the last handle to the track is dropped.
Unpublish(c) ==
  /\ user[c] = "holding"
  /\ user' = [user EXCEPT ![c] = "released"]
  /\ SetState(c, "Unpublished")
  /\ UNCHANGED <<event_in, event_out, mgrVars, task, seen, frame_rx, result,
                 forwarder, netVars, countVars, lost>>

\* LocalDataTrack::try_push that accepts the frame.
TryPush(c) ==
  /\ user[c] = "holding"
  /\ pushed < MaxPushes
  /\ state[c] = "Published"
  /\ task[c] # "done"
  /\ pushed' = pushed + 1
  /\ frame_rx' = [frame_rx EXCEPT ![c] = @ + 1]
  /\ UNCHANGED <<event_in, event_out, mgrVars, state, task, seen, userVars,
                 netVars, restarts, lost>>

-----------------------------------------------------------------------------
(***************************************************************************)
(* TrackTask::run                                                          *)
(***************************************************************************)

\* state_rx.changed(); out of the loop, the request to unpublish is sent or
\* waits for room.
TaskObserve(c) ==
  /\ task[c] = "running"
  /\ state[c] # seen[c]
  /\ seen' = [seen EXCEPT ![c] = state[c]]
  /\ \/ /\ state[c] = "Unpublished"
        /\ task' = [task EXCEPT ![c] = "ending"]
        /\ event_in' = IF manager = "ended" THEN event_in
                       ELSE Append(event_in, Event("UnpublishRequest", c))
     \/ /\ state[c] # "Unpublished"
        /\ UNCHANGED <<task, event_in>>
  /\ UNCHANGED <<event_out, mgrVars, state, frame_rx, userVars, netVars,
                 countVars, lost>>

\* A frame: dropped while republishing, else process_and_send, whose packets
\* are dropped when event_out is full.
TaskFrame(c) ==
  /\ task[c] = "running"
  /\ frame_rx[c] > 0
  /\ frame_rx' = [frame_rx EXCEPT ![c] = @ - 1]
  /\ \/ /\ seen[c] # "Republishing"
        /\ Len(event_out) < EventBufferCount
        /\ Emit(Event("PacketsAvailable", c))
     \/ /\ seen[c] = "Republishing" \/ Len(event_out) >= EventBufferCount
        /\ UNCHANGED event_out
  /\ UNCHANGED <<event_in, mgrVars, state, task, seen, userVars, netVars,
                 countVars, lost>>

\* The request of c still waits for room in event_in.
Waits(c) ==
  \E i \in 1..Len(event_in) :
    i > EventBufferCount /\ event_in[i] = Event("UnpublishRequest", c)

\* The task returns, and with it the receiver of the state.
TaskEnd(c) ==
  /\ task[c] = "ending"
  /\ ~Waits(c)
  /\ task' = [task EXCEPT ![c] = "done"]
  /\ UNCHANGED <<event_in, event_out, mgrVars, state, seen, frame_rx, userVars,
                 netVars, countVars, lost>>

-----------------------------------------------------------------------------
(***************************************************************************)
(* Manager::run: one handler per input event                               *)
(***************************************************************************)

\* The manager takes event e of track c.
Take(type, c) ==
  /\ manager = "running"
  /\ Len(event_out) <= EventBufferCount
  /\ event_in # <<>>
  /\ Head(event_in) = Event(type, c)
  /\ event_in' = Tail(event_in)

OnPublishRequest(c) ==
  /\ Take("PublishRequest", c)
  /\ \/ /\ allocated >= HandleLimit
        /\ user' = [user EXCEPT ![c] = IF @ = "asking" THEN "failed" ELSE @]
        /\ UNCHANGED <<event_out, descriptors, allocated, forwarder>>
     \/ /\ allocated < HandleLimit
        /\ allocated' = allocated + 1
        /\ descriptors' = [descriptors EXCEPT ![c] = "pending"]
        /\ forwarder' = [forwarder EXCEPT ![c] = "waiting"]
        /\ Emit(Event("SfuPublishRequest", c))
        /\ UNCHANGED user
  /\ UNCHANGED <<manager, todo, joining, trackVars, result, netVars,
                 countVars, lost>>

OnPublishCancelled(c) ==
  /\ Take("PublishCancelled", c)
  /\ descriptors' = [descriptors EXCEPT ![c] = "none"]
  /\ UNCHANGED <<event_out, allocated, manager, todo, joining, trackVars,
                 userVars, netVars, countVars, lost>>

\* An active track becomes unpublished, a pending one is forgotten.
RemoveDescriptor(c) ==
  /\ descriptors' = [descriptors EXCEPT ![c] = "none"]
  /\ \/ descriptors[c] = "active" /\ SetState(c, "Unpublished")
     \/ descriptors[c] # "active" /\ UNCHANGED state

OnUnpublishRequest(c) ==
  /\ Take("UnpublishRequest", c)
  /\ RemoveDescriptor(c)
  /\ Emit(Event("SfuUnpublishRequest", c))
  /\ UNCHANGED <<allocated, manager, todo, joining, task, seen, frame_rx,
                 userVars, netVars, countVars, lost>>

OnSfuUnpublishResponse(c) ==
  /\ Take("SfuUnpublishResponse", c)
  /\ RemoveDescriptor(c)
  /\ UNCHANGED <<event_out, allocated, manager, todo, joining, task, seen,
                 frame_rx, userVars, netVars, countVars, lost>>

\* create_local_track and the insertion of its descriptor.
CreateLocalTrack(c) ==
  /\ descriptors' = [descriptors EXCEPT ![c] = "active"]
  /\ state' = [state EXCEPT ![c] = "Published"]
  /\ seen' = [seen EXCEPT ![c] = "Published"]
  /\ task' = [task EXCEPT ![c] = "running"]

\* A broken variant of UnknownPublished: the answer is ignored.
UnknownPublishedIgnored(c) ==
  /\ descriptors[c] = "none"
  /\ UNCHANGED <<event_out, descriptors, trackVars, result>>

\* An answer for a publication that was cancelled before: the SFU is told.
UnknownPublished(c) ==
  /\ descriptors[c] = "none"
  /\ Emit(Event("SfuUnpublishRequest", c))
  /\ UNCHANGED <<descriptors, trackVars, result>>

\* The answer to a first request.  When forward_publish_result has ended
\* meanwhile, the descriptor is gone and nothing else happens.
PendingPublished(c, ok) ==
  /\ descriptors[c] = "pending"
  /\ \/ /\ forwarder[c] = "done"
        /\ descriptors' = [descriptors EXCEPT ![c] = "none"]
        /\ UNCHANGED <<state, task, seen, result>>
     \/ /\ forwarder[c] = "waiting"
        /\ result' = [result EXCEPT ![c] = IF ok THEN "track" ELSE "error"]
        /\ \/ ok /\ CreateLocalTrack(c)
           \/ /\ ~ok
              /\ descriptors' = [descriptors EXCEPT ![c] = "none"]
              /\ UNCHANGED <<state, task, seen>>
  /\ UNCHANGED <<event_out, frame_rx>>

\* A broken variant of ActivePublished: the result is not looked at.
ActivePublishedAnyway(c, ok) ==
  /\ descriptors[c] = "active"
  /\ SetState(c, "Published")
  /\ UNCHANGED <<event_out, descriptors, task, seen, frame_rx, result>>

\* The answer to a republication: the track is published again.  A track that
\* is not being republished and one whose republication failed lose their
\* descriptor, and nothing else.
ActivePublished(c, ok) ==
  /\ descriptors[c] = "active"
  /\ \/ /\ state[c] = "Republishing" /\ ok
        /\ SetState(c, "Published")
        /\ UNCHANGED descriptors
     \/ /\ state[c] # "Republishing" \/ ~ok
        /\ descriptors' = [descriptors EXCEPT ![c] = "none"]
        /\ UNCHANGED state
  /\ UNCHANGED <<event_out, task, seen, frame_rx, result>>

OnSfuPublishResponse(c, ok) ==
  /\ Take(IF ok THEN "SfuPublished" ELSE "SfuRefused", c)
  /\ \/ UnknownPublished(c)
     \/ PendingPublished(c, ok)
     \/ ActivePublished(c, ok)
  /\ UNCHANGED <<allocated, manager, todo, joining, forwarder, user, netVars,
                 countVars, lost>>

\* on_republish_tracks: the loop over the descriptors it has taken.
OnRepublishTracks ==
  /\ Take("RepublishTracks", NoTrack)
  /\ manager' = "republishing"
  /\ todo' = {c \in Tracks : descriptors[c] # "none"}
  /\ UNCHANGED <<event_out, descriptors, allocated, joining, trackVars,
                 userVars, netVars, countVars, lost>>

\* A pending publication is not repeated, it fails.
RepublishPending(c) ==
  /\ descriptors[c] = "pending"
  /\ descriptors' = [descriptors EXCEPT ![c] = "none"]
  /\ result' = [result EXCEPT ![c] = IF forwarder[c] = "waiting"
                                     THEN "error" ELSE @]
  /\ UNCHANGED <<state, event_out>>

\* An active one is marked and requested again, whatever its state is.
RepublishActive(c) ==
  /\ descriptors[c] = "active"
  /\ SetState(c, "Republishing")
  /\ Emit(Event("SfuPublishRequest", c))
  /\ UNCHANGED <<descriptors, result>>

RepublishTrack(c) ==
  /\ manager = "republishing"
  /\ Len(event_out) <= EventBufferCount
  /\ c \in todo
  /\ todo' = todo \ {c}
  /\ RepublishPending(c) \/ RepublishActive(c)
  /\ UNCHANGED <<event_in, allocated, manager, joining, task, seen, frame_rx,
                 forwarder, user, netVars, countVars, lost>>

RepublishDone ==
  /\ manager = "republishing"
  /\ todo = {}
  /\ Len(event_out) <= EventBufferCount
  /\ manager' = "running"
  /\ UNCHANGED <<event_in, event_out, descriptors, allocated, todo, joining,
                 trackVars, userVars, netVars, countVars, lost>>

\* Shutdown: the loop of run() ends; event_in is no longer read.
OnShutdown ==
  /\ Take("Shutdown", NoTrack)
  /\ manager' = "closing"
  /\ todo' = {c \in Tracks : descriptors[c] # "none"}
  /\ UNCHANGED <<event_out, descriptors, allocated, joining, trackVars,
                 userVars, netVars, countVars, lost>>

\* A broken variant of ShutdownActive: the task is not told.
ShutdownActiveSilently(c) ==
  /\ descriptors[c] = "active"
  /\ joining' = c
  /\ UNCHANGED <<state, result>>

\* shutdown(): an active track is unpublished and its task awaited.
ShutdownActive(c) ==
  /\ descriptors[c] = "active"
  /\ SetState(c, "Unpublished")
  /\ joining' = c
  /\ UNCHANGED result

\* A pending publication fails.
ShutdownPending(c) ==
  /\ descriptors[c] = "pending"
  /\ result' = [result EXCEPT ![c] = IF forwarder[c] = "waiting"
                                     THEN "error" ELSE @]
  /\ UNCHANGED <<joining, state>>

ShutdownTrack(c) ==
  /\ manager = "closing"
  /\ joining = NoTrack
  /\ c \in todo
  /\ todo' = todo \ {c}
  /\ ShutdownPending(c) \/ ShutdownActive(c)
  /\ UNCHANGED <<event_in, event_out, descriptors, allocated, manager, task,
                 seen, frame_rx, forwarder, user, netVars, countVars, lost>>

ShutdownJoined ==
  /\ joining \in Tracks
  /\ task[joining] = "done"
  /\ joining' = NoTrack
  /\ UNCHANGED <<event_in, event_out, descriptors, allocated, manager, todo,
                 trackVars, userVars, netVars, countVars, lost>>

\* The manager is dropped, and the requests in event_in with it.
ManagerEnd ==
  /\ manager = "closing"
  /\ todo = {}
  /\ joining = NoTrack
  /\ manager' = "ended"
  /\ event_in' = <<>>
  /\ user' = [c \in Tracks |->
       IF user[c] = "asking" /\ forwarder[c] = "none" THEN "failed" ELSE user[c]]
  /\ UNCHANGED <<event_out, descriptors, allocated, todo, joining, trackVars,
                 result, forwarder, netVars, countVars, lost>>

-----------------------------------------------------------------------------
(***************************************************************************)
(* The room and the SFU                                                    *)
(***************************************************************************)

\* local_dt_forward_task: the engine waits for a reconnection under way;
\* once it is closed the event is dropped.  Packets leave the model here.
ForwardOut ==
  /\ forwarding
  /\ link # "down"
  /\ event_out # <<>>
  /\ event_out' = Tail(event_out)
  /\ toSfu' = IF link = "up" /\ Head(event_out).type # "PacketsAvailable"
              THEN Append(toSfu, Head(event_out)) ELSE toSfu
  /\ UNCHANGED <<event_in, mgrVars, trackVars, userVars, forwarding, link,
                 fromSfu, sfu, countVars, lost>>

\* The SFU serves the requests in order, and answers each.
SfuServe ==
  /\ toSfu # <<>>
  /\ toSfu' = Tail(toSfu)
  /\ LET c == Head(toSfu).track
     IN \/ /\ Head(toSfu).type = "SfuPublishRequest"
           /\ c \notin sfu
           /\ sfu' = sfu \cup {c}
           /\ fromSfu' = Append(fromSfu, Event("SfuPublished", c))
        \/ /\ Head(toSfu).type = "SfuPublishRequest"
           /\ c \in sfu \/ SfuMayRefuse
           /\ fromSfu' = Append(fromSfu, Event("SfuRefused", c))
           /\ UNCHANGED sfu
        \/ /\ Head(toSfu).type = "SfuUnpublishRequest"
           /\ sfu' = sfu \ {c}
           /\ fromSfu' = IF c \in sfu
                         THEN Append(fromSfu, Event("SfuUnpublishResponse", c))
                         ELSE fromSfu
  /\ UNCHANGED <<event_in, event_out, mgrVars, trackVars, userVars,
                 forwarding, link, countVars, lost>>

\* The SFU ends a publication on its own.
SfuUnpublish(c) ==
  /\ SfuMayRefuse
  /\ link = "up"
  /\ c \in sfu
  /\ sfu' = sfu \ {c}
  /\ fromSfu' = Append(fromSfu, Event("SfuUnpublishResponse", c))
  /\ UNCHANGED <<event_in, event_out, mgrVars, trackVars, userVars,
                 forwarding, link, toSfu, countVars, lost>>

\* EngineEvent::LocalDataTrackInput.
Deliver ==
  /\ fromSfu # <<>>
  /\ fromSfu' = Tail(fromSfu)
  /\ TrySend(Head(fromSfu))
  /\ UNCHANGED <<event_out, mgrVars, trackVars, userVars, forwarding, link,
                 toSfu, sfu, countVars>>

\* The session is lost: the SFU forgets the participant, requests on the way
\* are lost, and answers that the engine has not yet read.
LinkDown ==
  /\ link = "up"
  /\ restarts < MaxRestarts
  /\ restarts' = restarts + 1
  /\ link' = "down"
  /\ sfu' = {}
  /\ toSfu' = <<>>
  /\ \E n \in 0..Len(fromSfu) : fromSfu' = SubSeq(fromSfu, 1, n)
  /\ UNCHANGED <<event_in, event_out, mgrVars, trackVars, userVars,
                 forwarding, pushed, lost>>

\* handle_restarted, after the events that came before it.
Restarted ==
  /\ link = "down"
  /\ fromSfu = <<>>
  /\ link' = "up"
  /\ TrySend(Global("RepublishTracks"))
  /\ UNCHANGED <<event_out, mgrVars, trackVars, userVars, forwarding, toSfu,
                 fromSfu, sfu, countVars>>

\* RoomSession::close up to close_tx.send: the engine is closed.
CloseRoom ==
  /\ MayCloseRoom
  /\ link # "closed"
  /\ link' = "closed"
  /\ sfu' = {}
  /\ toSfu' = <<>>
  /\ fromSfu' = <<>>
  /\ UNCHANGED <<event_in, event_out, mgrVars, trackVars, userVars,
                 forwarding, countVars, lost>>

\* local_dt_forward_task receives from close_rx.
ForwardStop ==
  /\ link = "closed"
  /\ forwarding
  /\ forwarding' = FALSE
  /\ event_out' = <<>>
  /\ TrySend(Global("Shutdown"))
  /\ UNCHANGED <<mgrVars, trackVars, userVars, link, toSfu, fromSfu, sfu,
                 countVars>>

-----------------------------------------------------------------------------
LocalTracksInit ==
  /\ event_in = <<>>
  /\ event_out = <<>>
  /\ descriptors = [c \in Tracks |-> "none"]
  /\ allocated = 0
  /\ manager = "running"
  /\ todo = {}
  /\ joining = NoTrack
  /\ state = [c \in Tracks |-> "none"]
  /\ task = [c \in Tracks |-> "none"]
  /\ seen = [c \in Tracks |-> "none"]
  /\ frame_rx = [c \in Tracks |-> 0]
  /\ result = [c \in Tracks |-> "none"]
  /\ forwarder = [c \in Tracks |-> "none"]
  /\ user = [c \in Tracks |-> "idle"]
  /\ forwarding = TRUE
  /\ link = "up"
  /\ toSfu = <<>>
  /\ fromSfu = <<>>
  /\ sfu = {}
  /\ pushed = 0
  /\ restarts = 0
  /\ lost = {}

TaskStep(c) == TaskObserve(c) \/ TaskFrame(c) \/ TaskEnd(c)

ForwarderStep(c) == ForwardResult(c) \/ ForwardCancel(c)

ManagerStep ==
  \/ \E c \in Tracks :
       \/ OnPublishRequest(c)
       \/ OnPublishCancelled(c)
       \/ OnUnpublishRequest(c)
       \/ OnSfuUnpublishResponse(c)
       \/ \E ok \in BOOLEAN : OnSfuPublishResponse(c, ok)
       \/ RepublishTrack(c)
       \/ ShutdownTrack(c)
  \/ OnRepublishTracks
  \/ RepublishDone
  \/ OnShutdown
  \/ ShutdownJoined
  \/ ManagerEnd

RoomStep == ForwardOut \/ Deliver \/ Restarted \/ ForwardStop

\* What the tasks of this client, the network and the SFU do by themselves.
Progress ==
  \/ ManagerStep
  \/ RoomStep
  \/ SfuServe
  \/ \E c \in Tracks : TaskStep(c) \/ ForwarderStep(c)

LocalTracksNext ==
  \/ Progress
  \/ \E c \in Tracks :
       PublishTrack(c) \/ PublishTimeout(c) \/ Unpublish(c) \/ TryPush(c)
       \/ SfuUnpublish(c)
  \/ LinkDown
  \/ CloseRoom

LocalTracksSpec == LocalTracksInit /\ [][LocalTracksNext]_localTracksVars

\* Woken tasks are polled, the SFU answers, a reconnection ends: the system
\* does not stop while one of its own steps is possible.
LocalTracksFairness == WF_localTracksVars(Progress)

LocalTracksFairSpec == LocalTracksSpec /\ LocalTracksFairness

-----------------------------------------------------------------------------
(***************************************************************************)
(* Properties                                                              *)
(***************************************************************************)
InputTypes == {"PublishRequest", "PublishCancelled", "UnpublishRequest",
               "SfuPublished", "SfuRefused", "SfuUnpublishResponse"}
OutputTypes == {"SfuPublishRequest", "SfuUnpublishRequest", "PacketsAvailable"}
InputEvents == [type : InputTypes, track : Tracks]
               \cup {Global("RepublishTracks"), Global("Shutdown")}
OutputEvents == [type : OutputTypes, track : Tracks]
PublishStates == {"none", "Published", "Republishing", "Unpublished"}

LocalTracksTypeOK ==
  /\ event_in \in Seq(InputEvents)
  /\ event_out \in Seq(OutputEvents)
  /\ descriptors \in [Tracks -> {"none", "pending", "active"}]
  /\ allocated \in Nat
  /\ manager \in {"running", "republishing", "closing", "ended"}
  /\ todo \subseteq Tracks
  /\ joining \in Tracks \cup {NoTrack}
  /\ state \in [Tracks -> PublishStates]
  /\ task \in [Tracks -> {"none", "running", "ending", "done"}]
  /\ seen \in [Tracks -> PublishStates]
  /\ frame_rx \in [Tracks -> Nat]
  /\ result \in [Tracks -> {"none", "track", "error"}]
  /\ forwarder \in [Tracks -> {"none", "waiting", "done"}]
  /\ user \in [Tracks -> {"idle", "asking", "timedout", "holding", "released",
                          "failed"}]
  /\ forwarding \in BOOLEAN
  /\ link \in {"up", "down", "closed"}
  /\ toSfu \in Seq(OutputEvents)
  /\ fromSfu \in Seq(InputEvents)
  /\ sfu \subseteq Tracks
  /\ pushed \in Nat
  /\ restarts \in Nat
  /\ lost \subseteq InputEvents

\* Everything on its way has arrived and nobody is about to move.
Quiet ==
  /\ link = "up"
  /\ manager = "running"
  /\ \A q \in {event_in, event_out, toSfu, fromSfu} : q = <<>>
  /\ \A c \in Tracks :
       /\ user[c] # "asking"
       /\ forwarder[c] # "waiting"
       /\ task[c] \in {"none", "done"} \/ (task[c] = "running" /\ seen[c] = state[c])

\* Once things are quiet, a track the SFU has as published is served by a
\* running task: never by one that has ended, and by none at all only when the
\* caller gave up or the answer was lost on a full channel.
\* on_sfu_publish_response tells the SFU when it finds no descriptor, but not
\* when it finds one whose caller has gone.
NoOrphan ==
  Quiet => \A c \in sfu :
    \/ task[c] = "running"
    \/ /\ task[c] = "none"
       /\ user[c] = "timedout" \/ Event("SfuPublished", c) \in lost

\* Once things are quiet, a track that its owner may push frames to is
\* published at the SFU, unless an event was lost on a full channel or the
\* manager has forgotten the track (see ActivePublished).
PublishedIsServed ==
  Quiet => \A c \in Tracks :
    user[c] = "holding" /\ state[c] = "Published" =>
      c \in sfu \/ descriptors[c] = "none" \/ lost # {}

\* A manager that has begun to shut down ends, unless event_in, which it no
\* longer reads, has no room left for the last request of a track task.
ShutdownEnds ==
  manager = "closing" ~>
    (manager = "ended" \/ Len(event_in) > EventBufferCount)
=============================================================================
