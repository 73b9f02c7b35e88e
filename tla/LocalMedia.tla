------------------------------ MODULE LocalMedia ------------------------------
(***************************************************************************)
(* Publication of local media tracks, and their republication after the    *)
(* engine restarted: LocalParticipant::publish_track and unpublish_track   *)
(* (livekit/src/room/participant/local_participant.rs), the add_track,     *)
(* create_sender and remove_track of RtcEngine and RtcSession they call    *)
(* (livekit/src/rtc_engine/mod.rs and rtc_session.rs), and handle_restarted*)
(* (livekit/src/room/mod.rs).                                              *)
(*                                                                         *)
(* The engine's calls hold a read lock of reconnecting_lock while they use *)
(* the session; a reconnection holds the write lock, which tokio grants in *)
(* order of request.  Of module Engine this one keeps that lock, the       *)
(* session in use and what the room does when the cycle ends.              *)
(*                                                                         *)
(* Data abstraction: a publication is its TrackSid, a number in the order  *)
(* the server gave them out; a transceiver is the publication it was made  *)
(* for; a negotiation is one step (module Negotiation models it).          *)
(***************************************************************************)
EXTENDS Naturals, Sequences

CONSTANTS
  Tracks,      \* local tracks; a track is also its own cid
  MaxSessions, \* bound on the sessions, and so on the restarts
  MaxEvents,   \* bound on the lost connections and the publish_track calls of
               \* the application, together
  FaultSets    \* the sets of faults that a behaviour may allow

ASSUME LocalMediaAssumption ==
  /\ MaxSessions \in Nat \ {0}
  /\ MaxEvents \in Nat
  /\ FaultSets \subseteq SUBSET {"late answer", "cancel", "failure"}

\* A call is made for a track by the application or by the task that
\* republishes the tracks in the nth session.
App == 0
Batches == 2..MaxSessions
Callers == Tracks \X ({App} \cup Batches)
Nobody == <<>>
NoSid == 0

VARIABLES
  conn,        \* the state of the connection and of reconnecting_lock
  session,     \* the RtcSession in use
  losses,      \* connections lost so far
  pending,     \* RtcSession.pending_tracks: which call awaits the answer
  senders,     \* transceivers of its peer connection that send
  negotiate,   \* publisher_negotiation_needed was called
  toServer,    \* AddTrack requests on their way
  fromServer,  \* TrackPublished answers on their way
  named,       \* the track of each publication the server ever added
  added,       \* the server's publications of this session
  streaming,   \* those of them with a media section
  table,       \* LocalParticipant.track_publications
  detached,    \* publications whose track was set to None
  transceiver, \* LocalTrack.transceiver
  call,        \* where each call is
  owns,        \* tracks the application published and did not unpublish
  calls,       \* publish_track calls of the application so far
  room,        \* where handle_restarted is
  room_state,  \* RoomInfo.state
  batch,       \* where each republishing task is
  snapshot,    \* the published_tracks it has still to go through
  faults,      \* the faults this behaviour allows
  straddled,   \* history: publications that the server added in one session
               \* and publish_track in a later one
  raced,       \* history: tracks that the application unpublished, or another
               \* restart found published, before a republishing task
               \* was done with them
  unanswered   \* history: tracks of this session with a call that ended
               \* before its answer came

engineVars == <<conn, session, losses>>
sessionVars == <<pending, senders, negotiate>>
serverVars == <<toServer, fromServer, named, added, streaming>>
objectVars == <<table, detached, transceiver>>
appVars == <<owns, calls>>
roomVars == <<room, room_state, batch, snapshot>>
historyVars == <<straddled, raced, unanswered>>
vars == <<engineVars, sessionVars, serverVars, objectVars, call, appVars,
          roomVars, faults, historyVars>>

\* A call at a place of its code, with the publication it works on.
Working(place, sid) == [at |-> place, sid |-> sid, session |-> 0]
Idle == Working("idle", NoSid)

At(c, place) == call[c].at = place
Goto(c, place) == call' = [call EXCEPT ![c].at = place]
Return(c) == call' = [call EXCEPT ![c] = Idle]

\* wait_reconnection: a read lock is granted while no writer holds the lock or
\* has asked for it.
MayRead == conn \in {"up", "broken"}

Alive == conn \in {"up", "restarted"}

\* Who holds a read lock between two steps.
Readers == {c \in Callers : At(c, "answer")}

\* A republishing task has yet to take its turn for a track, or is at it.
ToRepublish(t) ==
  \E n \in Batches : \/ \E s \in snapshot[n] : named[s] = t
                     \/ At(<<t, n>>, "unpublish")
Republishing(t) == \E n \in Batches : ~At(<<t, n>>, "idle")

-----------------------------------------------------------------------------
(***************************************************************************)
(* publish_track                                                           *)
(***************************************************************************)

\* The application publishes a track it has not published.
PublishTrack(t) ==
  /\ t \notin owns
  /\ At(<<t, App>>, "idle")
  /\ calls + losses < MaxEvents
  /\ calls' = calls + 1
  /\ Goto(<<t, App>>, "add_track")
  /\ UNCHANGED <<engineVars, sessionVars, serverVars, objectVars, owns,
                 roomVars, faults, historyVars>>

\* RtcSession::add_track up to the wait for the answer: "track already
\* published", or the request is sent, and lost if the connection is dead.
AddTrack(c) ==
  LET t == c[1]
  IN /\ At(c, "add_track")
     /\ MayRead
     /\ \/ /\ pending[t] # Nobody
           /\ Return(c)
           /\ UNCHANGED <<pending, toServer>>
        \/ /\ pending[t] = Nobody
           /\ pending' = [pending EXCEPT ![t] = c]
           /\ toServer' = IF Alive THEN Append(toServer, t) ELSE toServer
           /\ Goto(c, "answer")
     /\ UNCHANGED <<engineVars, senders, negotiate, fromServer, named, added,
                    streaming, objectVars, appVars, roomVars, faults,
                    historyVars>>

\* A call of add_track ends without its answer.
GiveUp(c) == unanswered' = unanswered \cup {c[1]}

\* The answer to the call may still come.
Awaited(c) ==
  /\ pending[c[1]] = c
  /\ \/ \E i \in 1..Len(toServer) : toServer[i] = c[1]
     \/ \E i \in 1..Len(fromServer) : named[fromServer[i]] = c[1]

\* pending_tracks.remove(cid)
Forget(t) == pending' = [pending EXCEPT ![t] = Nobody]

\* A broken variant of TrackTimeout: add_track waits for ever.
TrackTimeoutNever(c) == FALSE

\* TRACK_PUBLISH_TIMEOUT: before the answer, or because none will come.
TrackTimeout(c) ==
  /\ At(c, "answer")
  /\ "late answer" \in faults \/ ~Awaited(c)
  /\ Forget(c[1])
  /\ GiveUp(c)
  /\ Return(c)
  /\ UNCHANGED <<engineVars, senders, negotiate, serverVars, objectVars,
                 appVars, roomVars, faults, straddled, raced>>

\* RtcEngine::create_sender in the latest session.
CreateSender(c) ==
  /\ At(c, "create_sender")
  /\ MayRead
  /\ \/ /\ senders' = senders \cup {call[c].sid}
        /\ Goto(c, "add_publication")
     \/ /\ "failure" \in faults
        /\ Return(c)
        /\ UNCHANGED senders
  /\ UNCHANGED <<engineVars, pending, negotiate, serverVars, objectVars,
                 appVars, roomVars, faults, historyVars>>

\* The rest of publish_track, without the lock.
AddPublication(c) ==
  LET sid == call[c].sid
      t == c[1]
  IN /\ At(c, "add_publication")
     /\ transceiver' = [transceiver EXCEPT ![t] = sid]
     /\ negotiate' = TRUE
     /\ table' = table \cup {sid}
     /\ owns' = IF c[2] = App THEN owns \cup {t} ELSE owns
     /\ straddled' = IF call[c].session = session THEN straddled
                                                  ELSE straddled \cup {sid}
     /\ Return(c)
     /\ UNCHANGED <<engineVars, pending, senders, serverVars, detached, calls,
                    roomVars, faults, raced, unanswered>>

\* wait_reconnection returns "engine is closed".
EngineClosed(c) ==
  /\ conn = "closed"
  /\ At(c, "add_track") \/ At(c, "create_sender")
  /\ Return(c)
  /\ UNCHANGED <<engineVars, sessionVars, serverVars, objectVars, appVars,
                 roomVars, faults, historyVars>>

\* The future is dropped at an await: by the application, or with the JoinSet
\* of a republishing task that panicked.
Cancel(c) ==
  /\ IF c[2] = App THEN "cancel" \in faults ELSE batch[c[2]] = "panicked"
  /\ \/ /\ At(c, "answer")
        /\ GiveUp(c)
     \/ /\ \E p \in {"unpublish", "add_track", "create_sender"} : At(c, p)
        /\ UNCHANGED unanswered
  /\ Return(c)
  /\ UNCHANGED <<engineVars, sessionVars, serverVars, objectVars, appVars,
                 roomVars, faults, straddled, raced>>

-----------------------------------------------------------------------------
(***************************************************************************)
(* unpublish_track, which does not wait for a reconnection                 *)
(***************************************************************************)

\* remove_publication, or "track not found".
RemovePublication(sid) ==
  /\ sid \in table
  /\ table' = table \ {sid}

\* The application unpublishes what it published.
UnpublishTrack(t) ==
  LET c == <<t, App>>
  IN /\ t \in owns
     /\ At(c, "idle")
     /\ \E sid \in table :
          /\ named[sid] = t
          /\ RemovePublication(sid)
          /\ call' = [call EXCEPT ![c] = Working("remove_track", sid)]
     /\ owns' = owns \ {t}
     /\ raced' = IF ToRepublish(t) THEN raced \cup {t} ELSE raced
     /\ UNCHANGED <<engineVars, sessionVars, serverVars, detached, transceiver,
                    calls, roomVars, faults, straddled, unanswered>>

\* A broken variant of Republish: the track is published once more.
RepublishTwice(c) ==
  /\ At(c, "unpublish")
  /\ Goto(c, "add_track")
  /\ UNCHANGED <<engineVars, sessionVars, serverVars, objectVars, appVars,
                 roomVars, faults, historyVars>>

\* The task of handle_restarted unpublishes; an error is ignored.
Republish(c) ==
  /\ At(c, "unpublish")
  /\ \/ /\ RemovePublication(call[c].sid)
        /\ Goto(c, "remove_track")
     \/ /\ call[c].sid \notin table
        /\ Goto(c, "add_track")
        /\ UNCHANGED table
  /\ UNCHANGED <<engineVars, sessionVars, serverVars, detached, transceiver,
                 appVars, roomVars, faults, historyVars>>

\* Where a caller goes on after unpublish_track.
Unpublished(c) == IF c[2] = App THEN Return(c) ELSE Goto(c, "add_track")

\* A broken variant of RemoveSender: the transceiver goes on sending.
RemoveSenderNot(t) == UNCHANGED senders

\* peer_connection.remove_track
RemoveSender(t) == senders' = senders \ {transceiver[t]}

\* The rest of unpublish_track: RtcEngine::remove_track with the session in
\* use.  A sender of an older session may be an error, which is returned.
\* unwrap() of a transceiver that is None panics.
RemoveTrack(c) ==
  LET t == c[1]
  IN /\ At(c, "remove_track")
     /\ \/ /\ transceiver[t] = NoSid
           /\ Return(c)
           /\ UNCHANGED <<sessionVars, detached, transceiver>>
        \/ /\ transceiver[t] # NoSid
           /\ Forget(t)
           /\ RemoveSender(t)
           /\ \/ /\ transceiver' = [transceiver EXCEPT ![t] = NoSid]
                 /\ detached' = detached \cup {call[c].sid}
                 /\ negotiate' = TRUE
              \/ /\ transceiver[t] \notin senders
                 /\ "failure" \in faults
                 /\ UNCHANGED <<transceiver, detached, negotiate>>
           /\ Unpublished(c)
     /\ UNCHANGED <<engineVars, serverVars, table, appVars, roomVars, faults,
                    historyVars>>

-----------------------------------------------------------------------------
(***************************************************************************)
(* The server and the signal task                                          *)
(***************************************************************************)
ServerAddsTrack ==
  /\ Alive
  /\ toServer # <<>>
  /\ toServer' = Tail(toServer)
  /\ named' = Append(named, Head(toServer))
  /\ added' = added \cup {Len(named')}
  /\ fromServer' = Append(fromServer, Len(named'))
  /\ UNCHANGED <<engineVars, sessionVars, streaming, objectVars, call, appVars,
                 roomVars, faults, historyVars>>

\* on_signal_event, TrackPublished: the call that waits for this cid goes on,
\* whichever of its calls the server answers.
OnTrackPublished ==
  LET sid == Head(fromServer)
      c == pending[named[sid]]
  IN /\ fromServer # <<>>
     /\ fromServer' = Tail(fromServer)
     /\ Forget(named[sid])
     /\ call' = IF c # Nobody /\ At(c, "answer")
                THEN [call EXCEPT ![c] = [at |-> "create_sender", sid |-> sid,
                                          session |-> session]]
                ELSE call
     /\ UNCHANGED <<engineVars, senders, negotiate, toServer, named, added,
                    streaming, objectVars, appVars, roomVars, faults,
                    historyVars>>

\* The publication the server gives the media section of a track to.
Latest(t) == {s \in added : /\ named[s] = t
                            /\ \A u \in added : named[u] = t => u <= s}

\* An offer and its answer: publications whose section stopped are removed.
Negotiate ==
  /\ negotiate
  /\ conn = "up"
  /\ negotiate' = FALSE
  /\ streaming' = UNION {Latest(named[x]) : x \in senders}
  /\ added' = added \ (streaming \ streaming')
  /\ UNCHANGED <<engineVars, pending, senders, toServer, fromServer, named,
                 objectVars, call, appVars, roomVars, faults, historyVars>>

-----------------------------------------------------------------------------
(***************************************************************************)
(* The engine and the room                                                 *)
(***************************************************************************)

\* The connection is lost, with what is on its way to the server and maybe
\* what is on its way back.
LoseConnection ==
  /\ conn = "up"
  /\ calls + losses < MaxEvents
  /\ losses' = losses + 1
  /\ conn' = "broken"
  /\ toServer' = <<>>
  /\ fromServer' \in {fromServer, <<>>}
  /\ UNCHANGED <<session, sessionVars, named, added, streaming, objectVars,
                 call, appVars, roomVars, faults, historyVars>>

\* reconnection_needed: the spawned task asks for the write lock.
ReconnectionNeeded ==
  /\ conn = "broken"
  /\ conn' = "queued"
  /\ UNCHANGED <<session, losses, sessionVars, serverVars, objectVars, call,
                 appVars, roomVars, faults, historyVars>>

\* The lock is granted; the room hears Resuming or Restarting.
ReconnectTask ==
  /\ conn = "queued"
  /\ Readers = {}
  /\ conn' = "held"
  /\ room_state' = "Reconnecting"
  /\ UNCHANGED <<session, losses, sessionVars, serverVars, objectVars, call,
                 appVars, room, batch, snapshot, faults, historyVars>>

\* try_resume_connection succeeds, and handle_resumed.
Resume ==
  /\ conn = "held"
  /\ conn' = "up"
  /\ room_state' = "Connected"
  /\ UNCHANGED <<session, losses, sessionVars, serverVars, objectVars, call,
                 appVars, room, batch, snapshot, faults, historyVars>>

\* try_restart_connection succeeds: a new session, to which the server knows
\* no publication.  handle_restarted first acknowledges.
Restart ==
  /\ conn = "held"
  /\ room = "idle"
  /\ session < MaxSessions
  /\ session' = session + 1
  /\ conn' = "restarted"
  /\ pending' = [t \in Tracks |-> Nobody]
  /\ senders' = {}
  /\ toServer' = <<>>
  /\ fromServer' = <<>>
  /\ added' = {}
  /\ streaming' = {}
  /\ unanswered' = {}
  /\ room' = "acknowledged"
  /\ UNCHANGED <<losses, negotiate, named, objectVars, call, appVars,
                 room_state, batch, snapshot, faults, straddled, raced>>

\* The reconnection task ends and drops the lock.
ReleaseLock ==
  /\ conn = "restarted"
  /\ conn' = "up"
  /\ UNCHANGED <<session, losses, sessionVars, serverVars, objectVars, call,
                 appVars, roomVars, faults, historyVars>>

\* The reconnection failed: the engine is closed and the room disconnected.
EngineClose ==
  /\ conn = "held"
  /\ "failure" \in faults
  /\ conn' = "closed"
  /\ room_state' = "Disconnected"
  /\ UNCHANGED <<session, losses, sessionVars, serverVars, objectVars, call,
                 appVars, room, batch, snapshot, faults, historyVars>>

\* The rest of handle_restarted: published_tracks are read, a task is spawned.
HandleRestarted ==
  /\ room = "acknowledged"
  /\ room' = "idle"
  /\ batch' = [batch EXCEPT ![session] = "running"]
  /\ snapshot' = [snapshot EXCEPT ![session] = table]
  /\ raced' = raced \cup {named[s] : s \in {s \in table :
                 ToRepublish(named[s]) \/ Republishing(named[s])}}
  /\ UNCHANGED <<engineVars, sessionVars, serverVars, objectVars, call,
                 appVars, room_state, faults, straddled, unanswered>>

\* That task spawns one for each track, and panics at a publication whose
\* track is None.
SpawnRepublish(n) ==
  /\ batch[n] = "running"
  /\ \E sid \in snapshot[n] :
       LET c == <<named[sid], n>>
       IN /\ At(c, "idle")
          /\ \/ /\ sid \in detached
                /\ batch' = [batch EXCEPT ![n] = "panicked"]
                /\ snapshot' = [snapshot EXCEPT ![n] = {}]
                /\ UNCHANGED call
             \/ /\ sid \notin detached
                /\ call' = [call EXCEPT ![c] = Working("unpublish", sid)]
                /\ snapshot' = [snapshot EXCEPT ![n] = @ \ {sid}]
                /\ UNCHANGED batch
  /\ UNCHANGED <<engineVars, sessionVars, serverVars, objectVars, appVars,
                 room, room_state, faults, historyVars>>

\* A broken variant of AllRepublished: nobody is waited for.
AllSpawned(n) == snapshot[n] = {}

\* join_next() has returned every task.
AllRepublished(n) ==
  snapshot[n] = {} /\ \A t \in Tracks : At(<<t, n>>, "idle")

\* Then the room is reported Connected, and Reconnected is dispatched.
Reconnected(n) ==
  /\ batch[n] = "running"
  /\ AllRepublished(n)
  /\ batch' = [batch EXCEPT ![n] = "done"]
  /\ room_state' = "Connected"
  /\ UNCHANGED <<engineVars, sessionVars, serverVars, objectVars, call,
                 appVars, room, snapshot, faults, historyVars>>

-----------------------------------------------------------------------------
Init ==
  /\ conn = "up"
  /\ session = 1
  /\ losses = 0
  /\ pending = [t \in Tracks |-> Nobody]
  /\ senders = {}
  /\ negotiate = FALSE
  /\ toServer = <<>>
  /\ fromServer = <<>>
  /\ named = <<>>
  /\ added = {}
  /\ streaming = {}
  /\ table = {}
  /\ detached = {}
  /\ transceiver = [t \in Tracks |-> NoSid]
  /\ call = [c \in Callers |-> Idle]
  /\ owns = {}
  /\ calls = 0
  /\ room = "idle"
  /\ room_state = "Connected"
  /\ batch = [n \in Batches |-> "none"]
  /\ snapshot = [n \in Batches |-> {}]
  /\ faults \in FaultSets
  /\ straddled = {}
  /\ raced = {}
  /\ unanswered = {}

CallStep(c) ==
  \/ AddTrack(c)
  \/ TrackTimeout(c)
  \/ CreateSender(c)
  \/ AddPublication(c)
  \/ EngineClosed(c)
  \/ Republish(c)
  \/ RemoveTrack(c)

EngineStep ==
  \/ ReconnectionNeeded
  \/ ReconnectTask
  \/ Resume
  \/ Restart
  \/ ReleaseLock
  \/ EngineClose

RoomStep ==
  \/ HandleRestarted
  \/ \E n \in Batches : SpawnRepublish(n) \/ Reconnected(n)

Progress ==
  \/ \E c \in Callers : CallStep(c)
  \/ ServerAddsTrack
  \/ OnTrackPublished
  \/ Negotiate
  \/ EngineStep
  \/ RoomStep

Next ==
  \/ Progress
  \/ \E t \in Tracks : PublishTrack(t) \/ UnpublishTrack(t)
  \/ \E c \in Callers : Cancel(c)
  \/ LoseConnection

Spec == Init /\ [][Next]_vars

\* Tasks are polled, timers fire, the server answers and a reconnection comes
\* to an end.  Calls, losses and restarts are finite in number, so that one
\* condition for all of these steps is as strong as one for each.
Fairness == WF_vars(Progress)

FairSpec == Spec /\ Fairness

-----------------------------------------------------------------------------
(***************************************************************************)
(* Properties                                                              *)
(***************************************************************************)
TypeOK ==
  /\ conn \in {"up", "broken", "queued", "held", "restarted", "closed"}
  /\ session \in 1..MaxSessions
  /\ losses \in 0..MaxEvents
  /\ named \in Seq(Tracks)
  /\ \A S \in {senders, added, streaming, table, detached, straddled} :
       S \subseteq 1..Len(named)
  /\ toServer \in Seq(Tracks)
  /\ fromServer \in Seq(1..Len(named))
  /\ transceiver \in [Tracks -> {NoSid} \cup 1..Len(named)]
  /\ pending \in [Tracks -> {Nobody} \cup Callers]
  /\ call \in [Callers ->
                 [at : {"idle", "add_track", "answer", "create_sender",
                        "add_publication", "unpublish", "remove_track"},
                  sid : {NoSid} \cup 1..Len(named),
                  session : 0..MaxSessions]]
  /\ \A S \in {owns, raced, unanswered} : S \subseteq Tracks
  /\ room \in {"idle", "acknowledged"}
  /\ room_state \in {"Connected", "Reconnecting", "Disconnected"}
  /\ batch \in [Batches -> {"none", "running", "done", "panicked"}]
  /\ snapshot \in [Batches -> SUBSET (1..Len(named))]
  /\ negotiate \in BOOLEAN
  /\ calls \in 0..MaxEvents
  /\ faults \in FaultSets

\* Whoever takes a publication from the table finds the transceiver of its
\* track, which it unwraps, unless the track was raced for.
TransceiverInPlace ==
  /\ \A s \in table :
       named[s] \in raced \/ (s \notin detached /\ transceiver[named[s]] = s)
  /\ \A c \in Callers :
       At(c, "remove_track") => c[1] \in raced \/ transceiver[c[1]] # NoSid

Panicked == \E n \in Batches : batch[n] = "panicked"

\* An entry of pending_tracks, which keeps its track from being published, has
\* a call that waits for the answer.  (A dropped call leaves its entry behind.)
PendingIsAwaited ==
  "cancel" \notin faults /\ ~Panicked =>
    \A t \in Tracks : pending[t] = Nobody \/ At(pending[t], "answer")

\* Nothing is under way.
Settled ==
  /\ conn = "up"
  /\ ~negotiate
  /\ toServer = <<>> /\ fromServer = <<>>
  /\ room = "idle"
  /\ \A c \in Callers : At(c, "idle")
  /\ \A n \in Batches : batch[n] # "running"

\* The publications the room has and those the server forwards are the same
\* when nothing is under way, whatever was published, unpublished, lost and
\* restarted in between, but for these: the engine restarted in the middle
\* of publish_track, which does not look again; a task was
\* about to republish what the application unpublished or the next restart
\* republishes too; a call ended before its answer.
ServerAgrees ==
  Settled => \A s \in 1..Len(named) :
    \/ s \in table <=> s \in streaming
    \/ s \in straddled
    \/ named[s] \in raced \cup unanswered
    \/ Panicked

\* When Reconnected is dispatched after a restart, the tracks that were
\* published are published in the new session, if this was the only connection
\* lost, no call failed and the application left them alone (of straddled ones
\* the server does not know).
TracksRestored ==
  [][\A n \in Batches :
       batch[n] = "running" /\ batch'[n] = "done" /\ losses = 1 /\ faults = {}
       => \A t \in owns \ raced :
            \E s \in table \cap (added \cup straddled) : named[s] = t]_vars

\* The room does not stay Reconnecting, unless the republishing task panicked.
ReconnectingEnds ==
  room_state = "Reconnecting" ~> (room_state # "Reconnecting" \/ Panicked)

=============================================================================
