--------------------------------- MODULE Room ---------------------------------
(***************************************************************************)
(* RoomSession as the consumer of the engine's events                      *)
(* (livekit/src/room/mod.rs), composed with Engine.                        *)
(*                                                                         *)
(* The room task takes one event at a time and awaits its handler.  Two    *)
(* handlers spawn tasks that outlive them: handle_signal_resumed (sends the*)
(* sync state and then acknowledges) and handle_restarted (republishes the *)
(* tracks and then reports Connected).                                     *)
(*                                                                         *)
(* Data abstraction: participants and tracks, and so the events that update*)
(* them, are left out; only whose events may still be read is kept.        *)
(***************************************************************************)
EXTENDS Engine

CONSTANT
  UserClose \* whether the application may close the room

ASSUME RoomAssumption == UserClose \in BOOLEAN

VARIABLES
  room_state,   \* RoomInfo.state
  room_task,    \* "running", "closing" (close_tx sent) or "stopped"
  room_close,   \* "no", "spawned", "user" or "server" (the handle is taken)
  syncing,      \* the task of handle_signal_resumed is running
  republishing  \* calls of handle_restarted that have not reported Connected

roomVars == <<room_state, room_task, room_close, syncing, republishing>>
vars == <<engineVars, roomVars>>

engineRest == <<handleVars, sessionVars, taskVars, closeVars, api, envVars>>

-----------------------------------------------------------------------------
(***************************************************************************)
(* Engine events                                                           *)
(***************************************************************************)

\* The room task takes the next event and its handler runs to the end.
Receive(kind) ==
  /\ room_task \in {"running", "closing"}
  /\ engine_tx # <<>>
  /\ Head(engine_tx) = kind
  /\ engine_tx' = Tail(engine_tx)

HandleResuming ==
  /\ Receive("Resuming")
  /\ room_state' = "Reconnecting"
  /\ ack' = TRUE
  /\ UNCHANGED <<engineRest, room_task, room_close, syncing, republishing>>

HandleSignalResumed ==
  /\ Receive("SignalResumed")
  /\ syncing' = TRUE
  /\ UNCHANGED <<engineRest, ack, room_state, room_task, room_close,
                 republishing>>

\* send_sync_state, then the acknowledgement.  It asks the manager of the data
\* tracks first, who may be waiting for a task that itself waits for the cycle
\* to end: nothing says that this step is ever taken.
SyncStateSent ==
  /\ syncing
  /\ syncing' = FALSE
  /\ ack' = TRUE
  /\ UNCHANGED <<engineRest, engine_tx, room_state, room_task, room_close,
                 republishing>>

HandleResumed ==
  /\ Receive("Resumed")
  /\ room_state' = "Connected"
  /\ ack' = TRUE
  /\ UNCHANGED <<engineRest, room_task, room_close, syncing, republishing>>

\* The participants and their subscriptions are removed, too.
HandleRestarting ==
  /\ Receive("Restarting")
  /\ room_state' = "Reconnecting"
  /\ ack' = TRUE
  /\ UNCHANGED <<engineRest, room_task, room_close, syncing, republishing>>

\* The participants of the JoinResponse are added, too.
HandleSignalRestarted ==
  /\ Receive("SignalRestarted")
  /\ ack' = TRUE
  /\ UNCHANGED <<engineRest, room_state, room_task, room_close, syncing,
                 republishing>>

HandleRestarted ==
  /\ Receive("Restarted")
  /\ ack' = TRUE
  /\ republishing' = republishing + 1
  /\ UNCHANGED <<engineRest, room_state, room_task, room_close, syncing>>

\* The end of a task spawned by handle_restarted, once the tracks have been
\* republished (there may be none).  Publishing may wait for ever, and a handler
\* that panics before the spawn stands here as a task that never ends.
Republished ==
  /\ republishing > 0
  /\ republishing' = republishing - 1
  /\ room_state' = "Connected"
  /\ UNCHANGED <<engineRest, engine_tx, ack, room_task, room_close, syncing>>

\* Unless the application closed the room, a task that closes it is spawned;
\* only the first finds a handle.
HandleDisconnected(reason) ==
  /\ Receive(reason)
  /\ room_state' = "Disconnected"
  /\ room_close' = IF reason # "ClientInitiated" /\ room_close = "no"
                   THEN "spawned"
                   ELSE room_close
  /\ UNCHANGED <<engineRest, ack, room_task, syncing, republishing>>

Reasons == {"ClientInitiated", "ServerReason"}

-----------------------------------------------------------------------------
(***************************************************************************)
(* RoomSession::close                                                      *)
(***************************************************************************)

\* The handle is taken, by Room::close or by the spawned task, and the engine
\* is closed.
RoomClose ==
  /\ \/ /\ UserClose
        /\ room_close \in {"no", "spawned"}
        /\ room_close' = "user"
     \/ /\ room_close = "spawned"
        /\ room_close' = "server"
  /\ closer' = [closer EXCEPT !["room"] = "take"]
  /\ UNCHANGED <<handleVars, sessionVars, taskVars, closing, api, engine_tx,
                 ack, envVars, room_state, room_task, syncing, republishing>>

\* The engine is closed: the room task is told to stop.
RoomTaskClose ==
  /\ closer["room"] = "done"
  /\ room_task = "running"
  /\ room_task' = "closing"
  /\ UNCHANGED <<engineVars, room_state, room_close, syncing, republishing>>

\* The room task ends and drops the events it has not received; what the
\* engine sends after this is dropped too (it stays in engine_tx, unread).
RoomTaskEnd ==
  /\ room_task = "closing"
  /\ room_task' = "stopped"
  /\ engine_tx' = <<>>
  /\ UNCHANGED <<engineRest, ack, room_state, room_close, syncing,
                 republishing>>

-----------------------------------------------------------------------------
\* A broken variant of Ready: a dropped oneshot is not noticed.
ReadyAcknowledged == ack

\* The oneshot of an event is resolved by its handler or dropped with it.
Ready == ack \/ (room_task = "stopped" /\ ~syncing)

\* A broken variant of CloseReason: one reason for all.
CloseReasonClient(c) == "ClientInitiated"

CloseReason(c) ==
  IF c = "room" /\ room_close = "user" THEN "ClientInitiated"
                                       ELSE "ServerReason"

RoomRest == UNCHANGED roomVars

EngineCycle == CycleStep(Ready) /\ RoomRest

HandleEvent ==
  \/ HandleResuming
  \/ HandleSignalResumed
  \/ HandleResumed
  \/ HandleRestarting
  \/ HandleSignalRestarted
  \/ HandleRestarted
  \/ \E reason \in Reasons : HandleDisconnected(reason)

Init ==
  /\ EngineInit
  /\ room_state = "Connected"
  /\ room_task = "running"
  /\ room_close = "no"
  /\ syncing = FALSE
  /\ republishing = 0

Environment ==
  \/ \E s \in Sessions : \/ \E action \in {"Resume", "Reconnect"} :
                              Fault(s, action)
                         \/ ServerLeave(s)
  \/ \E a \in ApiCallers : ApiBegin(a)

Next ==
  \/ Environment /\ RoomRest
  \/ \E a \in ApiCallers : ApiEnd(a) /\ RoomRest
  \/ \E s \in Sessions : EngineTaskStep(s) /\ RoomRest
  \/ \E c \in Closers : CloseStep(c, CloseReason(c)) /\ RoomRest
  \/ EngineCycle
  \/ HandleEvent
  \/ SyncStateSent
  \/ Republished
  \/ RoomClose
  \/ RoomTaskClose
  \/ RoomTaskEnd

Spec == Init /\ [][Next]_vars

\* What the tasks of the engine and of the room do by themselves, but for the
\* reconnect task and what SyncStateSent and Republished say.
Progress ==
  \/ \E s \in Sessions : EngineTaskStep(s) /\ RoomRest
  \/ \E c \in Closers : CloseStep(c, CloseReason(c)) /\ RoomRest
  \/ HandleEvent
  \/ room_close = "spawned" /\ RoomClose
  \/ RoomTaskClose
  \/ RoomTaskEnd

\* Spawned tasks run, and a call on a session that works, or that was closed
\* under it, returns.  Faults and an application's close are never obliged to
\* happen; neither are the end of a call on a broken session, the sync state
\* and the end of a republication.
Fairness ==
  /\ \A a \in ApiCallers : WF_vars(ApiCanEnd(a) /\ ApiEnd(a) /\ RoomRest)
  /\ WF_vars(Progress)
  /\ WF_vars(EngineCycle)

FairSpec == Spec /\ Fairness

-----------------------------------------------------------------------------
(***************************************************************************)
(* Properties                                                              *)
(***************************************************************************)
CyclePoints ==
  {"idle", "attempt", "restarting", "take", "close_old", "join_old", "connect",
   "signal_restarted", "wait_pc", "installed", "restarted", "resuming",
   "resume", "signal_resumed", "wait_resumed", "resumed", "tick", "refused",
   "failed", "closing", "finish"}

TypeOK ==
  /\ closed \in BOOLEAN
  /\ reconnecting \in BOOLEAN
  /\ can_reconnect \in BOOLEAN
  /\ full_reconnect \in BOOLEAN
  /\ lastSession \in Nat
  /\ session \in 1..lastSession
  /\ engine_task \in {None, session}
  /\ loop \in [Sessions -> {"none", "running", "stopping", "ended"}]
  /\ up \subseteq signalOpen
  /\ signalOpen \subseteq 1..lastSession
  /\ waiting \in Nat
  /\ rpc \in CyclePoints
  /\ attempt \in 0..MaxAttempts
  /\ closer \in [Closers -> {"idle", "take", "session", "join", "emit",
                             "done"}]
  /\ api \in [ApiCallers -> Nat]
  /\ ack \in BOOLEAN
  /\ room_state \in {"Connected", "Reconnecting", "Disconnected"}
  /\ room_task \in {"running", "closing", "stopped"}
  /\ room_close \in {"no", "spawned", "user", "server"}
  /\ missed \in BOOLEAN

\* However session events, close() and the end of a cycle interleave, there is
\* never more than one reconnect task, waiting or running.
OneReconnectTask == waiting <= 1 /\ (rpc # "idle" => waiting = 0)

\* "it ensures we're always using the latest session": no session is replaced
\* or closed for a restart under a caller of wait_reconnection.
ApiUsesLatest == \A a \in ApiCallers : api[a] # None => api[a] = session

\* "Only escalate to full reconnect, never downgrade": a stale event that asks
\* to resume never makes a cycle resume again after it decided to restart.
NeverDowngrades == [][rpc' = "resume" /\ rpc # "resume" => attempt' = 1]_vars

\* A call of the API holds reconnecting_lock on a session that is broken and
\* that nobody has closed: its data channel may never take the packet.
Held == \E a \in ApiCallers : api[a] # None /\ ~ApiCanEnd(a)

\* A cycle ends: whatever fails, is refused or closed meanwhile, the reconnect
\* task gets its lock and gives it back, unless from some time on a call keeps
\* the lock on a broken session or the sync state is never sent.
CycleTerminates == []<>~reconnecting \/ <>[]Held \/ <>[]syncing

\* A reconnect cycle does not leave "the room stuck in Reconnecting forever",
\* unless the application closes the room (its task may then end first), the
\* cycle cannot end, or a task that republishes the tracks never does.
ReconnectingEnds ==
  \/ []<>(room_state # "Reconnecting")
  \/ <>[]Held \/ <>[]syncing
  \/ <>[](room_close = "user")
  \/ <>[](republishing > 0)

\* Once the server has asked to disconnect, the room closes itself, also when
\* the request arrives during a cycle or as the answer to an attempt.
DisconnectClosesRoom == ~can_reconnect ~> (room_task = "stopped")

\* A session that breaks is recovered or the engine is closed: "Runned every
\* time the PeerConnection or the SignalClient is closed", also when it breaks
\* again during the cycle.  The exceptions are a cycle that cannot begin or go
\* on, and a break reported while a cycle that had settled was ending.
FaultHandled ==
  \/ []<>(session \in up \/ closed)
  \/ <>[]Held \/ <>[]syncing
  \/ <>[]missed

\* No event of a session reaches the room after the JoinResponse of a newer
\* one: unless the engine is closed, every task that reads the events of an
\* older session has ended before the newer one exists.  So an update of the
\* participants that the old session had received is overruled, never the
\* other way round.
NoStaleEvents ==
  \A s \in Sessions :
    s < lastSession => loop[s] \in {"none", "ended"} \/ closed

\* How far the reconnect task is, from outside.
Phase ==
  CASE ~reconnecting -> "idle"
    [] reconnecting /\ rpc \in {"resuming", "resume", "signal_resumed",
                               "wait_resumed"} -> "resume"
    [] reconnecting /\ rpc \in {"installed", "restarted", "resumed",
                               "finish"} -> "settled"
    [] OTHER -> IF full_reconnect THEN "restart" ELSE "resume"

Cycles == INSTANCE Reconnection WITH
  Callers <- ApiCallers,
  phase <- Phase,
  allowed <- can_reconnect,
  open <- ~closed,
  current <- session,
  works <- session \in up,
  users <- {a \in ApiCallers : api[a] # None}

\* However faults, refusals, failures, close() and API calls interleave, the
\* engine reconnects as Reconnection says: one cycle at a time, that never
\* resumes after it decided to restart ("Only escalate to full reconnect, never
\* downgrade"), settles with a session that works or because the engine is
\* closed, replaces the session only by a newer one and not under an API call,
\* and does not begin after the server asked to disconnect ("Disallow
\* reconnection to avoid races").
KeepsReconnection == Cycles!ReconnectionSpec
=============================================================================
