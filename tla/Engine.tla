-------------------------------- MODULE Engine --------------------------------
(***************************************************************************)
(* The reconnection machinery of RtcEngine                                 *)
(* (livekit/src/rtc_engine/mod.rs): the engine tasks that listen to session*)
(* events, the reconnect task, close() and the API calls that wait for a   *)
(* reconnection.  The room on the other side of the engine's event channel *)
(* is module Room.                                                         *)
(*                                                                         *)
(* EngineHandle is behind a lock that is never held across an await; a step*)
(* here is the code between two awaits.                                    *)
(*                                                                         *)
(* Data abstraction: an RtcSession is its number, in order of creation.  A *)
(* session is in `up` while its signal connection and its peer connections *)
(* work.                                                                   *)
(***************************************************************************)
EXTENDS Naturals, Sequences

CONSTANTS
  ApiCallers,    \* tasks that call the engine through wait_reconnection
  MaxAttempts,   \* RECONNECT_ATTEMPTS
  MaxFaults,     \* bound on the session events that ask for a reconnection
  ResumeCanFail, \* whether a resume attempt may fail by itself
  RestartCanFail,\* whether a restart attempt may fail by itself
  ServerLeaves   \* whether the server may send LeaveRequest{Disconnect}

ASSUME EngineAssumption ==
  /\ MaxAttempts \in Nat \ {0}
  /\ MaxFaults \in Nat
  /\ ResumeCanFail \in BOOLEAN
  /\ RestartCanFail \in BOOLEAN
  /\ ServerLeaves \in BOOLEAN

VARIABLES
  closed, reconnecting, can_reconnect, full_reconnect,  \* of EngineHandle
  session,        \* EngineHandle.session
  engine_task,    \* EngineHandle.engine_task: whose events it reads, or None
  loop,           \* the engine task of each session
  session_events, \* events of each session that its engine task has not read
  up,             \* sessions that work
  signalOpen,     \* sessions whose signal connection is open
  sessionClosed,  \* sessions whose close() has run
  waiting,        \* reconnect tasks that wait for the reconnecting_lock
  rpc,            \* where the reconnect task that holds the lock is
  attempt,        \* i of reconnect_task
  new_session,    \* the session try_restart_connection is connecting
  lastSession,    \* the number of sessions created
  closer,         \* where each call of close() is
  closing,        \* the session whose engine task a closer took, or None
  api,            \* the session each API caller works on, or None
  engine_tx,      \* engine events the room has not received
  ack,            \* the oneshot of the last acknowledged event is resolved
  faults,         \* faults and repeated reports of them so far
  serverLeft,     \* the server has sent LeaveRequest{Disconnect}
  missed          \* history: the last report of a fault was read while a
                  \* cycle that had settled was ending

handleVars == <<closed, reconnecting, can_reconnect, full_reconnect, session,
                engine_task>>
sessionVars == <<session_events, up, signalOpen, sessionClosed>>
taskVars == <<loop, waiting, rpc, attempt, new_session, lastSession>>
closeVars == <<closer, closing>>
envVars == <<faults, serverLeft, missed>>
engineVars == <<handleVars, sessionVars, taskVars, closeVars, api, engine_tx,
                ack, envVars>>

None == 0

\* Every reconnect task was started by an event and restarts at most once per
\* attempt, so there are never more sessions than this.
Sessions == 1..(1 + MaxFaults * MaxAttempts)

\* Who calls close(): the room, the task spawned for a LeaveRequest, and the
\* reconnect task (which also closes the old session before a restart).
Closers == {"room", "server", "cycle"}

Emit(kind) == engine_tx' = Append(engine_tx, kind)

-----------------------------------------------------------------------------
(***************************************************************************)
(* Session events                                                          *)
(***************************************************************************)

\* The signal connection or a peer connection of a session breaks, or the
\* server asks to leave and come back: on_session_disconnected.  A session
\* that is broken already reports it again when its other connection fails
\* too, as long as its tasks run.
Fault(s, action) ==
  /\ s \in up \/ (s = session /\ s \notin sessionClosed)
  /\ faults < MaxFaults
  /\ faults' = faults + 1
  /\ up' = up \ {s}
  /\ session_events' = [session_events EXCEPT ![s] = Append(@, action)]
  /\ UNCHANGED <<handleVars, signalOpen, sessionClosed, taskVars, closeVars,
                 api, engine_tx, ack, serverLeft, missed>>

\* The server sends LeaveRequest{Disconnect}.
ServerLeave(s) ==
  /\ ServerLeaves
  /\ ~serverLeft
  /\ s \in up
  /\ serverLeft' = TRUE
  /\ up' = up \ {s}
  /\ session_events' = [session_events EXCEPT ![s] = Append(@, "Disconnect")]
  /\ UNCHANGED <<handleVars, signalOpen, sessionClosed, taskVars, closeVars,
                 api, engine_tx, ack, faults, missed>>

\* A broken variant of ReconnectionNeeded: the permission to reconnect is not
\* looked at.
ReconnectionNeededAnyway(full) ==
  /\ reconnecting' = TRUE
  /\ full_reconnect' = full
  /\ waiting' = IF reconnecting THEN waiting ELSE waiting + 1

\* reconnection_needed: escalate the cycle that is under way, or start one.
ReconnectionNeeded(full) ==
  \/ /\ can_reconnect
     /\ reconnecting
     /\ full_reconnect' = (full_reconnect \/ full)
     /\ UNCHANGED <<reconnecting, waiting>>
  \/ /\ can_reconnect
     /\ ~reconnecting
     /\ reconnecting' = TRUE
     /\ full_reconnect' = full
     /\ waiting' = waiting + 1
  \/ /\ ~can_reconnect
     /\ UNCHANGED <<reconnecting, full_reconnect, waiting>>

\* The reconnect task has what it wants and only winds up.
SettledPoints == {"installed", "restarted", "resumed", "finish"}

\* The engine task of s receives an event and runs on_session_event.  A task
\* that was told to stop may still pick an event in its select.
OnSessionEvent(s) ==
  /\ loop[s] \in {"running", "stopping"}
  /\ session_events[s] # <<>>
  /\ session_events' = [session_events EXCEPT ![s] = Tail(@)]
  /\ LET action == Head(session_events[s])
     IN \/ /\ action \in {"Resume", "Reconnect"}
           /\ ReconnectionNeeded(action = "Reconnect")
           /\ missed' = (reconnecting /\ rpc \in SettledPoints)
           /\ UNCHANGED <<can_reconnect, closer>>
        \/ /\ action = "Disconnect"
           /\ can_reconnect' = FALSE
           /\ closer' = [closer EXCEPT !["server"] = "take"]
           /\ UNCHANGED <<reconnecting, full_reconnect, waiting, missed>>
  /\ UNCHANGED <<closed, session, engine_task, up, signalOpen, sessionClosed,
                 loop, rpc, attempt, new_session, lastSession, closing, api,
                 engine_tx, ack, faults, serverLeft>>

EngineTaskEnd(s) ==
  /\ loop[s] = "stopping"
  /\ loop' = [loop EXCEPT ![s] = "ended"]
  /\ UNCHANGED <<handleVars, sessionVars, waiting, rpc, attempt, new_session,
                 lastSession, closeVars, api, engine_tx, ack, envVars>>

\* RtcSession::close: its tasks end first, so no event follows.
CloseSession(s) ==
  /\ sessionClosed' = sessionClosed \cup {s}
  /\ signalOpen' = signalOpen \ {s}
  /\ up' = up \ {s}
  /\ loop' = [loop EXCEPT ![s] = "stopping"]

-----------------------------------------------------------------------------
(***************************************************************************)
(* close(reason).  The reason is ClientInitiated when an application closes*)
(* the room and another one otherwise.                                     *)
(***************************************************************************)
CloseTake(c) ==
  /\ closer[c] = "take"
  /\ closed' = TRUE
  /\ engine_task' = None
  /\ closing' = [closing EXCEPT ![c] = engine_task]
  /\ closer' = [closer EXCEPT
                  ![c] = IF engine_task = None THEN "emit" ELSE "session"]
  /\ UNCHANGED <<reconnecting, can_reconnect, full_reconnect, session,
                 sessionVars, taskVars, api, engine_tx, ack, envVars>>

CloseCloseSession(c) ==
  /\ closer[c] = "session"
  /\ CloseSession(closing[c])
  /\ closer' = [closer EXCEPT ![c] = "join"]
  /\ UNCHANGED <<handleVars, session_events, waiting, rpc, attempt,
                 new_session, lastSession, closing, api, engine_tx, ack,
                 envVars>>

CloseJoin(c) ==
  /\ closer[c] = "join"
  /\ loop[closing[c]] = "ended"
  /\ closer' = [closer EXCEPT ![c] = "emit"]
  /\ UNCHANGED <<handleVars, sessionVars, taskVars, closing, api, engine_tx,
                 ack, envVars>>

CloseEmit(c, reason) ==
  /\ closer[c] = "emit"
  /\ Emit(reason)
  /\ closer' = [closer EXCEPT ![c] = "done"]
  /\ UNCHANGED <<handleVars, sessionVars, taskVars, closing, api, ack,
                 envVars>>

-----------------------------------------------------------------------------
(***************************************************************************)
(* The reconnect task.  Only rpc, the lock and what a step names change.   *)
(***************************************************************************)
cycleRest == <<closed, can_reconnect, closing, api, envVars>>

\* A broken variant of WriteLockFree: readers are not waited for.
WriteLockFreeOfWriters == rpc = "idle"

\* Nobody holds reconnecting_lock.
WriteLockFree == rpc = "idle" /\ \A a \in ApiCallers : api[a] = None

\* The task takes the write half of reconnecting_lock.
CycleStart ==
  /\ waiting > 0
  /\ WriteLockFree
  /\ waiting' = waiting - 1
  /\ rpc' = "attempt"
  /\ attempt' = 1
  /\ UNCHANGED <<cycleRest, reconnecting, full_reconnect, session, engine_task,
                 sessionVars, loop, new_session, lastSession, closer,
                 engine_tx, ack>>

\* The event is sent and its acknowledgement awaited.
Announce(event, where) ==
  /\ Emit(event)
  /\ ack' = FALSE
  /\ rpc' = where

\* The head of the loop over the attempts.
Attempt ==
  /\ rpc = "attempt"
  /\ \/ closed /\ rpc' = "failed" /\ UNCHANGED <<engine_tx, ack>>
     \/ /\ ~closed /\ full_reconnect
        /\ IF attempt = 1
           THEN Announce("Restarting", "restarting")
           ELSE rpc' = "take" /\ UNCHANGED <<engine_tx, ack>>
     \/ /\ ~closed /\ ~full_reconnect
        /\ IF attempt = 1
           THEN Announce("Resuming", "resuming")
           ELSE rpc' = "resume" /\ UNCHANGED <<engine_tx, ack>>
  /\ UNCHANGED <<cycleRest, reconnecting, full_reconnect, session, engine_task,
                 sessionVars, loop, waiting, attempt, new_session, lastSession,
                 closer>>

\* The room has resolved the oneshot of the announcement (or dropped it).
Acknowledged(ready) ==
  /\ ready
  /\ \/ rpc = "restarting" /\ rpc' = "take"
     \/ rpc = "signal_restarted" /\ rpc' = "wait_pc"
     \/ rpc = "resuming" /\ rpc' = "resume"
     \/ rpc = "signal_resumed" /\ rpc' = "wait_resumed"
     \/ rpc \in {"restarted", "resumed"} /\ rpc' = "finish"
  /\ UNCHANGED <<cycleRest, reconnecting, full_reconnect, session, engine_task,
                 sessionVars, loop, waiting, attempt, new_session, lastSession,
                 closer, engine_tx, ack>>

\* An attempt fails: a resume decides for a full reconnect first.
AttemptFails(resume) ==
  /\ rpc' = "tick"
  /\ full_reconnect' = (full_reconnect \/ resume)

\* The server answers an attempt with LeaveRequest{Disconnect}.
AttemptRefused ==
  /\ ServerLeaves
  /\ ~serverLeft
  /\ rpc \in {"connect", "resume"}
  /\ serverLeft' = TRUE
  /\ can_reconnect' = FALSE
  /\ closer' = [closer EXCEPT !["cycle"] = "take"]
  /\ rpc' = "refused"
  /\ UNCHANGED <<closed, reconnecting, full_reconnect, session, engine_task,
                 sessionVars, loop, waiting, attempt, new_session, lastSession,
                 closing, api, engine_tx, ack, faults, missed>>

\* try_restart_connection: the handle gives up its engine task ...
RestartTake ==
  /\ rpc = "take"
  /\ closing' = [closing EXCEPT !["cycle"] = engine_task]
  /\ engine_task' = None
  /\ rpc' = IF engine_task = None THEN "connect" ELSE "close_old"
  /\ UNCHANGED <<closed, can_reconnect, api, envVars, reconnecting,
                 full_reconnect, session, sessionVars, loop, waiting, attempt,
                 new_session, lastSession, closer, engine_tx, ack>>

\* A broken variant of RestartCloseOld: the task is not awaited.
RestartCloseOldOnly ==
  /\ rpc = "close_old"
  /\ CloseSession(closing["cycle"])
  /\ rpc' = "connect"
  /\ UNCHANGED <<cycleRest, reconnecting, full_reconnect, session, engine_task,
                 session_events, waiting, attempt, new_session, lastSession,
                 closer, engine_tx, ack>>

\* ... whose session is closed ...
RestartCloseOld ==
  /\ rpc = "close_old"
  /\ CloseSession(closing["cycle"])
  /\ rpc' = "join_old"
  /\ UNCHANGED <<cycleRest, reconnecting, full_reconnect, session, engine_task,
                 session_events, waiting, attempt, new_session, lastSession,
                 closer, engine_tx, ack>>

\* ... and which is awaited.
RestartJoinOld ==
  /\ rpc = "join_old"
  /\ loop[closing["cycle"]] = "ended"
  /\ rpc' = "connect"
  /\ UNCHANGED <<cycleRest, reconnecting, full_reconnect, session, engine_task,
                 sessionVars, loop, waiting, attempt, new_session, lastSession,
                 closer, engine_tx, ack>>

\* RtcSession::connect.
RestartConnect ==
  /\ rpc = "connect"
  /\ \/ LET s == lastSession + 1
        IN /\ lastSession' = s
           /\ new_session' = s
           /\ up' = up \cup {s}
           /\ signalOpen' = signalOpen \cup {s}
           /\ Announce("SignalRestarted", "signal_restarted")
           /\ UNCHANGED full_reconnect
     \/ /\ RestartCanFail
        /\ AttemptFails(FALSE)
        /\ UNCHANGED <<lastSession, new_session, up, signalOpen, engine_tx,
                       ack>>
  /\ UNCHANGED <<cycleRest, reconnecting, session, engine_task, session_events,
                 sessionClosed, loop, waiting, attempt, closer>>

\* wait_pc_connection, then the new session is installed, whatever happened
\* to the engine meanwhile.  A session that does not connect is dropped.
RestartWaitPc ==
  /\ rpc = "wait_pc"
  /\ \/ /\ new_session \in up
        /\ session' = new_session
        /\ engine_task' = new_session
        /\ loop' = [loop EXCEPT ![new_session] = "running"]
        /\ rpc' = "installed"
        /\ UNCHANGED <<full_reconnect, up>>
     \/ /\ RestartCanFail \/ new_session \notin up
        /\ AttemptFails(FALSE)
        /\ up' = up \ {new_session}
        /\ UNCHANGED <<session, engine_task, loop>>
  /\ UNCHANGED <<cycleRest, reconnecting, session_events, signalOpen,
                 sessionClosed, waiting, attempt, new_session, lastSession,
                 closer, engine_tx, ack>>

RestartAnnounce ==
  /\ rpc = "installed"
  /\ Announce("Restarted", "restarted")
  /\ UNCHANGED <<cycleRest, reconnecting, full_reconnect, session, engine_task,
                 sessionVars, loop, waiting, attempt, new_session, lastSession,
                 closer>>

\* try_resume_connection: session.restart() opens the signal connection of
\* the session again, closed or not.
Resume ==
  /\ rpc = "resume"
  /\ \/ /\ signalOpen' = signalOpen \cup {session}
        /\ up' = up \cup ({session} \ sessionClosed)
        /\ Announce("SignalResumed", "signal_resumed")
        /\ UNCHANGED full_reconnect
     \/ /\ ResumeCanFail
        /\ AttemptFails(TRUE)
        /\ UNCHANGED <<signalOpen, up, engine_tx, ack>>
  /\ UNCHANGED <<cycleRest, reconnecting, session, engine_task, session_events,
                 sessionClosed, loop, waiting, attempt, new_session,
                 lastSession, closer>>

\* A broken variant of ResumeWait: the connection is not looked at again.
ResumeWaitUnchecked ==
  /\ rpc = "wait_resumed"
  /\ Announce("Resumed", "resumed")
  /\ UNCHANGED <<cycleRest, reconnecting, full_reconnect, session, engine_task,
                 sessionVars, loop, waiting, attempt, new_session, lastSession,
                 closer>>

\* restart_publisher, wait_pc_reconnected, is_connected and set_reconnected.
ResumeWait ==
  /\ rpc = "wait_resumed"
  /\ \/ /\ session \in up
        /\ Announce("Resumed", "resumed")
        /\ UNCHANGED full_reconnect
     \/ /\ ResumeCanFail \/ session \notin up
        /\ AttemptFails(TRUE)
        /\ UNCHANGED <<engine_tx, ack>>
  /\ UNCHANGED <<cycleRest, reconnecting, session, engine_task, sessionVars,
                 loop, waiting, attempt, new_session, lastSession, closer>>

\* The interval ticks: the next attempt, or the end of the loop.
Tick ==
  /\ rpc = "tick"
  /\ \/ attempt < MaxAttempts /\ attempt' = attempt + 1 /\ rpc' = "attempt"
     \/ attempt = MaxAttempts /\ rpc' = "failed" /\ UNCHANGED attempt
  /\ UNCHANGED <<cycleRest, reconnecting, full_reconnect, session, engine_task,
                 sessionVars, loop, waiting, new_session, lastSession, closer,
                 engine_tx, ack>>

\* A broken variant of CycleFailed: the failure is only logged.
CycleFailedSilently ==
  /\ rpc = "failed"
  /\ rpc' = "finish"
  /\ UNCHANGED <<cycleRest, reconnecting, full_reconnect, session, engine_task,
                 sessionVars, loop, waiting, attempt, new_session, lastSession,
                 closer, engine_tx, ack>>

\* reconnect_task returned an error: the engine is closed.
CycleFailed ==
  /\ rpc = "failed"
  /\ closer' = [closer EXCEPT !["cycle"] = "take"]
  /\ rpc' = "closing"
  /\ UNCHANGED <<cycleRest, reconnecting, full_reconnect, session, engine_task,
                 sessionVars, loop, waiting, attempt, new_session, lastSession,
                 engine_tx, ack>>

\* A close() that the reconnect task called returns.
CycleClosed ==
  /\ closer["cycle"] = "done"
  /\ closer' = [closer EXCEPT !["cycle"] = "idle"]
  /\ \/ rpc = "refused" /\ rpc' = "failed"
     \/ rpc = "closing" /\ rpc' = "finish"
  /\ UNCHANGED <<cycleRest, reconnecting, full_reconnect, session, engine_task,
                 sessionVars, loop, waiting, attempt, new_session, lastSession,
                 engine_tx, ack>>

\* The flag is cleared and the lock released.
CycleEnd ==
  /\ rpc = "finish"
  /\ reconnecting' = FALSE
  /\ rpc' = "idle"
  /\ UNCHANGED <<cycleRest, full_reconnect, session, engine_task, sessionVars,
                 loop, waiting, attempt, new_session, lastSession, closer,
                 engine_tx, ack>>

-----------------------------------------------------------------------------
(***************************************************************************)
(* API calls: wait_reconnection, and the work under its read guard         *)
(***************************************************************************)

\* Tokio's lock is fair: a reconnect task that waits keeps new readers out.
\* The caller is turned away when the engine is closed.
ApiBegin(a) ==
  /\ api[a] = None
  /\ rpc = "idle"
  /\ waiting = 0
  /\ ~closed
  /\ api' = [api EXCEPT ![a] = session]
  /\ UNCHANGED <<handleVars, sessionVars, taskVars, closeVars, engine_tx, ack,
                 envVars>>

\* The work ends.  Publishing data awaits its turn on the data channel: on a
\* session that is broken, and not closed, it may never get it.
ApiEnd(a) ==
  /\ api[a] # None
  /\ api' = [api EXCEPT ![a] = None]
  /\ UNCHANGED <<handleVars, sessionVars, taskVars, closeVars, engine_tx, ack,
                 envVars>>

\* Where the work is sure to end.
ApiCanEnd(a) == api[a] \in up \cup sessionClosed

-----------------------------------------------------------------------------
EngineInit ==
  /\ closed = FALSE
  /\ reconnecting = FALSE
  /\ can_reconnect = TRUE
  /\ full_reconnect = FALSE
  /\ session = 1
  /\ engine_task = 1
  /\ loop = [s \in Sessions |-> IF s = 1 THEN "running" ELSE "none"]
  /\ session_events = [s \in Sessions |-> <<>>]
  /\ up = {1}
  /\ signalOpen = {1}
  /\ sessionClosed = {}
  /\ waiting = 0
  /\ rpc = "idle"
  /\ attempt = 0
  /\ new_session = None
  /\ lastSession = 1
  /\ closer = [c \in Closers |-> "idle"]
  /\ closing = [c \in Closers |-> None]
  /\ api = [a \in ApiCallers |-> None]
  /\ engine_tx = <<>>
  /\ ack = FALSE
  /\ faults = 0
  /\ serverLeft = FALSE
  /\ missed = FALSE

EngineTaskStep(s) == OnSessionEvent(s) \/ EngineTaskEnd(s)

CloseStep(c, reason) ==
  \/ CloseTake(c)
  \/ CloseCloseSession(c)
  \/ CloseJoin(c)
  \/ CloseEmit(c, reason)

CycleStep(ready) ==
  \/ CycleStart
  \/ Attempt
  \/ Acknowledged(ready)
  \/ AttemptRefused
  \/ RestartTake
  \/ RestartCloseOld
  \/ RestartJoinOld
  \/ RestartConnect
  \/ RestartWaitPc
  \/ RestartAnnounce
  \/ Resume
  \/ ResumeWait
  \/ Tick
  \/ CycleFailed
  \/ CycleClosed
  \/ CycleEnd
=============================================================================
