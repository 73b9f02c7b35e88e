------------------------------ MODULE RoomProofs ------------------------------
(***************************************************************************)
(* Theorems about Room and the Engine it is composed with, for any number  *)
(* of API callers, attempts and faults.                                    *)
(*                                                                         *)
(* IInv is inductive.  Its parts support each other: the flag reconnecting *)
(* mirrors the existence of a reconnect task (CycleFlag), so the only step *)
(* that may reset full_reconnect happens outside a cycle, so a cycle that  *)
(* got past its first attempt restarts (Escalated); the read guards of the *)
(* API callers keep the cycle, and with it the installation of a session,  *)
(* away (ApiInv).  TaskInv follows the engine tasks through a restart.     *)
(* SettleInv, with IInv, shows that Engine and Room implement Reconnection.*)
(*                                                                         *)
(* The second half is about DataStreams, the streams that rooms exchange,  *)
(* for any number of writes, resumes, restarts, failures, dropped calls.   *)
(* DataStreamsInv is inductive: what was published and what is still       *)
(* requested names its writes in order (IndexInv), so what is read is in   *)
(* order (ReadInv); the chunk of a write that succeeded was sent before    *)
(* any trailer and any later chunk (SentInv) and, if no restart lost it,   *)
(* is on its way, behind a header, or has been read (CoverInv); while all  *)
(* writes succeed their numbers are the indices (CountInv), which are the  *)
(* places of what is read (FromSent); and undisturbed, the chunks on their *)
(* way have the very indices that the reader expects (FlowInv).            *)
(***************************************************************************)
EXTENDS Room, DataStreams, TLAPS

\* The session being connected exists while it is announced and awaited.
NewSession ==
  /\ new_session \in 0..lastSession
  /\ rpc \in {"signal_restarted", "wait_pc"} => new_session # None

\* reconnecting is TRUE exactly while a reconnect task waits or runs.
CycleFlag == reconnecting <=> (waiting > 0 \/ rpc # "idle")

RestartPoints ==
  {"restarting", "take", "close_old", "join_old", "connect",
   "signal_restarted", "wait_pc", "tick"}

\* A cycle that restarts, or has failed once, has decided for a full
\* reconnect.
Escalated ==
  /\ rpc \in RestartPoints => full_reconnect
  /\ rpc # "idle" => attempt > 0
  /\ rpc # "idle" /\ attempt > 1 => full_reconnect
  /\ rpc = "resuming" => attempt = 1

\* A caller that passed wait_reconnection keeps reconnect tasks waiting.
ApiInv ==
  \A a \in ApiCallers : api[a] # None => api[a] = session /\ rpc = "idle"

IInv ==
  /\ TypeOK
  /\ NewSession
  /\ CycleFlag
  /\ OneReconnectTask
  /\ Escalated
  /\ ApiInv

-----------------------------------------------------------------------------
\* The initial state satisfies the inductive invariant.
LEMMA InitIInv == Init => IInv
<1> SUFFICES ASSUME Init PROVE IInv
  OBVIOUS
<1> USE EngineAssumption DEF Init, EngineInit, None
<1>1. TypeOK
  <2>1. /\ loop \in [Sessions -> {"none", "running", "stopping", "ended"}]
        /\ closer \in [Closers ->
                        {"idle", "take", "session", "join", "emit", "done"}]
        /\ api \in [ApiCallers -> Nat]
    OBVIOUS
  <2>2. /\ session \in 1..lastSession
        /\ engine_task \in {None, session}
        /\ up \subseteq signalOpen
        /\ signalOpen \subseteq 1..lastSession
        /\ attempt \in 0..MaxAttempts
    OBVIOUS
  <2>3. QED
    BY <2>1, <2>2 DEF TypeOK, CyclePoints
<1>2. NewSession /\ CycleFlag /\ OneReconnectTask /\ Escalated
  BY DEF NewSession, CycleFlag, OneReconnectTask, Escalated, RestartPoints
<1>3. ApiInv
  BY DEF ApiInv
<1>4. QED
  BY <1>1, <1>2, <1>3 DEF IInv

\* The part of a reconnect task's step that concerns the room.
CycleRoom ==
  UNCHANGED <<room_state, room_task, room_close, syncing, republishing>>

\* Every step of every actor preserves the inductive invariant.
LEMMA NextIInv == IInv /\ [Next]_vars => IInv'
<1> SUFFICES ASSUME IInv, [Next]_vars PROVE IInv'
  OBVIOUS
<1> USE EngineAssumption
    DEF IInv, None, Closers, engineVars, engineRest, handleVars, sessionVars,
        taskVars, closeVars, envVars
<1>1. ASSUME NEW s \in Sessions, NEW action \in {"Resume", "Reconnect"},
             Fault(s, action), RoomRest
      PROVE  IInv'
  <2> USE <1>1 DEF Fault, RoomRest, roomVars
  <2>1. TypeOK'
    <3>1. up' \subseteq signalOpen
      BY DEF TypeOK
    <3>2. QED
      BY <3>1, SMTT(30) DEF TypeOK
  <2>2. QED
    BY <2>1 DEF TypeOK, NewSession, CycleFlag, OneReconnectTask, Escalated,
                ApiInv
<1>2. ASSUME NEW s \in Sessions, ServerLeave(s), RoomRest
      PROVE  IInv'
  <2> USE <1>2 DEF ServerLeave, RoomRest, roomVars
  <2>1. TypeOK'
    BY DEF TypeOK
  <2>2. QED
    BY <2>1 DEF TypeOK, NewSession, CycleFlag, OneReconnectTask, Escalated,
                ApiInv
<1>3. ASSUME NEW a \in ApiCallers, ApiBegin(a), RoomRest
      PROVE  IInv'
  <2> USE <1>3 DEF ApiBegin, RoomRest, roomVars
  <2>1. TypeOK'
    BY DEF TypeOK
  <2>2. QED
    BY <2>1 DEF TypeOK, NewSession, CycleFlag, OneReconnectTask, Escalated,
                ApiInv
<1>4. ASSUME NEW a \in ApiCallers, ApiEnd(a), RoomRest
      PROVE  IInv'
  <2> USE <1>4 DEF ApiEnd, RoomRest, roomVars
  <2>1. TypeOK'
    BY DEF TypeOK
  <2>2. QED
    BY <2>1 DEF TypeOK, NewSession, CycleFlag, OneReconnectTask, Escalated,
                ApiInv
<1>5. ASSUME NEW s \in Sessions, OnSessionEvent(s), RoomRest
      PROVE  IInv'
  <2> USE <1>5 DEF OnSessionEvent, ReconnectionNeeded, RoomRest, roomVars
  <2>1. can_reconnect' \in BOOLEAN /\ missed' \in BOOLEAN
    BY DEF TypeOK
  <2>2. reconnecting' \in BOOLEAN
    BY DEF TypeOK
  <2>3. full_reconnect' \in BOOLEAN
    BY DEF TypeOK
  <2>4. closer' \in [Closers ->
                      {"idle", "take", "session", "join", "emit", "done"}]
    BY DEF TypeOK
  <2>5. waiting' \in Nat
    BY DEF TypeOK
  <2>6. TypeOK'
    BY <2>1, <2>2, <2>3, <2>4, <2>5, SMTT(30) DEF TypeOK
  <2>7. (NewSession /\ CycleFlag /\ OneReconnectTask)'
    BY <2>6 DEF TypeOK, NewSession, CycleFlag, OneReconnectTask
  <2>8. (Escalated /\ ApiInv)'
    BY <2>1, <2>2, <2>3, <2>4, <2>5, <2>6
    DEF TypeOK, CycleFlag, Escalated, ApiInv, RestartPoints
  <2>9. QED
    BY <2>6, <2>7, <2>8 DEF IInv
<1>6. ASSUME NEW s \in Sessions, EngineTaskEnd(s), RoomRest
      PROVE  IInv'
  <2> USE <1>6 DEF EngineTaskEnd, RoomRest, roomVars
  <2>1. TypeOK'
    BY DEF TypeOK
  <2>2. QED
    BY <2>1 DEF TypeOK, NewSession, CycleFlag, OneReconnectTask, Escalated,
                ApiInv
<1>7. ASSUME NEW c \in Closers, CloseTake(c), RoomRest
      PROVE  IInv'
  <2> USE <1>7 DEF CloseTake, RoomRest, roomVars
  <2>1. TypeOK'
    BY DEF TypeOK
  <2>2. QED
    BY <2>1 DEF TypeOK, NewSession, CycleFlag, OneReconnectTask, Escalated,
                ApiInv
<1>8. ASSUME NEW c \in Closers, CloseCloseSession(c), RoomRest
      PROVE  IInv'
  <2> USE <1>8 DEF CloseCloseSession, CloseSession, RoomRest, roomVars
  <2>1. loop' \in [Sessions -> {"none", "running", "stopping", "ended"}]
    BY DEF TypeOK
  <2>2. closer' \in [Closers ->
                      {"idle", "take", "session", "join", "emit", "done"}]
    BY DEF TypeOK
  <2>3. (up \subseteq signalOpen /\ signalOpen \subseteq 1..lastSession)'
    BY DEF TypeOK
  <2>4. TypeOK'
    BY <2>1, <2>2, <2>3, SMTT(30) DEF TypeOK
  <2>5. QED
    BY <2>4 DEF TypeOK, NewSession, CycleFlag, OneReconnectTask, Escalated,
                ApiInv
<1>9. ASSUME NEW c \in Closers, CloseJoin(c), RoomRest
      PROVE  IInv'
  <2> USE <1>9 DEF CloseJoin, RoomRest, roomVars
  <2>1. TypeOK'
    BY DEF TypeOK
  <2>2. QED
    BY <2>1 DEF TypeOK, NewSession, CycleFlag, OneReconnectTask, Escalated,
                ApiInv
<1>10. ASSUME NEW c \in Closers, CloseEmit(c, CloseReason(c)), RoomRest
      PROVE  IInv'
  <2> USE <1>10 DEF CloseEmit, RoomRest, roomVars
  <2>1. TypeOK'
    BY DEF TypeOK
  <2>2. QED
    BY <2>1 DEF TypeOK, NewSession, CycleFlag, OneReconnectTask, Escalated,
                ApiInv
<1>11. ASSUME CycleStart, CycleRoom
      PROVE  IInv'
  <2> USE <1>11 DEF CycleStart, WriteLockFree, CycleRoom, cycleRest
  <2>1. rpc' \in CyclePoints
    BY DEF CyclePoints
  <2>2. TypeOK'
    BY <2>1, SMTT(30) DEF TypeOK
  <2>3. (NewSession /\ CycleFlag /\ OneReconnectTask)'
    BY <2>2 DEF TypeOK, NewSession, CycleFlag, OneReconnectTask
  <2>4. (Escalated /\ ApiInv)'
    BY <2>2
    DEF TypeOK, CycleFlag, Escalated, ApiInv, RestartPoints
  <2>5. QED
    BY <2>2, <2>3, <2>4 DEF IInv
<1>12. ASSUME Attempt, CycleRoom
      PROVE  IInv'
  <2> USE <1>12 DEF Attempt, Announce, CycleRoom, cycleRest
  <2>1. ack' \in BOOLEAN
    BY DEF TypeOK
  <2>2. rpc' \in CyclePoints
    BY DEF CyclePoints
  <2>3. TypeOK'
    BY <2>1, <2>2, SMTT(30) DEF TypeOK
  <2>4. (NewSession /\ CycleFlag /\ OneReconnectTask)'
    BY <2>3 DEF TypeOK, NewSession, CycleFlag, OneReconnectTask
  <2>5. (Escalated /\ ApiInv)'
    BY <2>1, <2>3
    DEF TypeOK, CycleFlag, Escalated, ApiInv, RestartPoints
  <2>6. QED
    BY <2>3, <2>4, <2>5 DEF IInv
<1>13. ASSUME Acknowledged(Ready), CycleRoom
      PROVE  IInv'
  <2> USE <1>13 DEF Acknowledged, CycleRoom, cycleRest
  <2>1. rpc' \in CyclePoints
    BY DEF CyclePoints
  <2>2. TypeOK'
    BY <2>1, SMTT(30) DEF TypeOK
  <2>3. (NewSession /\ CycleFlag /\ OneReconnectTask)'
    BY <2>2 DEF TypeOK, NewSession, CycleFlag, OneReconnectTask
  <2>4. (Escalated /\ ApiInv)'
    BY <2>2
    DEF TypeOK, CycleFlag, Escalated, ApiInv, RestartPoints
  <2>5. QED
    BY <2>2, <2>3, <2>4 DEF IInv
<1>14. ASSUME AttemptRefused, CycleRoom
      PROVE  IInv'
  <2> USE <1>14 DEF AttemptRefused, CycleRoom, cycleRest
  <2>1. can_reconnect' \in BOOLEAN
    BY DEF TypeOK
  <2>2. closer' \in [Closers ->
                      {"idle", "take", "session", "join", "emit", "done"}]
    BY DEF TypeOK
  <2>3. rpc' \in CyclePoints
    BY DEF CyclePoints
  <2>4. TypeOK'
    BY <2>1, <2>2, <2>3, SMTT(30) DEF TypeOK
  <2>5. (NewSession /\ CycleFlag /\ OneReconnectTask)'
    BY <2>4 DEF TypeOK, NewSession, CycleFlag, OneReconnectTask
  <2>6. (Escalated /\ ApiInv)'
    BY <2>1, <2>2, <2>4
    DEF TypeOK, CycleFlag, Escalated, ApiInv, RestartPoints
  <2>7. QED
    BY <2>4, <2>5, <2>6 DEF IInv
<1>15. ASSUME RestartTake, CycleRoom
      PROVE  IInv'
  <2> USE <1>15 DEF RestartTake, CycleRoom, cycleRest
  <2>1. rpc' \in CyclePoints
    BY DEF CyclePoints
  <2>2. TypeOK'
    BY <2>1, SMTT(30) DEF TypeOK
  <2>3. (NewSession /\ CycleFlag /\ OneReconnectTask)'
    BY <2>2 DEF TypeOK, NewSession, CycleFlag, OneReconnectTask
  <2>4. (Escalated /\ ApiInv)'
    BY <2>2
    DEF TypeOK, CycleFlag, Escalated, ApiInv, RestartPoints
  <2>5. QED
    BY <2>2, <2>3, <2>4 DEF IInv
<1>16. ASSUME RestartCloseOld, CycleRoom
      PROVE  IInv'
  <2> USE <1>16 DEF RestartCloseOld, CloseSession, CycleRoom, cycleRest
  <2>1. loop' \in [Sessions -> {"none", "running", "stopping", "ended"}]
    BY DEF TypeOK
  <2>2. (up \subseteq signalOpen /\ signalOpen \subseteq 1..lastSession)'
    BY DEF TypeOK
  <2>3. rpc' \in CyclePoints
    BY DEF CyclePoints
  <2>4. TypeOK'
    BY <2>1, <2>2, <2>3, SMTT(30) DEF TypeOK
  <2>5. (NewSession /\ CycleFlag /\ OneReconnectTask)'
    BY <2>4 DEF TypeOK, NewSession, CycleFlag, OneReconnectTask
  <2>6. (Escalated /\ ApiInv)'
    BY <2>1, <2>2, <2>4
    DEF TypeOK, CycleFlag, Escalated, ApiInv, RestartPoints
  <2>7. QED
    BY <2>4, <2>5, <2>6 DEF IInv
<1>17. ASSUME RestartJoinOld, CycleRoom
      PROVE  IInv'
  <2> USE <1>17 DEF RestartJoinOld, CycleRoom, cycleRest
  <2>1. rpc' \in CyclePoints
    BY DEF CyclePoints
  <2>2. TypeOK'
    BY <2>1, SMTT(30) DEF TypeOK
  <2>3. (NewSession /\ CycleFlag /\ OneReconnectTask)'
    BY <2>2 DEF TypeOK, NewSession, CycleFlag, OneReconnectTask
  <2>4. (Escalated /\ ApiInv)'
    BY <2>2
    DEF TypeOK, CycleFlag, Escalated, ApiInv, RestartPoints
  <2>5. QED
    BY <2>2, <2>3, <2>4 DEF IInv
<1>18. ASSUME RestartConnect, CycleRoom
      PROVE  IInv'
  <2> USE <1>18 DEF RestartConnect, AttemptFails, Announce, CycleRoom,
                cycleRest
  <2>1. full_reconnect' = full_reconnect
    BY DEF TypeOK
  <2>2. ack' \in BOOLEAN
    BY DEF TypeOK
  <2>3. (up \subseteq signalOpen /\ signalOpen \subseteq 1..lastSession)'
    <3>1. /\ lastSession' \in Nat
          /\ 1..lastSession \subseteq 1..lastSession'
      BY DEF TypeOK
    <3>2. \/ UNCHANGED <<up, signalOpen, lastSession>>
          \/ /\ up' = up \cup {lastSession'}
             /\ signalOpen' = signalOpen \cup {lastSession'}
             /\ lastSession' > 0
      BY DEF TypeOK
    <3>3. up \subseteq signalOpen /\ signalOpen \subseteq 1..lastSession
      BY DEF TypeOK
    <3>4. lastSession' > 0 => lastSession' \in 1..lastSession'
      BY <3>1
    <3>5. CASE UNCHANGED <<up, signalOpen, lastSession>>
      BY <3>3, <3>5
    <3>6. QED
      BY <3>1, <3>2, <3>3, <3>4, <3>5
  <2>4. rpc' \in CyclePoints
    BY DEF CyclePoints
  <2>5. TypeOK'
    BY <2>1, <2>2, <2>3, <2>4, SMTT(30) DEF TypeOK
  <2>6. (NewSession /\ CycleFlag /\ OneReconnectTask)'
    BY <2>5 DEF TypeOK, NewSession, CycleFlag, OneReconnectTask
  <2>7. (Escalated /\ ApiInv)'
    BY <2>1, <2>2, <2>3, <2>5
    DEF TypeOK, CycleFlag, Escalated, ApiInv, RestartPoints
  <2>8. QED
    BY <2>5, <2>6, <2>7 DEF IInv
<1>19. ASSUME RestartWaitPc, CycleRoom
      PROVE  IInv'
  <2> USE <1>19 DEF RestartWaitPc, AttemptFails, CycleRoom, cycleRest
  <2>1. full_reconnect' = full_reconnect
    BY DEF TypeOK
  <2>2. loop' \in [Sessions -> {"none", "running", "stopping", "ended"}]
    BY DEF TypeOK
  <2>3. (up \subseteq signalOpen /\ signalOpen \subseteq 1..lastSession)'
    BY DEF TypeOK
  <2>4. rpc' \in CyclePoints
    BY DEF CyclePoints
  <2>5. TypeOK'
    BY <2>1, <2>2, <2>3, <2>4, SMTT(30) DEF TypeOK, NewSession
  <2>6. (NewSession /\ CycleFlag /\ OneReconnectTask)'
    BY <2>5 DEF TypeOK, NewSession, CycleFlag, OneReconnectTask
  <2>7. (Escalated /\ ApiInv)'
    BY <2>1, <2>2, <2>3, <2>5
    DEF TypeOK, CycleFlag, Escalated, ApiInv, RestartPoints
  <2>8. QED
    BY <2>5, <2>6, <2>7 DEF IInv
<1>20. ASSUME RestartAnnounce, CycleRoom
      PROVE  IInv'
  <2> USE <1>20 DEF RestartAnnounce, Announce, CycleRoom, cycleRest
  <2>1. ack' \in BOOLEAN
    BY DEF TypeOK
  <2>2. rpc' \in CyclePoints
    BY DEF CyclePoints
  <2>3. TypeOK'
    BY <2>1, <2>2, SMTT(30) DEF TypeOK
  <2>4. (NewSession /\ CycleFlag /\ OneReconnectTask)'
    BY <2>3 DEF TypeOK, NewSession, CycleFlag, OneReconnectTask
  <2>5. (Escalated /\ ApiInv)'
    BY <2>1, <2>3
    DEF TypeOK, CycleFlag, Escalated, ApiInv, RestartPoints
  <2>6. QED
    BY <2>3, <2>4, <2>5 DEF IInv
<1>21. ASSUME Resume, CycleRoom
      PROVE  IInv'
  <2> USE <1>21 DEF Resume, AttemptFails, Announce, CycleRoom, cycleRest
  <2>1. full_reconnect' \in BOOLEAN
    BY DEF TypeOK
  <2>2. full_reconnect => full_reconnect'
    BY DEF TypeOK
  <2>3. rpc' = "tick" => full_reconnect'
    BY DEF TypeOK
  <2>4. ack' \in BOOLEAN
    BY DEF TypeOK
  <2>5. (up \subseteq signalOpen /\ signalOpen \subseteq 1..lastSession)'
    BY DEF TypeOK
  <2>6. rpc' \in CyclePoints
    BY DEF CyclePoints
  <2>7. TypeOK'
    BY <2>1, <2>2, <2>3, <2>4, <2>5, <2>6, SMTT(30) DEF TypeOK
  <2>8. (NewSession /\ CycleFlag /\ OneReconnectTask)'
    BY <2>7 DEF TypeOK, NewSession, CycleFlag, OneReconnectTask
  <2>9. (Escalated /\ ApiInv)'
    BY <2>1, <2>2, <2>3, <2>4, <2>5, <2>7
    DEF TypeOK, CycleFlag, Escalated, ApiInv, RestartPoints
  <2>10. QED
    BY <2>7, <2>8, <2>9 DEF IInv
<1>22. ASSUME ResumeWait, CycleRoom
      PROVE  IInv'
  <2> USE <1>22 DEF ResumeWait, AttemptFails, Announce, CycleRoom, cycleRest
  <2>1. full_reconnect' \in BOOLEAN
    BY DEF TypeOK
  <2>2. full_reconnect => full_reconnect'
    BY DEF TypeOK
  <2>3. rpc' = "tick" => full_reconnect'
    BY DEF TypeOK
  <2>4. ack' \in BOOLEAN
    BY DEF TypeOK
  <2>5. rpc' \in CyclePoints
    BY DEF CyclePoints
  <2>6. TypeOK'
    BY <2>1, <2>2, <2>3, <2>4, <2>5, SMTT(30) DEF TypeOK
  <2>7. (NewSession /\ CycleFlag /\ OneReconnectTask)'
    BY <2>6 DEF TypeOK, NewSession, CycleFlag, OneReconnectTask
  <2>8. (Escalated /\ ApiInv)'
    BY <2>1, <2>2, <2>3, <2>4, <2>6
    DEF TypeOK, CycleFlag, Escalated, ApiInv, RestartPoints
  <2>9. QED
    BY <2>6, <2>7, <2>8 DEF IInv
<1>23. ASSUME Tick, CycleRoom
      PROVE  IInv'
  <2> USE <1>23 DEF Tick, CycleRoom, cycleRest
  <2>1. rpc' \in CyclePoints
    BY DEF CyclePoints
  <2>2. TypeOK'
    BY <2>1, SMTT(30) DEF TypeOK, Escalated
  <2>3. (NewSession /\ CycleFlag /\ OneReconnectTask)'
    BY <2>2 DEF TypeOK, NewSession, CycleFlag, OneReconnectTask
  <2>4. (Escalated /\ ApiInv)'
    BY <2>2
    DEF TypeOK, CycleFlag, Escalated, ApiInv, RestartPoints
  <2>5. QED
    BY <2>2, <2>3, <2>4 DEF IInv
<1>24. ASSUME CycleFailed, CycleRoom
      PROVE  IInv'
  <2> USE <1>24 DEF CycleFailed, CycleRoom, cycleRest
  <2>1. rpc' \in CyclePoints
    BY DEF CyclePoints
  <2>2. TypeOK'
    BY <2>1, SMTT(30) DEF TypeOK
  <2>3. (NewSession /\ CycleFlag /\ OneReconnectTask)'
    BY <2>2 DEF TypeOK, NewSession, CycleFlag, OneReconnectTask
  <2>4. (Escalated /\ ApiInv)'
    BY <2>2
    DEF TypeOK, CycleFlag, Escalated, ApiInv, RestartPoints
  <2>5. QED
    BY <2>2, <2>3, <2>4 DEF IInv
<1>25. ASSUME CycleClosed, CycleRoom
      PROVE  IInv'
  <2> USE <1>25 DEF CycleClosed, CycleRoom, cycleRest
  <2>1. rpc' \in CyclePoints
    BY DEF CyclePoints
  <2>2. TypeOK'
    BY <2>1, SMTT(30) DEF TypeOK
  <2>3. (NewSession /\ CycleFlag /\ OneReconnectTask)'
    BY <2>2 DEF TypeOK, NewSession, CycleFlag, OneReconnectTask
  <2>4. (Escalated /\ ApiInv)'
    BY <2>2
    DEF TypeOK, CycleFlag, Escalated, ApiInv, RestartPoints
  <2>5. QED
    BY <2>2, <2>3, <2>4 DEF IInv
<1>26. ASSUME CycleEnd, CycleRoom
      PROVE  IInv'
  <2> USE <1>26 DEF CycleEnd, CycleRoom, cycleRest
  <2>1. rpc' \in CyclePoints
    BY DEF CyclePoints
  <2>2. TypeOK'
    <3>1. reconnecting' \in BOOLEAN
      OBVIOUS
    <3>2. /\ handleVars' = <<closed, reconnecting', can_reconnect,
                            full_reconnect, session, engine_task>>
          /\ UNCHANGED <<loop, up, signalOpen, waiting, attempt, lastSession,
                         closer, api, ack>>
          /\ UNCHANGED <<room_state, room_task, room_close, missed>>
      BY DEF handleVars, taskVars, sessionVars
    <3>3. QED
      BY <2>1, <3>1, <3>2 DEF TypeOK, handleVars
  <2>3. (NewSession /\ CycleFlag /\ OneReconnectTask)'
    BY <2>2 DEF TypeOK, NewSession, CycleFlag, OneReconnectTask
  <2>4. (Escalated /\ ApiInv)'
    BY <2>2
    DEF TypeOK, CycleFlag, Escalated, ApiInv, RestartPoints
  <2>5. QED
    BY <2>2, <2>3, <2>4 DEF IInv
<1>27. ASSUME HandleResuming
      PROVE  IInv'
  <2> USE <1>27 DEF HandleResuming, Receive
  <2>1. TypeOK'
    BY DEF TypeOK
  <2>2. QED
    BY <2>1 DEF TypeOK, NewSession, CycleFlag, OneReconnectTask, Escalated,
                ApiInv
<1>28. ASSUME HandleSignalResumed
      PROVE  IInv'
  <2> USE <1>28 DEF HandleSignalResumed, Receive
  <2>1. TypeOK'
    BY DEF TypeOK
  <2>2. QED
    BY <2>1 DEF TypeOK, NewSession, CycleFlag, OneReconnectTask, Escalated,
                ApiInv
<1>29. ASSUME HandleResumed
      PROVE  IInv'
  <2> USE <1>29 DEF HandleResumed, Receive
  <2>1. TypeOK'
    BY DEF TypeOK
  <2>2. QED
    BY <2>1 DEF TypeOK, NewSession, CycleFlag, OneReconnectTask, Escalated,
                ApiInv
<1>30. ASSUME HandleRestarting
      PROVE  IInv'
  <2> USE <1>30 DEF HandleRestarting, Receive
  <2>1. TypeOK'
    BY DEF TypeOK
  <2>2. QED
    BY <2>1 DEF TypeOK, NewSession, CycleFlag, OneReconnectTask, Escalated,
                ApiInv
<1>31. ASSUME HandleSignalRestarted
      PROVE  IInv'
  <2> USE <1>31 DEF HandleSignalRestarted, Receive
  <2>1. TypeOK'
    BY DEF TypeOK
  <2>2. QED
    BY <2>1 DEF TypeOK, NewSession, CycleFlag, OneReconnectTask, Escalated,
                ApiInv
<1>32. ASSUME HandleRestarted
      PROVE  IInv'
  <2> USE <1>32 DEF HandleRestarted, Receive
  <2>1. TypeOK'
    BY DEF TypeOK
  <2>2. QED
    BY <2>1 DEF TypeOK, NewSession, CycleFlag, OneReconnectTask, Escalated,
                ApiInv
<1>33. ASSUME NEW reason \in Reasons, HandleDisconnected(reason)
      PROVE  IInv'
  <2> USE <1>33 DEF HandleDisconnected, Receive
  <2>1. TypeOK'
    BY DEF TypeOK
  <2>2. QED
    BY <2>1 DEF TypeOK, NewSession, CycleFlag, OneReconnectTask, Escalated,
                ApiInv
<1>34. ASSUME SyncStateSent
      PROVE  IInv'
  <2> USE <1>34 DEF SyncStateSent
  <2>1. TypeOK'
    BY DEF TypeOK
  <2>2. QED
    BY <2>1 DEF TypeOK, NewSession, CycleFlag, OneReconnectTask, Escalated,
                ApiInv
<1>35. ASSUME Republished
      PROVE  IInv'
  <2> USE <1>35 DEF Republished
  <2>1. TypeOK'
    BY DEF TypeOK
  <2>2. QED
    BY <2>1 DEF TypeOK, NewSession, CycleFlag, OneReconnectTask, Escalated,
                ApiInv
<1>36. ASSUME RoomClose
      PROVE  IInv'
  <2> USE <1>36 DEF RoomClose
  <2>1. TypeOK'
    BY DEF TypeOK
  <2>2. QED
    BY <2>1 DEF TypeOK, NewSession, CycleFlag, OneReconnectTask, Escalated,
                ApiInv
<1>37. ASSUME RoomTaskClose
      PROVE  IInv'
  <2> USE <1>37 DEF RoomTaskClose
  <2>1. TypeOK'
    BY DEF TypeOK
  <2>2. QED
    BY <2>1 DEF TypeOK, NewSession, CycleFlag, OneReconnectTask, Escalated,
                ApiInv
<1>38. ASSUME RoomTaskEnd
      PROVE  IInv'
  <2> USE <1>38 DEF RoomTaskEnd
  <2>1. TypeOK'
    BY DEF TypeOK
  <2>2. QED
    BY <2>1 DEF TypeOK, NewSession, CycleFlag, OneReconnectTask, Escalated,
                ApiInv
<1>39. ASSUME UNCHANGED vars
      PROVE  IInv'
  <2> USE <1>39 DEF vars, roomVars
  <2>1. TypeOK'
    BY DEF TypeOK
  <2>2. QED
    BY <2>1 DEF TypeOK, NewSession, CycleFlag, OneReconnectTask, Escalated,
                ApiInv
<1>40. QED
  BY <1>1, <1>2, <1>3, <1>4, <1>5, <1>6, <1>7, <1>8, <1>9, <1>10, <1>11,
     <1>12, <1>13, <1>14, <1>15, <1>16, <1>17, <1>18, <1>19, <1>20, <1>21,
     <1>22, <1>23, <1>24, <1>25, <1>26, <1>27, <1>28, <1>29,
     <1>30, <1>31, <1>32, <1>33, <1>34, <1>35, <1>36, <1>37, <1>38,
     <1>39
  DEF Next, Environment, EngineTaskStep, CloseStep, EngineCycle, CycleStep,
      CycleRoom, RoomRest, roomVars, HandleEvent

-----------------------------------------------------------------------------
LEMMA SpecIInv == Spec => []IInv
<1>1. Init => IInv
  BY InitIInv
<1>2. IInv /\ [Next]_vars => IInv'
  BY NextIInv
<1>3. QED
  BY <1>1, <1>2, PTL DEF Spec

\* Every variable keeps its type: in particular the current session is one
\* that was created, and the engine task in the handle is the current
\* session's or nobody's.
THEOREM TypeCorrect == Spec => []TypeOK
<1>1. IInv => TypeOK
  BY DEF IInv
<1>2. QED
  BY <1>1, SpecIInv, PTL

\* Whatever session events, calls of close() and reconnect cycles do, there is
\* at most one reconnect task.
THEOREM SingleReconnectTask == Spec => []OneReconnectTask
<1>1. IInv => OneReconnectTask
  BY DEF IInv
<1>2. QED
  BY <1>1, SpecIInv, PTL

\* A call that passed wait_reconnection works on the current session until it
\* releases the read guard.
THEOREM ApiCallsUseLatest == Spec => []ApiUsesLatest
<1>1. IInv => ApiUsesLatest
  BY DEF IInv, ApiInv, ApiUsesLatest
<1>2. QED
  BY <1>1, SpecIInv, PTL

-----------------------------------------------------------------------------
\* Only the reconnect task moves the reconnect task, and only an engine task
\* starts a cycle.
LEMMA OtherSteps ==
  ASSUME [Next]_vars
  PROVE  \/ EngineCycle
         \/ /\ UNCHANGED <<rpc, attempt>>
            /\ \/ UNCHANGED reconnecting
               \/ \E s \in Sessions : OnSessionEvent(s)
<1> USE DEF engineVars, engineRest, handleVars, taskVars
<1>1. CASE Environment /\ RoomRest
  BY <1>1 DEF Environment, Fault, ServerLeave, ApiBegin
<1>2. CASE \E a \in ApiCallers : ApiEnd(a) /\ RoomRest
  BY <1>2 DEF ApiEnd
<1>3. CASE \E s \in Sessions : EngineTaskStep(s) /\ RoomRest
  BY <1>3 DEF EngineTaskStep, OnSessionEvent, EngineTaskEnd
<1>4. CASE \E c \in Closers : CloseStep(c, CloseReason(c)) /\ RoomRest
  BY <1>4 DEF CloseStep, CloseTake, CloseCloseSession, CloseJoin, CloseEmit
<1>5. CASE HandleEvent
  BY <1>5 DEF HandleEvent, HandleResuming, HandleSignalResumed, HandleResumed,
              HandleRestarting, HandleSignalRestarted, HandleRestarted,
              HandleDisconnected
<1>6. CASE SyncStateSent \/ Republished \/ RoomClose
  BY <1>6 DEF SyncStateSent, Republished, RoomClose
<1>7. CASE RoomTaskClose \/ RoomTaskEnd
  BY <1>7 DEF RoomTaskClose, RoomTaskEnd
<1>8. CASE UNCHANGED vars
  BY <1>8 DEF vars
<1>9. QED
  BY <1>1, <1>2, <1>3, <1>4, <1>5, <1>6, <1>7, <1>8 DEF Next

\* A cycle resumes only in its first attempt: once it has decided for a full
\* reconnect, no stale event makes it resume.
THEOREM ResumesOnlyFirst == Spec => NeverDowngrades
<1>1. ASSUME IInv, [Next]_vars, rpc' = "resume", rpc # "resume"
      PROVE  attempt' = 1
  <2>1. EngineCycle
    BY <1>1, OtherSteps
  <2>2. CASE Attempt
    BY <1>1, <2>2 DEF Attempt, Announce, IInv, Escalated, TypeOK
  <2>3. CASE Acknowledged(Ready)
    BY <1>1, <2>3 DEF Acknowledged, IInv, Escalated
  <2>4. ~Attempt /\ ~Acknowledged(Ready) => FALSE
    BY <1>1, <2>1
    DEF EngineCycle, CycleStep, CycleStart, AttemptRefused, RestartTake,
        RestartCloseOld, RestartJoinOld, RestartConnect, RestartWaitPc,
        RestartAnnounce, Resume, ResumeWait, Tick, CycleFailed, CycleClosed,
        CycleEnd, Announce, AttemptFails
  <2>5. QED
    BY <2>2, <2>3, <2>4
<1>2. IInv /\ [Next]_vars =>
        [rpc' = "resume" /\ rpc # "resume" => attempt' = 1]_vars
  BY <1>1
<1>3. QED
  BY <1>2, SpecIInv, PTL DEF Spec, NeverDowngrades

\* "Disallow reconnection to avoid races": after the server asked to
\* disconnect no reconnect cycle starts.
NoCycleAfterDisconnect ==
  [][~can_reconnect => (reconnecting' => reconnecting)]_vars

\* The property holds, by the guards of the steps alone.
THEOREM DisconnectIsFinal == Spec => NoCycleAfterDisconnect
<1>1. ASSUME [Next]_vars, ~can_reconnect, reconnecting'
      PROVE  reconnecting
  <2>1. CASE EngineCycle
    BY <1>1, <2>1
    DEF EngineCycle, CycleStep, CycleStart, Attempt, Acknowledged,
        AttemptRefused, RestartTake, RestartCloseOld, RestartJoinOld,
        RestartConnect, RestartWaitPc, RestartAnnounce, Resume, ResumeWait,
        Tick, CycleFailed, CycleClosed, CycleEnd
  <2>2. ASSUME NEW s \in Sessions, OnSessionEvent(s)
        PROVE  reconnecting
    BY <1>1, <2>2 DEF OnSessionEvent, ReconnectionNeeded
  <2>3. QED
    BY <1>1, <2>1, <2>2, OtherSteps
<1>2. [Next]_vars => [~can_reconnect => (reconnecting' => reconnecting)]_vars
  BY <1>1
<1>3. QED
  BY <1>2, PTL DEF Spec, NoCycleAfterDisconnect

-----------------------------------------------------------------------------
(***************************************************************************)
(* The engine reconnects as Reconnection says                              *)
(***************************************************************************)

\* The session being connected is newer than the one in use, and whoever has
\* begun to close the engine has marked it closed.
SettleInv ==
  /\ rpc \in {"signal_restarted", "wait_pc"} => session < new_session
  /\ \A c \in Closers :
       closer[c] \in {"session", "join", "emit", "done"} => closed

LEMMA NextSettleInv ==
  ASSUME IInv, SettleInv, [Next]_vars
  PROVE  SettleInv'
<1> USE DEF engineVars, engineRest, handleVars, sessionVars, taskVars,
        closeVars, envVars, cycleRest
<1>0. TypeOK /\ "cycle" \in Closers /\ "server" \in Closers
      /\ "room" \in Closers
  BY DEF IInv, Closers
<1>1. CASE EngineCycle
  <2>1. rpc' \in {"signal_restarted", "wait_pc"} => session' < new_session'
    BY <1>0, <1>1 DEF EngineCycle, CycleStep, CycleStart, Attempt,
       Acknowledged, AttemptRefused, RestartTake, RestartCloseOld,
       RestartJoinOld, RestartConnect, RestartWaitPc, RestartAnnounce, Resume,
       ResumeWait, Tick, CycleFailed, CycleClosed, CycleEnd, Announce,
       AttemptFails, SettleInv, TypeOK
  <2>2. closed' = closed
    BY <1>1 DEF EngineCycle, CycleStep, CycleStart, Attempt,
       Acknowledged, AttemptRefused, RestartTake, RestartCloseOld,
       RestartJoinOld, RestartConnect, RestartWaitPc, RestartAnnounce, Resume,
       ResumeWait, Tick, CycleFailed, CycleClosed, CycleEnd
  <2>3. \/ closer' = closer
        \/ closer' = [closer EXCEPT !["cycle"] = "take"]
        \/ closer' = [closer EXCEPT !["cycle"] = "idle"]
    BY <1>1 DEF EngineCycle, CycleStep, CycleStart, Attempt,
       Acknowledged, AttemptRefused, RestartTake, RestartCloseOld,
       RestartJoinOld, RestartConnect, RestartWaitPc, RestartAnnounce, Resume,
       ResumeWait, Tick, CycleFailed, CycleClosed, CycleEnd
  <2> QED
    BY <1>0, <2>1, <2>2, <2>3 DEF SettleInv, TypeOK
<1>2. ASSUME NEW s \in Sessions, OnSessionEvent(s) PROVE SettleInv'
  BY <1>0, <1>2 DEF OnSessionEvent, SettleInv, TypeOK
<1>3. ASSUME NEW c \in Closers, CloseStep(c, CloseReason(c)) PROVE SettleInv'
  BY <1>0, <1>3 DEF CloseStep, CloseTake, CloseCloseSession, CloseJoin,
     CloseEmit, SettleInv, TypeOK
<1>4. CASE RoomClose
  BY <1>0, <1>4 DEF RoomClose, SettleInv, TypeOK
<1>5. CASE UNCHANGED <<rpc, session, new_session, closer, closed>>
  BY <1>5 DEF SettleInv
<1>6. CASE \/ Environment
           \/ \E a \in ApiCallers : ApiEnd(a)
           \/ \E s \in Sessions : EngineTaskEnd(s)
  BY <1>5, <1>6 DEF Environment, Fault, ServerLeave, ApiBegin, ApiEnd,
     EngineTaskEnd
<1>7. CASE HandleEvent
  BY <1>5, <1>7 DEF HandleEvent, HandleResuming, HandleSignalResumed,
     HandleResumed, HandleRestarting, HandleSignalRestarted, HandleRestarted,
     HandleDisconnected
<1>8. CASE \/ SyncStateSent \/ Republished \/ RoomTaskClose \/ RoomTaskEnd
           \/ UNCHANGED vars
  BY <1>5, <1>8 DEF SyncStateSent, Republished, RoomTaskClose, RoomTaskEnd,
     vars
<1> QED
  BY <1>1, <1>2, <1>3, <1>4, <1>6, <1>7, <1>8 DEF Next, EngineTaskStep

\* The steps of the reconnect task, seen from outside.
LEMMA CycleKeeps ==
  ASSUME IInv, SettleInv, EngineCycle
  PROVE  [Cycles!ReconnectionNext]_(Cycles!reconnectionVars)
<1> USE DEF handleVars, sessionVars, taskVars, closeVars, envVars, cycleRest,
        Cycles!reconnectionVars
<1>0. TypeOK /\ CycleFlag /\ OneReconnectTask /\ Escalated /\ ApiInv
      /\ NewSession
  BY DEF IInv
<1> DEFINE Users == {a \in ApiCallers : api[a] # None}
<1>1. rpc # "idle" => reconnecting /\ Users = {}
  BY <1>0 DEF CycleFlag, ApiInv
<1>2. CASE CycleStart
  BY <1>0, <1>2 DEF CycleStart, CycleFlag, Phase
<1>3. CASE Attempt
  <2>1. UNCHANGED <<can_reconnect, closed, session, up, api, reconnecting,
                    full_reconnect>>
    BY <1>3 DEF Attempt
  <2>2. Phase' = Phase
    BY <1>1, <1>3 DEF Attempt, Announce, Phase
  <2> QED
    BY <2>1, <2>2
<1>4. CASE Acknowledged(Ready)
  <2>1. UNCHANGED <<can_reconnect, closed, session, up, api, reconnecting,
                    full_reconnect>>
    BY <1>4 DEF Acknowledged
  <2>2. Phase' = Phase
    BY <1>1, <1>4 DEF Acknowledged, Phase
  <2> QED
    BY <2>1, <2>2
<1>5. CASE AttemptRefused
  <2>1. /\ UNCHANGED <<closed, session, up, api, reconnecting, full_reconnect>>
        /\ can_reconnect' = FALSE
    BY <1>5 DEF AttemptRefused
  <2>2. Phase' = Phase \/ (Phase = "resume" /\ Phase' = "restart")
    BY <1>0, <1>1, <1>5 DEF AttemptRefused, Phase, Escalated, RestartPoints
  <2>3. CASE can_reconnect
    <3>1. Cycles!Forbid
      BY <2>1, <2>2, <2>3 DEF Cycles!Forbid
    <3> QED
      BY <3>1 DEF Cycles!ReconnectionNext
  <2>4. CASE ~can_reconnect
    <3>1. can_reconnect' = can_reconnect
      BY <1>0, <2>1, <2>4 DEF TypeOK
    <3>2. Cycles!Escalate \/ UNCHANGED Cycles!reconnectionVars
      BY <2>1, <2>2, <3>1 DEF Cycles!Escalate
    <3> QED
      BY <3>2 DEF Cycles!ReconnectionNext
  <2> QED
    BY <2>3, <2>4
<1>6. CASE RestartTake \/ RestartJoinOld
  <2>1. UNCHANGED <<can_reconnect, closed, session, up, api, reconnecting,
                    full_reconnect>>
    BY <1>6 DEF RestartTake, RestartJoinOld
  <2>2. Phase' = Phase
    BY <1>1, <1>6 DEF RestartTake, RestartJoinOld, Phase
  <2> QED
    BY <2>1, <2>2
<1>7. CASE RestartCloseOld
  <2>1. /\ UNCHANGED <<can_reconnect, closed, session, api, reconnecting,
                       full_reconnect>>
        /\ up' \subseteq up
    BY <1>7 DEF RestartCloseOld, CloseSession
  <2>2. Phase' = Phase
    BY <1>1, <1>7 DEF RestartCloseOld, Phase
  <2> QED
    BY <2>1, <2>2 DEF Cycles!Break, Cycles!ReconnectionNext
<1>8. CASE RestartConnect
  <2>1. /\ UNCHANGED <<can_reconnect, closed, session, api, reconnecting>>
        /\ full_reconnect /\ full_reconnect'
        /\ up' = up \/ up' = up \cup {lastSession + 1}
    BY <1>0, <1>8 DEF RestartConnect, AttemptFails, Escalated, RestartPoints
  <2>2. session # lastSession + 1
    BY <1>0 DEF TypeOK
  <2>3. (session \in up') = (session \in up)
    BY <2>1, <2>2
  <2>4. Phase' = Phase
    BY <1>1, <1>8, <2>1 DEF RestartConnect, Announce, AttemptFails, Phase
  <2> QED
    BY <2>1, <2>3, <2>4
<1>9. CASE RestartWaitPc
  <2>1. /\ UNCHANGED <<can_reconnect, closed, api, reconnecting>>
        /\ rpc = "wait_pc" /\ full_reconnect /\ full_reconnect'
    BY <1>0, <1>9 DEF RestartWaitPc, AttemptFails, Escalated, RestartPoints
  <2>2. Phase = "restart"
    BY <1>1, <2>1 DEF Phase
  <2>3. session < new_session /\ session \in Nat /\ new_session \in Nat
    BY <1>0, <2>1 DEF SettleInv, TypeOK, NewSession
  <2>4. CASE rpc' = "installed"
    <3>1. session' = new_session /\ new_session \in up /\ up' = up
      BY <1>9, <2>4 DEF RestartWaitPc, AttemptFails
    <3>2. Phase' = "settled"
      BY <1>1, <2>1, <2>4 DEF Phase
    <3>3. Cycles!Restarted
      BY <1>1, <2>1, <2>2, <2>3, <3>1, <3>2 DEF Cycles!Restarted
    <3> QED
      BY <3>3 DEF Cycles!ReconnectionNext
  <2>5. CASE rpc' = "tick"
    <3>1. session' = session /\ up' = up \ {new_session}
      BY <1>9, <2>5 DEF RestartWaitPc
    <3>2. Phase' = "restart"
      BY <1>1, <2>1, <2>5 DEF Phase
    <3> QED
      BY <2>1, <2>2, <2>3, <3>1, <3>2
  <2> QED
    BY <1>9, <2>4, <2>5 DEF RestartWaitPc, AttemptFails
<1>10. CASE RestartAnnounce
  <2>1. UNCHANGED <<can_reconnect, closed, session, up, api, reconnecting,
                    full_reconnect>>
    BY <1>10 DEF RestartAnnounce
  <2>2. Phase' = Phase
    BY <1>1, <1>10 DEF RestartAnnounce, Announce, Phase
  <2> QED
    BY <2>1, <2>2
<1>11. CASE Resume
  <2>1. /\ UNCHANGED <<can_reconnect, closed, session, api, reconnecting>>
        /\ rpc = "resume"
        /\ \/ rpc' = "signal_resumed" /\ up' \in {up, up \cup {session}}
           \/ rpc' = "tick" /\ up' = up /\ full_reconnect'
    BY <1>11 DEF Resume, Announce, AttemptFails
  <2>2. Phase = "resume"
    BY <1>1, <2>1 DEF Phase
  <2>3. CASE rpc' = "signal_resumed"
    <3>1. Phase' = "resume"
      BY <1>1, <2>1, <2>3 DEF Phase
    <3> QED
      BY <2>1, <2>2, <2>3, <3>1 DEF Cycles!Reopen, Cycles!ReconnectionNext
  <2>4. CASE rpc' = "tick"
    <3>1. Phase' = "restart"
      BY <1>1, <2>1, <2>4 DEF Phase
    <3> QED
      BY <2>1, <2>2, <2>4, <3>1 DEF Cycles!Escalate, Cycles!ReconnectionNext
  <2> QED
    BY <2>1, <2>3, <2>4
<1>12. CASE ResumeWait
  <2>1. /\ UNCHANGED <<can_reconnect, closed, session, up, api, reconnecting>>
        /\ rpc = "wait_resumed"
        /\ \/ rpc' = "resumed" /\ session \in up
           \/ rpc' = "tick" /\ full_reconnect'
    BY <1>12 DEF ResumeWait, Announce, AttemptFails
  <2>2. Phase = "resume"
    BY <1>1, <2>1 DEF Phase
  <2>3. CASE rpc' = "resumed" /\ session \in up
    <3>1. Phase' = "settled"
      BY <1>1, <2>1, <2>3 DEF Phase
    <3> QED
      BY <1>1, <2>1, <2>2, <2>3, <3>1
         DEF Cycles!Resumed, Cycles!ReconnectionNext
  <2>4. CASE rpc' = "tick" /\ full_reconnect'
    <3>1. Phase' = "restart"
      BY <1>1, <2>1, <2>4 DEF Phase
    <3> QED
      BY <2>1, <2>2, <2>4, <3>1 DEF Cycles!Escalate, Cycles!ReconnectionNext
  <2> QED
    BY <2>1, <2>3, <2>4
<1>13. CASE Tick \/ CycleFailed
  <2>1. UNCHANGED <<can_reconnect, closed, session, up, api, reconnecting,
                    full_reconnect>>
    BY <1>13 DEF Tick, CycleFailed
  <2>2. Phase' = Phase
    BY <1>1, <1>13 DEF Tick, CycleFailed, Phase
  <2> QED
    BY <2>1, <2>2
<1>14. CASE CycleClosed
  <2>1. /\ UNCHANGED <<can_reconnect, closed, session, up, api, reconnecting,
                       full_reconnect>>
        /\ closer["cycle"] = "done"
        /\ \/ rpc = "refused" /\ rpc' = "failed"
           \/ rpc = "closing" /\ rpc' = "finish"
    BY <1>14 DEF CycleClosed
  <2>2. closed
    BY <2>1 DEF SettleInv, Closers
  <2>3. CASE rpc = "refused" /\ rpc' = "failed"
    <3>1. Phase' = Phase
      BY <1>1, <2>1, <2>3 DEF Phase
    <3> QED
      BY <2>1, <3>1
  <2>4. CASE rpc = "closing" /\ rpc' = "finish"
    <3>1. Phase \in {"resume", "restart"} /\ Phase' = "settled"
      BY <1>1, <2>1, <2>4 DEF Phase
    <3> QED
      BY <2>1, <2>2, <3>1 DEF Cycles!GiveUp, Cycles!ReconnectionNext
  <2> QED
    BY <2>1, <2>3, <2>4
<1>15. CASE CycleEnd
  <2>1. UNCHANGED <<can_reconnect, closed, session, up, api>>
    BY <1>15 DEF CycleEnd
  <2>2. Phase = "settled" /\ Phase' = "idle"
    BY <1>1, <1>15 DEF CycleEnd, Phase
  <2> QED
    BY <2>1, <2>2 DEF Cycles!End, Cycles!ReconnectionNext
<1> QED
  BY <1>2, <1>3, <1>4, <1>5, <1>6, <1>7, <1>8, <1>9, <1>10, <1>11, <1>12,
     <1>13, <1>14, <1>15 DEF EngineCycle, CycleStep

\* The steps of everybody else.
LEMMA OthersKeep ==
  ASSUME IInv, [Next]_vars, ~EngineCycle
  PROVE  [Cycles!ReconnectionNext]_(Cycles!reconnectionVars)
<1> USE DEF engineVars, engineRest, handleVars, sessionVars, taskVars,
        closeVars, envVars, Cycles!reconnectionVars
<1>0. TypeOK /\ CycleFlag
  BY DEF IInv
<1>1. CASE UNCHANGED <<rpc, reconnecting, full_reconnect, can_reconnect,
                       closed, session, up, api>>
  BY <1>1 DEF Phase
<1>2. ASSUME NEW s \in Sessions, NEW action \in {"Resume", "Reconnect"},
             Fault(s, action) \/ ServerLeave(s)
      PROVE  [Cycles!ReconnectionNext]_(Cycles!reconnectionVars)
  <2>1. /\ UNCHANGED <<rpc, reconnecting, full_reconnect, can_reconnect, closed,
                       session, api>>
        /\ up' \subseteq up
    BY <1>2 DEF Fault, ServerLeave
  <2>2. Phase' = Phase
    BY <2>1 DEF Phase
  <2> QED
    BY <2>1, <2>2 DEF Cycles!Break, Cycles!ReconnectionNext
<1>3. ASSUME NEW a \in ApiCallers, ApiBegin(a) \/ ApiEnd(a)
      PROVE  [Cycles!ReconnectionNext]_(Cycles!reconnectionVars)
  <2> DEFINE Users == {b \in ApiCallers : api[b] # None}
  <2>1. UNCHANGED <<rpc, reconnecting, full_reconnect, can_reconnect, closed,
                    session, up>>
    BY <1>3 DEF ApiBegin, ApiEnd
  <2>2. Phase' = Phase
    BY <2>1 DEF Phase
  <2>3. CASE ApiBegin(a)
    <3>1. Phase = "idle" /\ ~closed
      BY <1>0, <2>3 DEF ApiBegin, CycleFlag, Phase
    <3>2. a \notin Users /\ Users' = Users \cup {a}
      BY <1>0, <2>3 DEF ApiBegin, TypeOK, None
    <3>3. Cycles!Enter(a)
      BY <2>1, <2>2, <3>1, <3>2 DEF Cycles!Enter
    <3> QED
      BY <3>3 DEF Cycles!ReconnectionNext
  <2>4. CASE ApiEnd(a)
    <3>1. a \in Users /\ Users' = Users \ {a}
      BY <1>0, <2>4 DEF ApiEnd, TypeOK, None
    <3>2. Cycles!Leave(a)
      BY <2>1, <2>2, <3>1 DEF Cycles!Leave
    <3> QED
      BY <3>2 DEF Cycles!ReconnectionNext
  <2> QED
    BY <1>3, <2>3, <2>4
<1>4. ASSUME NEW s \in Sessions, OnSessionEvent(s)
      PROVE  [Cycles!ReconnectionNext]_(Cycles!reconnectionVars)
  <2>1. UNCHANGED <<rpc, closed, session, up, api>>
    BY <1>4 DEF OnSessionEvent
  <2>2. CASE can_reconnect' = can_reconnect
    <3>1. \/ UNCHANGED <<reconnecting, full_reconnect>>
          \/ /\ reconnecting /\ reconnecting'
             /\ full_reconnect => full_reconnect'
          \/ can_reconnect /\ ~reconnecting /\ reconnecting'
      BY <1>0, <1>4 DEF OnSessionEvent, ReconnectionNeeded, TypeOK
    <3>2. CASE UNCHANGED <<reconnecting, full_reconnect>>
      BY <1>1, <2>1, <2>2, <3>2
    <3>3. CASE /\ reconnecting /\ reconnecting'
               /\ full_reconnect => full_reconnect'
      <4>1. Phase' = Phase \/ (Phase = "resume" /\ Phase' = "restart")
        BY <2>1, <3>3 DEF Phase
      <4> QED
        BY <2>1, <2>2, <4>1 DEF Cycles!Escalate, Cycles!ReconnectionNext
    <3>4. CASE can_reconnect /\ ~reconnecting /\ reconnecting'
      <4>1. rpc = "idle"
        BY <1>0, <3>4 DEF CycleFlag
      <4>2. Phase = "idle" /\ Phase' \in {"resume", "restart"}
        BY <2>1, <3>4, <4>1 DEF Phase
      <4> QED
        BY <2>1, <2>2, <3>4, <4>2 DEF Cycles!Begin, Cycles!ReconnectionNext
    <3> QED
      BY <3>1, <3>2, <3>3, <3>4
  <2>3. CASE can_reconnect' # can_reconnect
    <3>1. /\ can_reconnect /\ can_reconnect' = FALSE
          /\ UNCHANGED <<reconnecting, full_reconnect>>
      BY <1>0, <1>4, <2>3 DEF OnSessionEvent, TypeOK
    <3>2. Phase' = Phase
      BY <2>1, <3>1 DEF Phase
    <3> QED
      BY <2>1, <3>1, <3>2 DEF Cycles!Forbid, Cycles!ReconnectionNext
  <2> QED
    BY <2>2, <2>3
<1>5. ASSUME NEW c \in Closers, CloseStep(c, CloseReason(c))
      PROVE  [Cycles!ReconnectionNext]_(Cycles!reconnectionVars)
  <2>1. /\ UNCHANGED <<rpc, reconnecting, full_reconnect, can_reconnect,
                       session, api>>
        /\ \/ closed' = closed /\ up' \subseteq up
           \/ closed' = TRUE /\ up' = up
    BY <1>5 DEF CloseStep, CloseTake, CloseCloseSession, CloseSession,
       CloseJoin, CloseEmit
  <2>2. Phase' = Phase
    BY <2>1 DEF Phase
  <2> QED
    BY <1>0, <2>1, <2>2
       DEF Cycles!Break, Cycles!Close, Cycles!ReconnectionNext, TypeOK
<1>6. CASE \E s \in Sessions : EngineTaskEnd(s)
  BY <1>1, <1>6 DEF EngineTaskEnd
<1>7. CASE HandleEvent
  BY <1>1, <1>7 DEF HandleEvent, HandleResuming, HandleSignalResumed,
     HandleResumed, HandleRestarting, HandleSignalRestarted, HandleRestarted,
     HandleDisconnected
<1>8. CASE \/ SyncStateSent \/ Republished \/ RoomClose \/ RoomTaskClose
           \/ RoomTaskEnd
           \/ UNCHANGED vars
  BY <1>1, <1>8 DEF SyncStateSent, Republished, RoomClose, RoomTaskClose,
     RoomTaskEnd, vars
<1> QED
  BY <1>2, <1>3, <1>4, <1>5, <1>6, <1>7, <1>8
     DEF Next, Environment, EngineTaskStep

\* Engine and Room implement Reconnection, for any number of faults, attempts
\* and API callers.
THEOREM EngineImplements == Spec => KeepsReconnection
<1>1. Init => Cycles!ReconnectionInit /\ SettleInv
  BY DEF Init, EngineInit, Phase, SettleInv, Cycles!ReconnectionInit
<1>2. IInv /\ SettleInv /\ [Next]_vars => SettleInv'
  BY NextSettleInv
<1>3. IInv /\ SettleInv /\ [Next]_vars
        => [Cycles!ReconnectionNext]_(Cycles!reconnectionVars)
  BY CycleKeeps, OthersKeep
<1>4. QED
  BY <1>1, <1>2, <1>3, SpecIInv, PTL
     DEF Spec, KeepsReconnection, Cycles!ReconnectionSpec

-----------------------------------------------------------------------------
(***************************************************************************)
(* Announcements: the events that the reconnect task sends and waits for   *)
(***************************************************************************)

\* What is announced, and where its acknowledgement is awaited.
Announcements ==
  {<<"Restarting", "restarting">>, <<"SignalRestarted", "signal_restarted">>,
   <<"Restarted", "restarted">>, <<"Resuming", "resuming">>,
   <<"SignalResumed", "signal_resumed">>, <<"Resumed", "resumed">>}

Events == {"Restarting", "SignalRestarted", "Restarted", "Resuming",
           "SignalResumed", "Resumed"} \cup Reasons

AwaitPoints == {"restarting", "signal_restarted", "restarted", "resuming",
                "signal_resumed", "resumed"}

\* While the room task runs, at most one announcement is under way: the one
\* whose acknowledgement the reconnect task awaits.
OneAnnouncement ==
  /\ \A i \in 1..Len(engine_tx) :
       engine_tx[i] \notin Reasons =>
         <<engine_tx[i], rpc>> \in Announcements /\ ~ack /\ ~syncing
  /\ \A i, j \in 1..Len(engine_tx) :
       engine_tx[i] \notin Reasons /\ engine_tx[j] \notin Reasons => i = j
  /\ syncing => rpc = "signal_resumed" /\ ~ack

EventInv ==
  /\ engine_tx \in Seq(Events)
  /\ syncing \in BOOLEAN
  /\ room_task # "stopped" => OneAnnouncement

LEMMA EventKinds ==
  /\ \A ann \in Announcements : /\ ann[1] \in Events \ Reasons
                                /\ ann[2] \in AwaitPoints
  /\ Reasons \subseteq Events
  BY DEF Announcements, Events, AwaitPoints, Reasons

\* Queues of events.
LEMMA EventQueue ==
  ASSUME NEW S, NEW q \in Seq(S)
  PROVE  /\ Len(q) \in Nat
         /\ \A i \in 1..Len(q) : q[i] \in S
         /\ q # <<>> => /\ Tail(q) \in Seq(S)
                        /\ Head(q) = q[1] /\ 1 \in 1..Len(q)
                        /\ \A i \in 1..Len(Tail(q)) :
                             /\ i + 1 \in 1..Len(q) /\ i + 1 # 1
                             /\ Tail(q)[i] = q[i + 1]
         /\ \A e \in S : /\ Append(q, e) \in Seq(S)
                         /\ Len(Append(q, e)) = Len(q) + 1
                         /\ Append(q, e)[Len(q) + 1] = e
                         /\ \A i \in 1..Len(q) : Append(q, e)[i] = q[i]
  OBVIOUS

\* Nothing is announced while nothing is awaited.
LEMMA NothingAnnounced ==
  ASSUME OneAnnouncement, rpc \notin AwaitPoints \/ ack
  PROVE  /\ \A i \in 1..Len(engine_tx) : engine_tx[i] \in Reasons
         /\ ~syncing
  BY EventKinds DEF OneAnnouncement, AwaitPoints

\* The step of the reconnect task, as far as announcements are concerned.
LEMMA CycleEvents ==
  ASSUME EngineCycle
  PROVE  /\ UNCHANGED <<room_task, syncing>>
         /\ \/ UNCHANGED <<engine_tx, ack>> /\ (rpc \notin AwaitPoints \/ Ready)
            \/ \E ann \in Announcements :
                 Announce(ann[1], ann[2]) /\ rpc \notin AwaitPoints
<1> USE DEF EngineCycle, RoomRest, roomVars, AwaitPoints
<1>1. UNCHANGED <<room_task, syncing>>
  OBVIOUS
<1> DEFINE Quiet == UNCHANGED <<engine_tx, ack>>
                      /\ (rpc \notin AwaitPoints \/ Ready)
           Announced == \E ann \in Announcements :
                          Announce(ann[1], ann[2]) /\ rpc \notin AwaitPoints
<1>2. CASE \/ CycleStart \/ AttemptRefused \/ RestartTake \/ RestartCloseOld
           \/ RestartJoinOld \/ RestartWaitPc \/ Tick \/ CycleFailed
           \/ CycleEnd
  BY <1>2 DEF CycleStart, WriteLockFree, AttemptRefused, RestartTake,
              RestartCloseOld, RestartJoinOld, RestartWaitPc, Tick,
              CycleFailed, CycleEnd
<1>3. CASE CycleClosed
  BY <1>3 DEF CycleClosed
<1>4. CASE Acknowledged(Ready)
  BY <1>4 DEF Acknowledged
<1>5. CASE Attempt
  BY <1>5 DEF Attempt, Announcements
<1>6. CASE RestartConnect
  BY <1>6 DEF RestartConnect, Announcements
<1>7. CASE RestartAnnounce
  BY <1>7 DEF RestartAnnounce, Announcements
<1>8. CASE Resume
  BY <1>8 DEF Resume, Announcements
<1>9. CASE ResumeWait
  BY <1>9 DEF ResumeWait, Announcements
<1>10. QED
  BY <1>1, <1>2, <1>3, <1>4, <1>5, <1>6, <1>7, <1>8, <1>9 DEF CycleStep

\* What the room task does with an event.
LEMMA HandlerEvents ==
  ASSUME HandleEvent
  PROVE  /\ room_task \in {"running", "closing"} /\ UNCHANGED <<room_task, rpc>>
         /\ engine_tx # <<>> /\ engine_tx' = Tail(engine_tx)
         /\ \/ Head(engine_tx) \in Reasons /\ UNCHANGED <<ack, syncing>>
            \/ /\ Head(engine_tx) = "SignalResumed"
               /\ syncing' = TRUE /\ UNCHANGED ack
            \/ /\ Head(engine_tx) \in Events \ Reasons
               /\ ack' = TRUE /\ UNCHANGED syncing
<1> USE DEF Receive, engineRest, taskVars
<1>1. CASE HandleResuming \/ HandleResumed \/ HandleRestarting
  BY <1>1 DEF HandleResuming, HandleResumed, HandleRestarting, Events, Reasons
<1>2. CASE HandleSignalRestarted \/ HandleRestarted
  BY <1>2 DEF HandleSignalRestarted, HandleRestarted, Events, Reasons
<1>3. CASE HandleSignalResumed
  BY <1>3 DEF HandleSignalResumed
<1>4. CASE \E reason \in Reasons : HandleDisconnected(reason)
  BY <1>4 DEF HandleDisconnected
<1>5. QED
  BY <1>1, <1>2, <1>3, <1>4 DEF HandleEvent

\* The other steps: they leave announcements alone, but for the end of the
\* task that sends the sync state and the end of the room task.
LEMMA OtherEvents ==
  ASSUME [Next]_vars
  PROVE  \/ EngineCycle
         \/ HandleEvent
         \/ SyncStateSent
         \/ RoomTaskEnd
         \/ /\ UNCHANGED <<rpc, ack, syncing>>
            /\ room_task' = "stopped" => room_task = "stopped"
            /\ room_task = "stopped" => room_task' = "stopped"
            /\ \/ UNCHANGED engine_tx
               \/ \E reason \in Reasons : Emit(reason)
<1> USE DEF engineVars, engineRest, handleVars, taskVars, RoomRest, roomVars
<1>1. CASE Environment /\ RoomRest
  BY <1>1 DEF Environment, Fault, ServerLeave, ApiBegin
<1>2. CASE \E a \in ApiCallers : ApiEnd(a) /\ RoomRest
  BY <1>2 DEF ApiEnd
<1>3. CASE \E s \in Sessions : EngineTaskStep(s) /\ RoomRest
  BY <1>3 DEF EngineTaskStep, OnSessionEvent, EngineTaskEnd
<1>4. ASSUME NEW c \in Closers, CloseStep(c, CloseReason(c)), RoomRest
      PROVE  /\ UNCHANGED <<rpc, ack, attempt>>
             /\ \/ UNCHANGED engine_tx
                \/ \E reason \in Reasons : Emit(reason)
  <2>1. CloseReason(c) \in Reasons
    BY DEF CloseReason, Reasons
  <2>2. QED
    BY <1>4, <2>1
    DEF CloseStep, CloseTake, CloseCloseSession, CloseJoin, CloseEmit
<1>5. CASE Republished \/ RoomClose
  BY <1>5 DEF Republished, RoomClose
<1>6. CASE RoomTaskClose
  BY <1>6 DEF RoomTaskClose
<1>7. CASE UNCHANGED vars
  BY <1>7 DEF vars
<1>8. QED
  BY <1>1, <1>2, <1>3, <1>4, <1>5, <1>6, <1>7 DEF Next

LEMMA NextEventInv ==
  ASSUME EventInv, [Next]_vars
  PROVE  EventInv'
<1>0. engine_tx \in Seq(Events) /\ syncing \in BOOLEAN
  BY DEF EventInv
<1>1. CASE EngineCycle
  <2>1. UNCHANGED <<room_task, syncing>>
    BY <1>1, CycleEvents
  <2>2. ASSUME room_task # "stopped", rpc \notin AwaitPoints \/ Ready
        PROVE  /\ \A i \in 1..Len(engine_tx) : engine_tx[i] \in Reasons
               /\ ~syncing
    BY <2>2, NothingAnnounced DEF EventInv, Ready
  <2>3. CASE UNCHANGED <<engine_tx, ack>> /\ (rpc \notin AwaitPoints \/ Ready)
    BY <1>0, <2>1, <2>2, <2>3 DEF EventInv, OneAnnouncement
  <2>4. ASSUME NEW ann \in Announcements, Announce(ann[1], ann[2]),
               rpc \notin AwaitPoints
        PROVE  EventInv'
    <3>1. /\ engine_tx' = Append(engine_tx, ann[1])
          /\ rpc' = ann[2] /\ ack' = FALSE
      BY <2>4 DEF Announce, Emit
    <3>2. ann[1] \in Events /\ ann = <<ann[1], ann[2]>>
      BY EventKinds DEF Announcements
    <3>3. /\ engine_tx' \in Seq(Events) /\ Len(engine_tx) \in Nat
          /\ Len(engine_tx') = Len(engine_tx) + 1
          /\ engine_tx'[Len(engine_tx) + 1] = ann[1]
          /\ \A i \in 1..Len(engine_tx) : engine_tx'[i] = engine_tx[i]
      BY <1>0, <3>1, <3>2, EventQueue
    <3>4. ASSUME room_task' # "stopped" PROVE OneAnnouncement'
      <4>1. /\ \A i \in 1..Len(engine_tx) : engine_tx[i] \in Reasons
            /\ ~syncing
        BY <2>1, <2>2, <2>4, <3>4
      <4>2. \A i \in 1..Len(engine_tx') :
              engine_tx'[i] \notin Reasons => i = Len(engine_tx) + 1
        BY <3>3, <4>1
      <4>3. QED
        BY <2>1, <3>1, <3>2, <3>3, <4>1, <4>2 DEF OneAnnouncement
    <3>5. QED
      BY <1>0, <2>1, <3>3, <3>4 DEF EventInv
  <2>5. QED
    BY <1>1, <2>3, <2>4, CycleEvents
<1>2. CASE HandleEvent
  <2>1. /\ room_task \in {"running", "closing"}
        /\ UNCHANGED <<room_task, rpc>>
        /\ engine_tx # <<>> /\ engine_tx' = Tail(engine_tx)
        /\ \/ Head(engine_tx) \in Reasons /\ UNCHANGED <<ack, syncing>>
           \/ /\ Head(engine_tx) = "SignalResumed"
              /\ syncing' = TRUE /\ UNCHANGED ack
           \/ /\ Head(engine_tx) \in Events \ Reasons
              /\ ack' = TRUE /\ UNCHANGED syncing
    BY <1>2, HandlerEvents
  <2>2. OneAnnouncement
    BY <2>1 DEF EventInv
  <2>3. /\ engine_tx' \in Seq(Events)
        /\ Head(engine_tx) = engine_tx[1] /\ 1 \in 1..Len(engine_tx)
        /\ \A i \in 1..Len(engine_tx') :
             /\ i + 1 \in 1..Len(engine_tx) /\ i + 1 # 1 /\ i \in Nat
             /\ engine_tx'[i] = engine_tx[i + 1]
    BY <1>0, <2>1, EventQueue
  <2>4. CASE Head(engine_tx) \in Reasons /\ UNCHANGED <<ack, syncing>>
    <3>1. \A i \in 1..Len(engine_tx') :
            engine_tx'[i] \notin Reasons =>
              <<engine_tx'[i], rpc>> \in Announcements /\ ~ack /\ ~syncing
      BY <2>2, <2>3 DEF OneAnnouncement
    <3>2. \A i, j \in 1..Len(engine_tx') :
            engine_tx'[i] \notin Reasons /\ engine_tx'[j] \notin Reasons
              => i = j
      <4>1. ASSUME NEW i \in 1..Len(engine_tx'), NEW j \in 1..Len(engine_tx'),
                   engine_tx'[i] \notin Reasons, engine_tx'[j] \notin Reasons
            PROVE  i = j
        <5>1. i + 1 = j + 1
          BY <2>2, <2>3, <4>1 DEF OneAnnouncement
        <5>2. QED
          BY <2>3, <5>1
      <4>2. QED
        BY <4>1
    <3>3. QED
      BY <1>0, <2>1, <2>2, <2>3, <2>4, <3>1, <3>2 DEF EventInv, OneAnnouncement
  <2>5. CASE Head(engine_tx) \notin Reasons
    <3>1. /\ <<engine_tx[1], rpc>> \in Announcements /\ ~ack /\ ~syncing
          /\ \A i \in 1..Len(engine_tx') : engine_tx'[i] \in Reasons
      BY <2>2, <2>3, <2>5 DEF OneAnnouncement
    <3>2. engine_tx[1] = "SignalResumed" => rpc = "signal_resumed"
      BY <3>1 DEF Announcements
    <3>3. syncing' \in BOOLEAN /\ (syncing' => rpc = "signal_resumed" /\ ~ack')
      <4>1. CASE /\ Head(engine_tx) = "SignalResumed"
                 /\ syncing' = TRUE /\ UNCHANGED ack
        BY <2>3, <3>1, <3>2, <4>1, Zenon
      <4>2. CASE UNCHANGED syncing
        BY <1>0, <3>1, <4>2, Zenon
      <4>3. QED
        BY <2>1, <2>5, <4>1, <4>2, Zenon
    <3>4. OneAnnouncement'
      <4>1. rpc' = rpc
        BY <2>1
      <4>2. QED
        BY <3>1, <3>3, <4>1, Zenon DEF OneAnnouncement
    <3>5. QED
      BY <2>3, <3>3, <3>4, Zenon DEF EventInv
  <2>6. Head(engine_tx) \in Reasons => UNCHANGED <<ack, syncing>>
    <3>1. "SignalResumed" \notin Reasons
      BY DEF Reasons
    <3>2. QED
      BY <2>1, <3>1, Zenon
  <2>7. QED
    BY <2>4, <2>5, <2>6, Zenon
<1>3. CASE SyncStateSent
  <2>1. /\ syncing /\ syncing' = FALSE
        /\ UNCHANGED <<engine_tx, rpc, room_task>>
    BY <1>3 DEF SyncStateSent, engineRest, taskVars
  <2>2. QED
    BY <1>0, <2>1 DEF EventInv, OneAnnouncement
<1>4. CASE RoomTaskEnd
  <2>1. engine_tx' = <<>> /\ room_task' = "stopped" /\ UNCHANGED syncing
    BY <1>4 DEF RoomTaskEnd
  <2>2. <<>> \in Seq(Events)
    OBVIOUS
  <2>3. QED
    BY <1>0, <2>1, <2>2 DEF EventInv
<1>5. ASSUME UNCHANGED <<rpc, ack, syncing>>,
             room_task = "stopped" => room_task' = "stopped"
      PROVE  /\ UNCHANGED engine_tx => EventInv'
             /\ \A reason \in Reasons : Emit(reason) => EventInv'
  <2>1. UNCHANGED engine_tx => EventInv'
    BY <1>0, <1>5 DEF EventInv, OneAnnouncement
  <2>2. ASSUME NEW reason \in Reasons, Emit(reason) PROVE EventInv'
    <3>1. reason \in Events
      BY EventKinds
    <3>2. /\ engine_tx' \in Seq(Events)
          /\ Len(engine_tx) \in Nat
          /\ Len(engine_tx') = Len(engine_tx) + 1
          /\ engine_tx'[Len(engine_tx) + 1] = reason
          /\ \A i \in 1..Len(engine_tx) : engine_tx'[i] = engine_tx[i]
      BY <1>0, <2>2, <3>1, EventQueue DEF Emit
    <3>3. \A i \in 1..Len(engine_tx') :
            engine_tx'[i] \notin Reasons =>
              i \in 1..Len(engine_tx) /\ engine_tx'[i] = engine_tx[i]
      BY <3>2
    <3>4. QED
      BY <1>0, <1>5, <3>2, <3>3 DEF EventInv, OneAnnouncement
  <2>3. QED
    BY <2>1, <2>2
<1>6. QED
  BY <1>1, <1>2, <1>3, <1>4, <1>5, OtherEvents

LEMMA SpecEventInv == Spec => []EventInv
<1>1. Init => EventInv
  <2>1. SUFFICES ASSUME Init PROVE EventInv
    OBVIOUS
  <2>2. engine_tx = <<>> /\ syncing = FALSE
    BY <2>1 DEF Init, EngineInit
  <2>3. engine_tx \in Seq(Events) /\ Len(engine_tx) = 0
    BY <2>2
  <2>4. \A i \in 1..Len(engine_tx) : FALSE
    BY <2>3
  <2>5. QED
    BY <2>2, <2>3, <2>4, Zenon DEF EventInv, OneAnnouncement
<1>2. EventInv /\ [Next]_vars => EventInv'
  BY NextEventInv
<1>3. QED
  BY <1>1, <1>2, PTL DEF Spec

\* The room handles an announcement while the reconnect task awaits the
\* acknowledgement of that very announcement: none is left from an earlier
\* attempt or cycle, and none is handled after the cycle has gone on.
AnnouncementsInStep ==
  [][HandleEvent /\ Head(engine_tx) \notin Reasons =>
       <<Head(engine_tx), rpc>> \in Announcements /\ ~ack]_vars

\* The property holds, because an acknowledgement is reset with each
\* announcement and given only by the handler of that one.
THEOREM HandledInStep == Spec => AnnouncementsInStep
<1>1. ASSUME EventInv, HandleEvent, Head(engine_tx) \notin Reasons
      PROVE  <<Head(engine_tx), rpc>> \in Announcements /\ ~ack
  <2>1. /\ room_task # "stopped" /\ engine_tx # <<>>
        /\ engine_tx \in Seq(Events)
    BY <1>1, HandlerEvents DEF EventInv
  <2>2. Head(engine_tx) = engine_tx[1] /\ 1 \in 1..Len(engine_tx)
    BY <2>1, EventQueue
  <2>3. QED
    BY <1>1, <2>1, <2>2 DEF EventInv, OneAnnouncement
<1>2. EventInv /\ [Next]_vars =>
        [HandleEvent /\ Head(engine_tx) \notin Reasons =>
           <<Head(engine_tx), rpc>> \in Announcements /\ ~ack]_vars
  BY <1>1
<1>3. QED
  BY <1>2, SpecEventInv, PTL DEF Spec, AnnouncementsInStep

-----------------------------------------------------------------------------
(***************************************************************************)
(* Whose events are read                                                   *)
(***************************************************************************)
Active(s) == loop[s] \in {"running", "stopping"}

\* The task in the handle serves the newest session; a restart that has taken
\* it out of the handle ends it before it connects.
TaskInv ==
  ~closed =>
    /\ \A s \in Sessions : Active(s) => s = session /\ s = lastSession
    /\ rpc \in {"close_old", "join_old"} =>
         engine_task = None /\ closing["cycle"] = session
    /\ engine_task # None \/ rpc \in {"close_old", "join_old"} =>
         session = lastSession
    /\ engine_task # None \/ rpc \in {"close_old", "join_old"}
         \/ \A s \in Sessions : ~Active(s)
    /\ rpc \in {"connect", "signal_restarted", "wait_pc"} =>
         engine_task = None
    /\ rpc \in {"signal_restarted", "wait_pc"} => new_session = lastSession

\* Only a call of close() that has marked the engine closed ends a task.
CloserInv ==
  /\ DOMAIN closing = Closers
  /\ \A c \in Closers : closer[c] \in {"session", "join"} => closed

LEMMA NextCloserInv ==
  ASSUME IInv, CloserInv, [Next]_vars
  PROVE  CloserInv' /\ (closed => closed')
<1> USE DEF IInv, TypeOK, CloserInv, engineVars, engineRest, handleVars,
            closeVars, cycleRest, RoomRest
<1>1. CASE EngineCycle
  BY <1>1
  DEF EngineCycle, CycleStep, CycleStart, Attempt, Acknowledged,
      AttemptRefused, RestartTake, RestartCloseOld, RestartJoinOld,
      RestartConnect, RestartWaitPc, RestartAnnounce, Resume, ResumeWait,
      Tick, CycleFailed, CycleClosed, CycleEnd
<1>2. CASE \/ Environment /\ RoomRest
           \/ \E a \in ApiCallers : ApiEnd(a) /\ RoomRest
           \/ \E s \in Sessions : EngineTaskStep(s) /\ RoomRest
  BY <1>2 DEF Environment, Fault, ServerLeave, ApiBegin, ApiEnd,
     EngineTaskStep, OnSessionEvent, EngineTaskEnd
<1>3. CASE \E c \in Closers : CloseStep(c, CloseReason(c)) /\ RoomRest
  BY <1>3 DEF CloseStep, CloseTake, CloseCloseSession, CloseJoin, CloseEmit
<1>4. CASE HandleEvent
  BY <1>4 DEF HandleEvent, HandleResuming, HandleSignalResumed,
     HandleResumed, HandleRestarting, HandleSignalRestarted, HandleRestarted,
     HandleDisconnected
<1>5. CASE \/ SyncStateSent \/ Republished \/ RoomClose \/ RoomTaskClose
           \/ RoomTaskEnd \/ UNCHANGED vars
  BY <1>5 DEF SyncStateSent, Republished, RoomClose, RoomTaskClose,
     RoomTaskEnd, vars
<1>6. QED
  BY <1>1, <1>2, <1>3, <1>4, <1>5 DEF Next

LEMMA NextTaskInv ==
  ASSUME IInv, CloserInv, TaskInv, [Next]_vars
  PROVE  TaskInv'
<1>1. CASE closed
  BY <1>1, NextCloserInv DEF TaskInv
<1> SUFFICES ASSUME ~closed, ~closed' PROVE TaskInv'
  BY <1>1 DEF TaskInv
<1>2. /\ loop \in [Sessions -> {"none", "running", "stopping", "ended"}]
      /\ lastSession \in Nat
      /\ session \in 1..lastSession
      /\ engine_task \in {None, session}
      /\ rpc \in {"signal_restarted", "wait_pc"} => new_session # None
  BY DEF IInv, TypeOK, NewSession
<1> USE DEF TaskInv, Active, engineRest, handleVars, sessionVars, taskVars,
            closeVars, cycleRest, None
<1>3. CASE EngineCycle
  <2> USE DEF EngineCycle
  <2>1. CASE CycleStart \/ Tick
    BY <2>1 DEF CycleStart, WriteLockFree, Tick
  <2>2. CASE CycleFailed \/ CycleClosed \/ CycleEnd
    BY <2>2 DEF CycleFailed, CycleClosed, CycleEnd
  <2>3. CASE Attempt \/ RestartAnnounce \/ Resume \/ ResumeWait
    BY <2>3 DEF Attempt, RestartAnnounce, Resume, ResumeWait, Announce,
       AttemptFails
  <2>4. CASE Acknowledged(Ready)
    BY <2>4 DEF Acknowledged
  <2>5. CASE AttemptRefused
    BY <2>5 DEF AttemptRefused
  <2>6. CASE RestartTake
    <3>1. closing'["cycle"] = engine_task
      BY <2>6 DEF RestartTake, CloserInv, Closers
    <3>2. QED
      BY <1>2, <2>6, <3>1 DEF RestartTake
  <2>7. CASE RestartCloseOld
    BY <1>2, <2>7 DEF RestartCloseOld, CloseSession
  <2>8. CASE RestartJoinOld
    BY <1>2, <2>8 DEF RestartJoinOld
  <2>9. CASE RestartConnect
    BY <1>2, <2>9 DEF RestartConnect, Announce, AttemptFails
  <2>10. CASE RestartWaitPc
    BY <1>2, <2>10 DEF RestartWaitPc, AttemptFails
  <2>11. QED
    BY <1>3, <2>1, <2>2, <2>3, <2>4, <2>5, <2>6, <2>7, <2>8, <2>9, <2>10
    DEF CycleStep
<1> USE DEF RoomRest
<1>4. CASE \/ Environment /\ RoomRest
           \/ \E a \in ApiCallers : ApiEnd(a) /\ RoomRest
  BY <1>4 DEF Environment, Fault, ServerLeave, ApiBegin, ApiEnd
<1>5. ASSUME NEW s \in Sessions, EngineTaskStep(s) PROVE TaskInv'
  <2>1. CASE OnSessionEvent(s)
    BY <2>1 DEF OnSessionEvent
  <2>2. CASE EngineTaskEnd(s)
    BY <1>2, <2>2 DEF EngineTaskEnd
  <2>3. QED
    BY <1>5, <2>1, <2>2 DEF EngineTaskStep
<1>6. ASSUME NEW c \in Closers, CloseStep(c, CloseReason(c)) PROVE TaskInv'
  <2>1. CASE CloseEmit(c, CloseReason(c))
    BY <2>1 DEF CloseEmit
  <2>2. ~CloseTake(c) /\ ~CloseCloseSession(c) /\ ~CloseJoin(c)
    BY DEF CloseTake, CloseCloseSession, CloseJoin, CloserInv
  <2>3. QED
    BY <1>6, <2>1, <2>2 DEF CloseStep
<1>7. CASE HandleEvent
  BY <1>7 DEF HandleEvent, HandleResuming, HandleSignalResumed,
     HandleResumed, HandleRestarting, HandleSignalRestarted, HandleRestarted,
     HandleDisconnected
<1>8. CASE \/ SyncStateSent \/ Republished \/ RoomClose \/ RoomTaskClose
           \/ RoomTaskEnd \/ UNCHANGED vars
  BY <1>8 DEF SyncStateSent, Republished, RoomClose, RoomTaskClose,
     RoomTaskEnd, vars, engineVars
<1>9. QED
  BY <1>3, <1>4, <1>5, <1>6, <1>7, <1>8 DEF Next

\* Unless the engine is closed, no task reads the events of a session any more
\* when a newer session has been created: a restart takes the task out of the
\* handle, closes its session and waits for its end before it connects, and
\* no other step starts one.
THEOREM OldTasksEnd == Spec => []NoStaleEvents
<1>1. Init => CloserInv /\ TaskInv
  BY DEF Init, EngineInit, CloserInv, TaskInv, Active, None
<1>2. IInv /\ CloserInv /\ TaskInv /\ [Next]_vars => (CloserInv /\ TaskInv)'
  BY NextCloserInv, NextTaskInv
<1>3. ASSUME IInv, TaskInv PROVE NoStaleEvents
  <2>1. /\ loop \in [Sessions -> {"none", "running", "stopping", "ended"}]
        /\ lastSession \in Nat
    BY <1>3 DEF IInv, TypeOK
  <2>2. ASSUME NEW s \in Sessions, s < lastSession, ~closed
        PROVE  loop[s] \in {"none", "ended"}
    <3>1. Active(s) => s = lastSession
      BY <1>3, <2>2 DEF TaskInv
    <3>2. s # lastSession
      BY <2>1, <2>2 DEF Sessions
    <3>3. QED
      BY <2>1, <3>1, <3>2 DEF Active
  <2>3. QED
    BY <2>2 DEF NoStaleEvents
<1>4. QED
  BY <1>1, <1>2, <1>3, SpecIInv, PTL DEF Spec

-----------------------------------------------------------------------------
(***************************************************************************)
(* DataStreams.                                                            *)
(***************************************************************************)

\* The call in progress writes a chunk that has a number.
TypeInv ==
  /\ StreamsTypeOK
  /\ call = "write" => writes > 0

\* Packets that were published, or are still to be.
InSent(p) == \E i \in 1..Len(sent) : sent[i] = p
InRequests(p) == \E i \in 1..Len(requests) : requests[i].packet = p
Made(p) == InSent(p) \/ InRequests(p)

IsChunk(p) == p.type = "chunk"

\* Who waits for a response is the call in progress, with the last packet.
CallInv ==
  /\ call = "none" => answer = "none"
  /\ call = "open" => writer = "none"
  /\ call \in {"write", "close"} => writer = "open"
  /\ \A i \in 1..Len(requests) :
       requests[i].waits =>
         /\ i = Len(requests)
         /\ call # "none" /\ answer = "none"
         /\ call = "open" <=> requests[i].packet.type = "header"
         /\ call = "close" <=> requests[i].packet.type = "trailer"
         /\ call = "write" =>
              requests[i].packet = Chunk(chunk_index, writes)

\* The header is the first packet of its stream.
HeaderInv ==
  /\ writer = "none" /\ call = "none" => sent = <<>> /\ requests = <<>>
  /\ writer = "none" /\ answer # "none" => Len(requests) = 0
  /\ call = "open" /\ answer = "none" =>
       /\ sent = <<>> /\ Len(requests) = 1
       /\ requests[1].packet.type = "header" /\ requests[1].waits
  /\ \A i \in 1..Len(sent) : sent[i].type = "header" => i = 1
  /\ \A i \in 1..Len(requests) : requests[i].packet.type = "header" =>
       i = 1 /\ Len(requests) = 1 /\ sent = <<>> /\ writer # "open"
  /\ sent = <<>> => opened = 0 /\ ~open_stream /\ reader = "none"

\* Later writes have later indices, or the same after a failure.
IndexInv ==
  /\ \A p \in Packets :
       Made(p) /\ IsChunk(p) => p.index <= chunk_index /\ p.write <= writes
  /\ \A p, q \in Packets :
       Made(p) /\ IsChunk(p) /\ Made(q) /\ IsChunk(q) =>
         /\ p.write < q.write => p.index <= q.index
         /\ p.write = q.write => p = q

Increasing(s) == \A i, j \in DOMAIN s : i < j => s[i] < s[j]

\* The reader has the chunks before the one expected, each of a later write;
\* what it has been given is in order.
ReadInv ==
  /\ reader = "reading" =>
       /\ open_stream
       /\ Len(read) = progress.index
       /\ progress.bytes = progress.index
       /\ \A i \in 1..Len(read) :
            /\ read[i] <= writes
            /\ \A p \in Packets :
                 Made(p) /\ IsChunk(p) /\ p.index >= progress.index =>
                   read[i] < p.write
  /\ Increasing(read)
  /\ open_stream /\ progress.total # NoTotal => progress.bytes <= progress.total
  /\ reader = "complete" =>
       /\ ~open_stream
       /\ TrailerTried
       /\ progress.total # NoTotal => Len(read) = progress.total

\* What has been read has been sent, with the index of its place.
FromSent ==
  \A i \in 1..Len(read) : \E p \in Packets :
    InSent(p) /\ IsChunk(p) /\ p.write = read[i] /\ p.index = i - 1

\* While every write succeeds, the writes are the indices.
CountInv ==
  /\ acked \subseteq 1..writes
  /\ call = "write" => writes \notin acked
  /\ call # "write" /\ 1..writes \subseteq acked => chunk_index = writes
  /\ call = "write" /\ 1..(writes - 1) \subseteq acked =>
       chunk_index = writes - 1
  /\ \A p \in Packets :
       Made(p) /\ IsChunk(p) /\ 1..(p.write - 1) \subseteq acked =>
         p.index = p.write - 1

IsRead(a) == \E i \in 1..Len(read) : read[i] = a

\* A write that succeeded, its call has returned or is about to.
Succeeded(a) ==
  \/ a \in acked
  \/ a = writes /\ call = "write" /\ answer = "ok" /\ ~TrailerTried

\* Packets that come after the chunk of write a.
After(a, p) == p.type = "trailer" \/ (p.type = "chunk" /\ p.write > a)

\* Its chunk was sent before any trailer and any chunk of a later write.
SentInv ==
  \A a \in 1..MaxWrites : Succeeded(a) =>
    \E i \in 1..Len(sent) :
      /\ IsChunk(sent[i]) /\ sent[i].write = a
      /\ \A j \in 1..Len(sent) : After(a, sent[j]) => i < j

TypeAt(x) == sent[net[x]].type

\* Who reads what arrives up to place x of net has the chunk of write a.
Covered(a, x) ==
  \/ \E y \in 1..(x - 1) :
       /\ TypeAt(y) = "chunk" /\ sent[net[y]].write = a
       /\ \A z \in y..(x - 1) : TypeAt(z) # "header"
  \/ /\ \A z \in 1..(x - 1) : TypeAt(z) # "header"
     /\ reader = "reading" => IsRead(a)

\* The places up to which a write that succeeded is covered.
Covers(a, x) == x = Len(net) + 1 \/ After(a, sent[net[x]])

IsPast(a) == \E i \in 1..Len(read) : read[i] > a

CoverInv ==
  \A a \in 1..MaxWrites : Succeeded(a) /\ ~LostOnTheWay(a) =>
    /\ \A x \in 1..(Len(net) + 1) : Covers(a, x) => Covered(a, x)
    /\ reader = "complete" \/ IsPast(a) => IsRead(a)

\* Without a resume the stream is opened once.
OnceInv ==
  resumes = 0 =>
    /\ opened <= 1
    /\ \A x \in 1..Len(net) : TypeAt(x) = "header" => x = 1 /\ opened = 0

Undisturbed == cancels = 0 /\ resumes = 0 /\ restarts = 0

HeaderNext == net # <<>> /\ TypeAt(1) = "header"

\* Packets before the chunk that has the expected index, and that index.
Skip == IF HeaderNext THEN 1 ELSE 0
Expected == IF HeaderNext THEN 0 ELSE progress.index

\* The number of chunks that have been sent.
ChunksSent == chunk_index + (IF call = "write" /\ answer = "ok" THEN 1 ELSE 0)

NoTrailer(x) == \A y \in 1..x : TypeAt(y) # "trailer"

\* Its chunks stand in net with the indices that the reader expects.
FlowNet ==
  open_stream \/ HeaderNext =>
    /\ \A x \in (1 + Skip)..Len(net) : NoTrailer(x) =>
         IsChunk(sent[net[x]]) /\ sent[net[x]].index = Expected + x - 1 - Skip
    /\ NoTrailer(Len(net)) => ChunksSent = Expected + Len(net) - Skip

FlowInv ==
  Undisturbed =>
    /\ \A i \in 1..Len(requests) :
         requests[i].packet.type # "trailer" => requests[i].waits
    /\ writer = "none" => chunk_index = 0
    /\ reader # "missed"
    /\ HeaderNext => ~open_stream
    /\ FlowNet

-----------------------------------------------------------------------------
\* Sequences.

LEMMA Appended ==
  ASSUME NEW S, NEW q \in Seq(S), NEW x \in S
  PROVE  /\ Append(q, x) \in Seq(S)
         /\ Len(q) \in Nat
         /\ Len(Append(q, x)) = Len(q) + 1
         /\ Append(q, x)[Len(q) + 1] = x
         /\ \A i \in 1..Len(q) : q[i] \in S /\ Append(q, x)[i] = q[i]
  OBVIOUS

LEMMA Tailed ==
  ASSUME NEW S, NEW q \in Seq(S), q # <<>>
  PROVE  /\ Tail(q) \in Seq(S)
         /\ Len(q) \in Nat \ {0}
         /\ Len(Tail(q)) = Len(q) - 1
         /\ Head(q) = q[1] /\ Head(q) \in S
         /\ \A i \in 1..(Len(q) - 1) :
              i + 1 \in 1..Len(q) /\ Tail(q)[i] = q[i + 1]
  OBVIOUS

LEMMA Joined ==
  ASSUME NEW S, NEW q \in Seq(S), NEW r \in Seq(S)
  PROVE  /\ q \o r \in Seq(S)
         /\ Len(q) \in Nat /\ Len(r) \in Nat
         /\ Len(q \o r) = Len(q) + Len(r)
         /\ \A i \in 1..Len(q) : (q \o r)[i] = q[i]
         /\ \A i \in 1..Len(r) : (q \o r)[Len(q) + i] = r[i]
  OBVIOUS

LEMMA Element ==
  ASSUME NEW S, NEW q \in Seq(S), NEW i \in 1..Len(q)
  PROVE  q[i] \in S
  OBVIOUS

LEMMA Wider ==
  ASSUME NEW S, NEW T, S \subseteq T, NEW q \in Seq(S)
  PROVE  q \in Seq(T)
  OBVIOUS

LEMMA PacketFields ==
  ASSUME NEW p \in Packets
  PROVE  /\ p.type \in {"header", "chunk", "trailer"}
         /\ p.type = "header" => p.total \in Totals
         /\ p.type = "chunk" => p.index \in Nat /\ p.write \in 1..MaxWrites
         /\ p.type = "trailer" => p.abnormal \in BOOLEAN
  BY DEF Packets

LEMMA MakePackets ==
  /\ \A total \in Totals : Header(total) \in Packets
  /\ \A index \in Nat, write \in 1..MaxWrites : Chunk(index, write) \in Packets
  /\ \A abnormal \in BOOLEAN : Trailer(abnormal) \in Packets
  BY DEF Packets, Header, Chunk, Trailer

-----------------------------------------------------------------------------
\* Types.

Requests == [packet : Packets, waits : BOOLEAN]

CallTypes ==
  /\ writer \in {"none", "open", "gone"}
  /\ call \in {"none", "open", "write", "close"}
  /\ chunk_index \in Nat
  /\ is_closed \in BOOLEAN
  /\ requests \in Seq(Requests)
  /\ answer \in {"none", "ok", "error"}
  /\ pump \in BOOLEAN

ChannelTypes ==
  /\ sent \in Seq(Packets)
  /\ net \in Seq(1..Len(sent))
  /\ seen \in 0..Len(sent)
  /\ resumes \in Nat
  /\ restarts \in Nat
  /\ lost \subseteq Packets

ReaderTypes ==
  /\ open_stream \in BOOLEAN
  /\ progress \in [index : Nat, bytes : Nat, total : Nat \cup {NoTotal}]
  /\ reader \in {"none", "reading", "dropped", "complete", "missed",
                 "exceeded", "incomplete", "abnormal"}
  /\ read \in Seq(1..MaxWrites)
  /\ opened \in Nat

HistoryTypes ==
  /\ writes \in 0..MaxWrites
  /\ acked \subseteq 1..MaxWrites
  /\ failures \in Nat
  /\ cancels \in Nat
  /\ untold \in BOOLEAN

LEMMA TypeParts ==
  StreamsTypeOK <=> CallTypes /\ ChannelTypes /\ ReaderTypes /\ HistoryTypes
  BY DEF StreamsTypeOK, CallTypes, ChannelTypes, ReaderTypes, HistoryTypes,
     Requests

LEMMA SendTypes ==
  ASSUME CallTypes, NEW op \in {"open", "write", "close"},
         NEW packet \in Packets, SendReceive(op, packet)
  PROVE  /\ call' \in {"none", "open", "write", "close"}
         /\ requests' \in Seq(Requests)
         /\ answer' \in {"none", "ok", "error"}
<1>1. [packet |-> packet, waits |-> TRUE] \in Requests
  BY DEF Requests
<1> QED  BY <1>1, Appended DEF SendReceive, CallTypes

\* The packet at a place of net.
LEMMA NetTypes ==
  ASSUME ChannelTypes, NEW x \in 1..Len(net)
  PROVE  /\ net[x] \in 1..Len(sent)
         /\ sent[net[x]] \in Packets
  BY DEF ChannelTypes

\* The tail that a resume sends again.
LEMMA ResumeTypes ==
  ASSUME ChannelTypes, NEW k \in seen..Len(sent)
  PROVE  [i \in 1..(Len(sent) - k) |-> k + i] \in Seq(1..Len(sent))
<1>1. Len(sent) - k \in Nat /\ Len(sent) \in Nat /\ k \in Nat
  BY DEF ChannelTypes
<1>2. \A i \in 1..(Len(sent) - k) : k + i \in 1..Len(sent)
  BY <1>1
<1> QED  BY <1>1, <1>2

\* A full restart touches nothing but the channel.
LEMMA RestartKeeps ==
  ASSUME RestartSender \/ RestartReader
  PROVE  /\ UNCHANGED <<writer, chunk_index, is_closed>>
         /\ UNCHANGED <<call, requests, answer, pump>>
         /\ UNCHANGED <<sent, resumes>>
         /\ UNCHANGED <<open_stream, progress, reader, read, opened>>
         /\ UNCHANGED <<writes, acked, failures, cancels, untold>>
         /\ restarts' = restarts + 1
  BY DEF RestartSender, RestartReader, Lose, writerVars, callVars, readerVars,
     history

\* The places that are left, and what has been lost.
LEMMA RestartNet ==
  ASSUME ChannelTypes, RestartSender \/ RestartReader
  PROVE  /\ net' \in Seq(1..Len(sent))
         /\ \E i \in 0..Len(net) : \E j \in i..Len(net) :
              /\ Len(net') = Len(net) - (j - i)
              /\ \A x \in 1..i : net'[x] = net[x]
              /\ \A x \in (i + 1)..Len(net') :
                   /\ x + (j - i) \in (j + 1)..Len(net)
                   /\ net'[x] = net[x + (j - i)]
              /\ lost' = lost \cup {sent[net[x]] : x \in (i + 1)..j}
<1>1. net \in Seq(1..Len(sent)) /\ Len(net) \in Nat
  BY DEF ChannelTypes
<1>2. PICK i \in 0..Len(net) : \E j \in i..Len(net) : Lose(i, j)
  <2>1. \A i \in 0..Len(net) : Len(net) \in i..Len(net)
    BY <1>1
  <2> QED  BY <2>1 DEF RestartSender, RestartReader
<1>j. PICK j \in i..Len(net) : Lose(i, j)
  BY <1>2
<1>3. /\ net' = SubSeq(net, 1, i) \o SubSeq(net, j + 1, Len(net))
      /\ lost' = lost \cup {sent[net[x]] : x \in (i + 1)..j}
  BY <1>j DEF Lose
<1> DEFINE S == 1..Len(sent)
           u == SubSeq(net, 1, i)
           v == SubSeq(net, j + 1, Len(net))
<1>5. /\ Len(net) \in Nat /\ i \in Nat /\ j \in Nat
      /\ i <= j /\ j <= Len(net) /\ net \in Seq(S)
  BY <1>1, <1>2, <1>j
<1> HIDE DEF S
<1>6. u \in Seq(S) /\ Len(u) = i /\ \A x \in 1..i : u[x] = net[x]
  BY <1>5
<1>7. /\ v \in Seq(S) /\ Len(v) = Len(net) - j
      /\ \A x \in 1..(Len(net) - j) : v[x] = net[x + j]
  BY <1>5
<1>8. net' = u \o v
  BY <1>3
<1> HIDE DEF u, v
<1>9. /\ net' \in Seq(S) /\ Len(net') = i + (Len(net) - j)
      /\ \A x \in 1..i : net'[x] = u[x]
      /\ \A x \in 1..(Len(net) - j) : net'[i + x] = v[x]
  <2>1. u \in Seq(S) /\ v \in Seq(S)
    BY <1>6, <1>7
  <2>2. /\ u \o v \in Seq(S) /\ Len(u \o v) = Len(u) + Len(v)
        /\ \A x \in 1..Len(u) : (u \o v)[x] = u[x]
        /\ \A x \in 1..Len(v) : (u \o v)[Len(u) + x] = v[x]
    BY <2>1, Joined
  <2> QED  BY <1>6, <1>7, <1>8, <2>2
<1>10. Len(net') = Len(net) - (j - i)
  BY <1>5, <1>9
<1>11. ASSUME NEW x \in (i + 1)..Len(net')
       PROVE  x + (j - i) \in (j + 1)..Len(net) /\ net'[x] = net[x + (j - i)]
  <2>1. x - i \in 1..(Len(net) - j) /\ i + (x - i) = x
    BY <1>5, <1>10
  <2>2. net'[x] = v[x - i] /\ v[x - i] = net[(x - i) + j]
    BY <1>7, <1>9, <2>1
  <2>3. (x - i) + j = x + (j - i) /\ x + (j - i) \in (j + 1)..Len(net)
    BY <1>5, <1>10
  <2> QED  BY <2>2, <2>3
<1>12. \A x \in 1..i : net'[x] = net[x]
  BY <1>6, <1>9
<1>13. net' \in Seq(1..Len(sent))
  BY <1>9 DEF S
<1> QED  BY <1>2, <1>j, <1>3, <1>10, <1>11, <1>12, <1>13

LEMMA RestartTypes ==
  ASSUME ChannelTypes, RestartSender \/ RestartReader
  PROVE  ChannelTypes'
<1>1. sent' = sent /\ resumes' = resumes /\ restarts' = restarts + 1
  BY RestartKeeps
<1>2. net' \in Seq(1..Len(sent))
  BY RestartNet
<1>3. lost' \subseteq Packets
  <2>0. PICK i \in 0..Len(net) : \E j \in i..Len(net) :
          lost' = lost \cup {sent[net[x]] : x \in (i + 1)..j}
    BY RestartNet
  <2>1. PICK j \in i..Len(net) :
          lost' = lost \cup {sent[net[x]] : x \in (i + 1)..j}
    BY <2>0
  <2>2. \A x \in (i + 1)..j : x \in 1..Len(net)
    BY DEF ChannelTypes
  <2>3. \A x \in (i + 1)..j : sent[net[x]] \in Packets
    BY <2>2, NetTypes
  <2> QED  BY <2>1, <2>3 DEF ChannelTypes
<1>4. seen' \in 0..Len(sent)
  <2>1. CASE RestartSender
    BY <2>1 DEF RestartSender, ChannelTypes
  <2>2. CASE RestartReader
    <3>0. PICK i \in 0..Len(net) : \E j \in i..Len(net) :
            seen' \in {seen} \cup {net[x] : x \in (i + 1)..j}
      BY <2>2 DEF RestartReader
    <3>1. PICK j \in i..Len(net) :
            seen' \in {seen} \cup {net[x] : x \in (i + 1)..j}
      BY <3>0
    <3>2. \A x \in (i + 1)..j : x \in 1..Len(net)
      BY DEF ChannelTypes
    <3>3. \A x \in (i + 1)..j : net[x] \in 0..Len(sent)
      BY <3>2, NetTypes DEF ChannelTypes
    <3> QED  BY <3>1, <3>3 DEF ChannelTypes
  <2> QED  BY <2>1, <2>2
<1> QED  BY <1>1, <1>2, <1>3, <1>4 DEF ChannelTypes

LEMMA ReceiveTypes ==
  ASSUME StreamsTypeOK, ReceivePacket
  PROVE  ReaderTypes'
<1>0. CallTypes /\ ChannelTypes /\ ReaderTypes /\ HistoryTypes
  BY TypeParts
<1> DEFINE p == sent[Head(net)]
<1>1. p \in Packets
  BY <1>0, Tailed DEF ReceivePacket, ChannelTypes
<1>2. CASE HandleHeader(p)
  <2>1. p.total \in Nat \cup {NoTotal}
    BY <1>1, <1>2, PacketFields, DataStreamsAssumption DEF HandleHeader
  <2>2. CASE UNCHANGED readerVars
    BY <1>0, <2>2 DEF ReaderTypes, readerVars
  <2>3. CASE ~UNCHANGED readerVars
    <3>1. /\ open_stream' = TRUE
          /\ progress' = [index |-> 0, bytes |-> 0, total |-> p.total]
          /\ reader' = "reading" /\ read' = <<>>
          /\ opened' = opened + 1
      BY <1>2, <2>3 DEF HandleHeader
    <3> QED  BY <1>0, <2>1, <3>1 DEF ReaderTypes
  <2> QED  BY <2>2, <2>3
<1>3. CASE HandleChunk(p)
  <2>1. p.type = "chunk" /\ p.index \in Nat /\ p.write \in 1..MaxWrites
    BY <1>1, <1>3, PacketFields DEF HandleChunk
  <2>2. Append(read, p.write) \in Seq(1..MaxWrites)
    BY <1>0, <2>1, Appended DEF ReaderTypes
  <2>3. CASE UNCHANGED readerVars
    BY <1>0, <2>3 DEF ReaderTypes, readerVars
  <2>4. CASE /\ CloseStream("missed")
             /\ UNCHANGED <<progress, read, opened>>
    BY <1>0, <2>4 DEF ReaderTypes, CloseStream
  <2>5. CASE /\ progress' = [progress EXCEPT !.index = @ + 1, !.bytes = @ + 1]
             /\ opened' = opened
             /\ \/ CloseStream("exceeded") /\ UNCHANGED read
                \/ CloseStream("dropped") /\ UNCHANGED read
                \/ /\ read' = Append(read, p.write)
                   /\ UNCHANGED <<open_stream, reader>>
    <3>1. progress' \in [index : Nat, bytes : Nat, total : Nat \cup {NoTotal}]
      <4>1. progress' = [index |-> progress.index + 1,
                         bytes |-> progress.bytes + 1,
                         total |-> progress.total]
        BY <1>0, <2>5 DEF ReaderTypes
      <4> QED  BY <1>0, <4>1 DEF ReaderTypes
    <3> QED  BY <1>0, <2>2, <2>5, <3>1 DEF ReaderTypes, CloseStream
  <2> QED  BY <1>3, <2>3, <2>4, <2>5 DEF HandleChunk
<1>4. CASE HandleTrailer(p)
  BY <1>0, <1>4 DEF HandleTrailer, CloseStream, ReaderTypes
<1> QED  BY <1>2, <1>3, <1>4 DEF ReceivePacket

LEMMA NoLongerWaits ==
  ASSUME NEW r \in Requests
  PROVE  /\ [r EXCEPT !.waits = FALSE] \in Requests
         /\ [r EXCEPT !.waits = FALSE].packet = r.packet
         /\ [r EXCEPT !.waits = FALSE].waits = FALSE
<1>1. r \in [packet : Packets, waits : BOOLEAN]
  BY DEF Requests
<1>2. [r EXCEPT !.waits = FALSE] \in [packet : Packets, waits : BOOLEAN]
  BY <1>1
<1> QED  BY <1>1, <1>2 DEF Requests

LEMMA InitTypes == StreamsInit => StreamsTypeOK
<1> SUFFICES ASSUME StreamsInit
             PROVE  CallTypes /\ ChannelTypes /\ ReaderTypes /\ HistoryTypes
  BY TypeParts
<1>1. /\ <<>> \in Seq(Requests) /\ <<>> \in Seq(Packets)
      /\ <<>> \in Seq(1..0) /\ <<>> \in Seq(1..MaxWrites) /\ Len(<<>>) = 0
  OBVIOUS
<1>2. CallTypes
  BY <1>1 DEF StreamsInit, CallTypes
<1>3. ChannelTypes
  BY <1>1 DEF StreamsInit, ChannelTypes
<1>4. ReaderTypes
  <2>1. [index |-> 0, bytes |-> 0, total |-> NoTotal]
          \in [index : Nat, bytes : Nat, total : Nat \cup {NoTotal}]
    OBVIOUS
  <2> QED  BY <1>1, <2>1 DEF StreamsInit, ReaderTypes
<1>5. HistoryTypes
  <2>1. MaxWrites \in Nat
    BY DataStreamsAssumption
  <2>2. /\ writes = 0 /\ acked = {} /\ failures = 0 /\ cancels = 0
        /\ untold = FALSE
    BY DEF StreamsInit
  <2>3. writes \in 0..MaxWrites /\ failures \in Nat /\ cancels \in Nat
    BY <2>1, <2>2
  <2>4. acked \subseteq 1..MaxWrites /\ untold \in BOOLEAN
    BY <2>2, Zenon
  <2> QED  BY <2>3, <2>4 DEF HistoryTypes
<1> QED  BY <1>2, <1>3, <1>4, <1>5

LEMMA StepTypes ==
  ASSUME TypeInv, [StreamsNext]_streamsVars
  PROVE  TypeInv'
<1>0. CallTypes /\ ChannelTypes /\ ReaderTypes /\ HistoryTypes
  BY TypeParts DEF TypeInv
<1>w. (call = "write" => writes > 0)'
  BY <1>0, RestartKeeps DEF TypeInv, StreamsNext, StreamsProgress, Publish,
     ReceivePacket, CallReturns, Open, WriteChunk, Close, SendReceive, Cancel,
     DropWriter, PumpEnds, ResumeSession, DropReader, streamsVars, callVars,
     history,
     HistoryTypes
<1> SUFFICES CallTypes' /\ ChannelTypes' /\ ReaderTypes' /\ HistoryTypes'
  BY <1>w DEF TypeInv, StreamsTypeOK, CallTypes, ChannelTypes, ReaderTypes,
     HistoryTypes, Requests
<1>1. CASE Publish
  <2> DEFINE r == Head(requests)
  <2>1. /\ r \in Requests /\ r.packet \in Packets
        /\ requests' = Tail(requests) /\ requests' \in Seq(Requests)
    <3>1. /\ requests \in Seq(Requests) /\ requests # <<>>
          /\ requests' = Tail(requests)
      BY <1>0, <1>1 DEF Publish, CallTypes
    <3>2. r \in Requests /\ Tail(requests) \in Seq(Requests)
      BY <3>1, Tailed
    <3> QED  BY <3>1, <3>2 DEF Requests
  <2>2. /\ sent' = sent \/ sent' = Append(sent, r.packet)
        /\ \/ net' = net
           \/ sent' = Append(sent, r.packet) /\ net' = Append(net, Len(sent'))
    BY <1>1 DEF Publish
  <2>3. /\ sent' \in Seq(Packets) /\ Len(sent) \in Nat /\ Len(sent') \in Nat
        /\ Len(sent) <= Len(sent')
        /\ sent' = Append(sent, r.packet) => Len(sent') = Len(sent) + 1
    <3>1. sent \in Seq(Packets) /\ Len(sent) \in Nat
      BY <1>0 DEF ChannelTypes
    <3>2. /\ Append(sent, r.packet) \in Seq(Packets)
          /\ Len(Append(sent, r.packet)) = Len(sent) + 1
      BY <2>1, <3>1, Appended
    <3> QED  BY <2>2, <3>1, <3>2
  <2>4. net \in Seq(1..Len(sent'))
    <3>1. 1..Len(sent) \subseteq 1..Len(sent')
      BY <2>3
    <3> QED  BY <1>0, <3>1, Wider DEF ChannelTypes
  <2>5. net' \in Seq(1..Len(sent'))
    <3>1. CASE net' = net
      BY <2>4, <3>1
    <3>2. CASE sent' = Append(sent, r.packet) /\ net' = Append(net, Len(sent'))
      <4>1. Len(sent') \in 1..Len(sent')
        BY <2>3, <3>2
      <4> QED  BY <2>4, <3>2, <4>1, Appended
    <3> QED  BY <2>2, <3>1, <3>2
  <2>6. ChannelTypes'
    BY <1>0, <1>1, <2>3, <2>5 DEF Publish, ChannelTypes
  <2>7. CallTypes' /\ ReaderTypes' /\ HistoryTypes'
    <3>1. CallTypes'
      BY <1>0, <1>1, <2>1 DEF Publish, CallTypes, writerVars
    <3>2. failures' \in Nat
      BY <1>0, <1>1 DEF Publish, HistoryTypes
    <3>3. untold' \in BOOLEAN
      <4>1. \/ untold' = untold
            \/ untold' = (untold \/ r.packet.type = "trailer")
        BY <1>1 DEF Publish
      <4> QED  BY <1>0, <4>1 DEF HistoryTypes
    <3> QED  BY <1>0, <1>1, <3>1, <3>2, <3>3
        DEF Publish, ReaderTypes, HistoryTypes, readerVars
  <2> QED  BY <2>6, <2>7
<1>2. CASE ReceivePacket
  <2>1. ReaderTypes'
    BY <1>2, ReceiveTypes DEF TypeInv
  <2>2. ChannelTypes'
    BY <1>0, <1>2, Tailed DEF ReceivePacket, ChannelTypes
  <2> QED  BY <1>0, <1>2, <2>1, <2>2
      DEF ReceivePacket, CallTypes, HistoryTypes, writerVars, callVars, history
<1>3. CASE CallReturns
  <2>1. untold' \in BOOLEAN
    <3>1. untold' = untold \/ untold' = (answer # "ok")
      BY <1>3 DEF CallReturns, Opened, Written, Closed
    <3> QED  BY <1>0, <3>1 DEF HistoryTypes
  <2>2. is_closed' \in BOOLEAN
    <3>1. is_closed' = is_closed \/ is_closed' = (answer = "ok")
      BY <1>3 DEF CallReturns, Opened, Written, Closed
    <3> QED  BY <1>0, <3>1 DEF CallTypes
  <2>3. /\ writer' \in {"none", "open", "gone"}
        /\ chunk_index' \in Nat
    BY <1>0, <1>3 DEF CallReturns, Opened, Written, Closed, CallTypes
  <2>4. acked' \subseteq 1..MaxWrites
    <3>1. CASE acked' = acked
      BY <1>0, <3>1 DEF HistoryTypes
    <3>2. CASE acked' = acked \cup {writes} /\ call = "write"
      <4>1. writes \in 1..MaxWrites
        BY <1>0, <3>2 DEF TypeInv, HistoryTypes
      <4> QED  BY <1>0, <3>2, <4>1 DEF HistoryTypes
    <3> QED  BY <1>3, <3>1, <3>2 DEF CallReturns, Opened, Written, Closed
  <2> QED  BY <1>0, <1>3, <2>1, <2>2, <2>3, <2>4 DEF CallReturns, CallTypes,
      ChannelTypes, ReaderTypes, HistoryTypes, netVars, readerVars
<1>4. ASSUME NEW total \in Totals, Open(total)
      PROVE  CallTypes' /\ ChannelTypes' /\ ReaderTypes' /\ HistoryTypes'
  BY <1>0, <1>4, MakePackets, SendTypes DEF Open, CallTypes, ChannelTypes,
     ReaderTypes, HistoryTypes, writerVars, netVars, readerVars, history
<1>5. CASE WriteChunk
  <2>1. writes' \in 1..MaxWrites /\ chunk_index \in Nat
    BY <1>0, <1>5, DataStreamsAssumption DEF WriteChunk, HistoryTypes, CallTypes
  <2>2. Chunk(chunk_index, writes') \in Packets
    BY <2>1, MakePackets
  <2> QED  BY <1>0, <1>5, <2>1, <2>2, SendTypes DEF WriteChunk, CallTypes,
      ChannelTypes, ReaderTypes, HistoryTypes, writerVars, netVars, readerVars
<1>6. ASSUME NEW abnormal \in BOOLEAN, Close(abnormal)
      PROVE  CallTypes' /\ ChannelTypes' /\ ReaderTypes' /\ HistoryTypes'
  BY <1>0, <1>6, MakePackets, SendTypes DEF Close, CallTypes, ChannelTypes,
     ReaderTypes, HistoryTypes, writerVars, netVars, readerVars, history
<1>7. CASE Cancel
  <2>1. requests' \in Seq(Requests)
    <3>1. requests \in Seq(Requests) /\ Len(requests) \in Nat
          /\ DOMAIN requests = 1..Len(requests)
      BY <1>0 DEF CallTypes
    <3>2. \A i \in 1..Len(requests) :
            [requests[i] EXCEPT !.waits = FALSE] \in Requests
      BY <3>1, Element, NoLongerWaits
    <3>3. requests' = [i \in 1..Len(requests) |->
                         [requests[i] EXCEPT !.waits = FALSE]]
      BY <1>7, <3>1 DEF Cancel
    <3> QED  BY <3>1, <3>2, <3>3
  <2>2. untold' \in BOOLEAN
    <3>1. untold' = (untold \/ call = "open")
      BY <1>7 DEF Cancel
    <3> QED  BY <1>0, <3>1 DEF HistoryTypes
  <2>3. cancels' \in Nat
    BY <1>0, <1>7 DEF Cancel, HistoryTypes
  <2>4. CallTypes'
    BY <1>0, <1>7, <2>1 DEF Cancel, CallTypes
  <2> QED  BY <1>0, <1>7, <2>2, <2>3, <2>4 DEF Cancel,
      ChannelTypes, ReaderTypes, HistoryTypes, netVars, readerVars
<1>8. CASE DropWriter
  <2>1. [packet |-> Trailer(FALSE), waits |-> FALSE] \in Requests
    BY MakePackets DEF Requests
  <2>2. requests' \in Seq(Requests)
    BY <1>0, <1>8, <2>1, Appended DEF DropWriter, LastTrailer, CallTypes
  <2>3. untold' \in BOOLEAN
    BY <1>0, <1>8 DEF DropWriter, LastTrailer, HistoryTypes
  <2> QED  BY <1>0, <1>8, <2>2, <2>3 DEF DropWriter, CallTypes, ChannelTypes,
      ReaderTypes, HistoryTypes, netVars, readerVars
<1>9. CASE PumpEnds
  <2>1. requests' \in Seq(Requests) /\ pump' \in BOOLEAN
        /\ answer' \in {"none", "ok", "error"}
    <3>1. <<>> \in Seq(Requests)
      OBVIOUS
    <3>2. requests' = <<>> /\ pump' = FALSE /\ answer' \in {"error", answer}
      BY <1>9 DEF PumpEnds
    <3> QED  BY <1>0, <3>1, <3>2 DEF CallTypes
  <2> QED  BY <1>0, <1>9, <2>1 DEF PumpEnds, CallTypes, ChannelTypes,
      ReaderTypes, HistoryTypes, writerVars, netVars, readerVars, history
<1>10. CASE ResumeSession
  <2>1. net' \in Seq(1..Len(sent))
    BY <1>0, <1>10, ResumeTypes, Joined DEF ResumeSession, ChannelTypes
  <2> QED  BY <1>0, <1>10, <2>1 DEF ResumeSession, CallTypes, ChannelTypes,
      ReaderTypes, HistoryTypes, writerVars, callVars, readerVars, history
<1>11. CASE DropReader
  BY <1>0, <1>11 DEF DropReader, CallTypes, ChannelTypes, ReaderTypes,
     HistoryTypes, writerVars, callVars, netVars, history
<1>12. CASE UNCHANGED streamsVars
  BY <1>0, <1>12 DEF streamsVars, writerVars, callVars, netVars, readerVars,
     history, CallTypes, ChannelTypes, ReaderTypes, HistoryTypes
<1>13. CASE RestartSender \/ RestartReader
  <2>1. ChannelTypes'
    BY <1>0, <1>13, RestartTypes
  <2>2. CallTypes'
    BY <1>0, <1>13, RestartKeeps DEF CallTypes
  <2>3. ReaderTypes'
    BY <1>0, <1>13, RestartKeeps DEF ReaderTypes
  <2>4. HistoryTypes'
    BY <1>0, <1>13, RestartKeeps DEF HistoryTypes
  <2> QED  BY <2>1, <2>2, <2>3, <2>4
<1> QED
  BY <1>1, <1>2, <1>3, <1>4, <1>5, <1>6, <1>7, <1>8, <1>9, <1>10, <1>11, <1>12,
     <1>13
  DEF StreamsNext, StreamsProgress

-----------------------------------------------------------------------------
\* Who waits for a response.

\* send_receive adds a packet at the end, or answers with an error.
LEMMA SendSteps ==
  ASSUME CallTypes, NEW op, NEW packet \in Packets, SendReceive(op, packet)
  PROVE  /\ call = "none" /\ call' = op
         /\ Len(requests) \in Nat
         /\ \A i \in 1..Len(requests) : requests'[i] = requests[i]
         /\ \/ /\ Len(requests') = Len(requests) + 1
               /\ requests'[Len(requests) + 1] =
                    [packet |-> packet, waits |-> TRUE]
               /\ answer' = answer
            \/ requests' = requests /\ answer' = "error"
<1>1. requests \in Seq(Requests)
  BY DEF CallTypes
<1>2. [packet |-> packet, waits |-> TRUE] \in Requests
  BY DEF Requests
<1> QED  BY <1>1, <1>2, Appended DEF SendReceive

\* The task takes the first request.
LEMMA PublishSteps ==
  ASSUME CallTypes, ChannelTypes, Publish
  PROVE  /\ Len(requests) \in Nat \ {0}
         /\ Len(requests') = Len(requests) - 1
         /\ \A i \in 1..Len(requests') :
              i + 1 \in 1..Len(requests) /\ requests'[i] = requests[i + 1]
         /\ requests[1] \in Requests /\ requests[1].packet \in Packets
         /\ Len(sent) \in Nat
         /\ \A i \in 1..Len(sent) : sent'[i] = sent[i]
         /\ \/ sent' = sent
            \/ /\ Len(sent') = Len(sent) + 1
               /\ sent'[Len(sent) + 1] = requests[1].packet
         /\ answer' = answer \/ requests[1].waits
<1>1. /\ requests \in Seq(Requests) /\ requests # <<>>
      /\ requests' = Tail(requests)
  BY DEF CallTypes, Publish
<1>2. /\ Len(requests) \in Nat \ {0}
      /\ Len(requests') = Len(requests) - 1
      /\ Head(requests) = requests[1] /\ Head(requests) \in Requests
      /\ \A i \in 1..(Len(requests) - 1) :
           i + 1 \in 1..Len(requests) /\ requests'[i] = requests[i + 1]
  BY <1>1, Tailed
<1>3. requests[1].packet \in Packets
  BY <1>2 DEF Requests
<1>4. sent \in Seq(Packets) /\ Len(sent) \in Nat
  BY DEF ChannelTypes
<1>5. sent' = sent \/ sent' = Append(sent, requests[1].packet)
  BY <1>2 DEF Publish
<1>6. answer' = answer \/ requests[1].waits
  BY <1>2 DEF Publish
<1>7. /\ \A i \in 1..Len(sent) : sent'[i] = sent[i]
      /\ \/ sent' = sent
         \/ /\ Len(sent') = Len(sent) + 1
            /\ sent'[Len(sent) + 1] = requests[1].packet
  BY <1>3, <1>4, <1>5, Appended
<1> QED  BY <1>2, <1>3, <1>4, <1>6, <1>7

\* The last trailer goes to the end.
LEMMA DropSteps ==
  ASSUME CallTypes, DropWriter
  PROVE  /\ Len(requests) \in Nat
         /\ \A i \in 1..Len(requests) : requests'[i] = requests[i]
         /\ \/ requests' = requests
            \/ /\ Len(requests') = Len(requests) + 1
               /\ requests'[Len(requests) + 1].packet.type = "trailer"
               /\ ~requests'[Len(requests) + 1].waits
<1>1. requests \in Seq(Requests)
  BY DEF CallTypes
<1> DEFINE r == [packet |-> Trailer(FALSE), waits |-> FALSE]
<1>2. r \in Requests /\ ~r.waits
  BY MakePackets DEF Requests
<1>3. r.packet.type = "trailer"
  BY DEF Trailer
<1>4. requests' = requests \/ requests' = Append(requests, r)
  BY DEF DropWriter, LastTrailer
<1> HIDE DEF r
<1>5. /\ Len(requests) \in Nat
      /\ Len(Append(requests, r)) = Len(requests) + 1
      /\ Append(requests, r)[Len(requests) + 1] = r
      /\ \A i \in 1..Len(requests) : Append(requests, r)[i] = requests[i]
  BY <1>1, <1>2, Appended
<1> QED  BY <1>2, <1>3, <1>4, <1>5

LEMMA CancelSteps ==
  ASSUME CallTypes, Cancel
  PROVE  /\ Len(requests) \in Nat
         /\ Len(requests') = Len(requests)
         /\ \A i \in 1..Len(requests) :
              /\ requests'[i].packet = requests[i].packet
              /\ ~requests'[i].waits
<1>1. requests \in Seq(Requests) /\ Len(requests) \in Nat
  BY DEF CallTypes
<1>2. requests' = [i \in 1..Len(requests) |->
                     [requests[i] EXCEPT !.waits = FALSE]]
  BY <1>1 DEF Cancel
<1>3. \A i \in 1..Len(requests) : requests[i] \in Requests
  BY <1>1, Element
<1>4. Len(requests') = Len(requests)
  BY <1>1, <1>2
<1> QED  BY <1>1, <1>2, <1>3, <1>4, NoLongerWaits

LEMMA StepCall ==
  ASSUME TypeInv, CallInv, [StreamsNext]_streamsVars
  PROVE  CallInv'
<1>0. CallTypes /\ ChannelTypes
  BY TypeParts DEF TypeInv
<1>1. ASSUME NEW op \in {"open", "write", "close"}, NEW packet \in Packets,
             SendReceive(op, packet),
             op = "open" <=> packet.type = "header",
             op = "close" <=> packet.type = "trailer",
             op = "write" => packet = Chunk(chunk_index', writes'),
             op = "open" => writer' = "none",
             op # "open" => writer' = "open"
      PROVE  CallInv'
  <2>1. /\ call = "none" /\ call' = op
        /\ Len(requests) \in Nat
        /\ \A i \in 1..Len(requests) : requests'[i] = requests[i]
        /\ \/ /\ Len(requests') = Len(requests) + 1
              /\ requests'[Len(requests) + 1] =
                   [packet |-> packet, waits |-> TRUE]
              /\ answer' = answer
           \/ requests' = requests /\ answer' = "error"
    BY <1>0, <1>1, SendSteps
  <2>2. \A i \in 1..Len(requests) : ~requests[i].waits
    BY <2>1 DEF CallInv
  <2>3. answer = "none"
    BY <2>1 DEF CallInv
  <2> QED  BY <1>1, <2>1, <2>2, <2>3 DEF CallInv
<1>2. ASSUME NEW total \in Totals, Open(total)
      PROVE  CallInv'
  <2>1. Header(total) \in Packets /\ Header(total).type = "header"
    BY MakePackets DEF Header
  <2> QED  BY <1>1, <1>2, <2>1 DEF Open, writerVars
<1>3. CASE WriteChunk
  <2>1. writes' \in 1..MaxWrites /\ chunk_index \in Nat
    BY <1>3, TypeParts, DataStreamsAssumption
    DEF TypeInv, WriteChunk, HistoryTypes, CallTypes
  <2>2. /\ Chunk(chunk_index, writes') \in Packets
        /\ Chunk(chunk_index, writes').type = "chunk"
    BY <2>1, MakePackets DEF Chunk
  <2> QED  BY <1>1, <1>3, <2>2 DEF WriteChunk, writerVars
<1>4. ASSUME NEW abnormal \in BOOLEAN, Close(abnormal)
      PROVE  CallInv'
  <2>1. Trailer(abnormal) \in Packets /\ Trailer(abnormal).type = "trailer"
    BY MakePackets DEF Trailer
  <2> QED  BY <1>1, <1>4, <2>1 DEF Close, writerVars
<1>5. CASE Publish
  <2>1. UNCHANGED <<call, writer, chunk_index, writes>>
    BY <1>5 DEF Publish, writerVars
  <2>2. requests[1].waits => Len(requests') = 0 /\ call # "none"
    BY <1>0, <1>5, PublishSteps DEF CallInv
  <2>3. CASE requests[1].waits
    BY <2>1, <2>2, <2>3 DEF CallInv
  <2>4. CASE ~requests[1].waits
    BY <1>0, <1>5, <2>1, <2>4, PublishSteps DEF CallInv
  <2> QED  BY <2>3, <2>4
<1>6. CASE CallReturns
  <2>1. /\ answer # "none" /\ call' = "none" /\ answer' = "none"
        /\ requests' = requests
    BY <1>6 DEF CallReturns
  <2> QED  BY <2>1 DEF CallInv
<1>7. CASE Cancel
  <2>1. call' = "none" /\ answer' = "none"
    BY <1>7 DEF Cancel
  <2> QED  BY <1>0, <1>7, <2>1, CancelSteps DEF CallInv
<1>8. CASE DropWriter
  <2>1. call = "none" /\ UNCHANGED <<call, answer>>
    BY <1>8 DEF DropWriter
  <2>2. \A i \in 1..Len(requests) : ~requests[i].waits
    BY <2>1 DEF CallInv
  <2>3. \A i \in 1..Len(requests') : ~requests'[i].waits
    BY <1>0, <1>8, <2>2, DropSteps
  <2> QED  BY <2>1, <2>3 DEF CallInv
<1>9. CASE PumpEnds
  <2>1. /\ UNCHANGED <<call, writer>> /\ Len(requests') = 0
        /\ \/ answer' = answer
           \/ \E i \in DOMAIN requests : requests[i].waits
    BY <1>9 DEF PumpEnds, writerVars
  <2>2. DOMAIN requests = 1..Len(requests)
    BY <1>0 DEF CallTypes
  <2>3. call' = "none" => answer' = "none"
    BY <2>1, <2>2 DEF CallInv
  <2>4. call' = "open" => writer' = "none"
    BY <2>1 DEF CallInv
  <2>5. call' \in {"write", "close"} => writer' = "open"
    BY <2>1 DEF CallInv
  <2> QED  BY <2>1, <2>3, <2>4, <2>5 DEF CallInv
<1>10. CASE UNCHANGED <<writerVars, call, requests, answer, writes>>
  BY <1>10 DEF CallInv, writerVars
<1>11. CASE RestartSender \/ RestartReader
  BY <1>10, <1>11, RestartKeeps DEF writerVars
<1> QED
  BY <1>2, <1>3, <1>4, <1>5, <1>6, <1>7, <1>8, <1>9, <1>10, <1>11
  DEF StreamsNext, StreamsProgress, ReceivePacket, ResumeSession, DropReader,
      streamsVars, callVars, history

-----------------------------------------------------------------------------
\* The header is first.

LEMMA EmptyLen ==
  ASSUME NEW S, NEW q \in Seq(S)
  PROVE  Len(q) \in Nat /\ (q = <<>> <=> Len(q) = 0)
  OBVIOUS

LEMMA StepHeader ==
  ASSUME TypeInv, CallInv, HeaderInv, [StreamsNext]_streamsVars
  PROVE  HeaderInv'
<1>0. CallTypes /\ ChannelTypes
  BY TypeParts DEF TypeInv
<1>e. /\ Len(requests) \in Nat /\ (requests = <<>> <=> Len(requests) = 0)
      /\ Len(sent) \in Nat /\ (sent = <<>> <=> Len(sent) = 0)
  BY <1>0, EmptyLen DEF CallTypes, ChannelTypes
<1>1. ASSUME NEW total \in Totals, Open(total)
      PROVE  HeaderInv'
  <2>1. Header(total) \in Packets /\ Header(total).type = "header"
    BY MakePackets DEF Header
  <2>2. /\ SendReceive("open", Header(total))
        /\ writer = "none" /\ UNCHANGED <<writerVars, netVars, readerVars>>
    BY <1>1 DEF Open
  <2>3. /\ call = "none" /\ call' = "open"
        /\ \/ /\ Len(requests') = Len(requests) + 1
              /\ requests'[Len(requests) + 1] =
                   [packet |-> Header(total), waits |-> TRUE]
              /\ answer' = answer
           \/ requests' = requests /\ answer' = "error"
    BY <1>0, <2>1, <2>2, SendSteps
  <2>4. answer = "none" /\ sent = <<>> /\ Len(requests) = 0
    BY <1>e, <2>2, <2>3 DEF HeaderInv, CallInv
  <2>5. \/ /\ Len(requests') = 1 /\ requests'[1].packet.type = "header"
           /\ requests'[1].waits /\ answer' = "none"
        \/ Len(requests') = 0 /\ answer' = "error"
    BY <2>1, <2>3, <2>4
  <2> QED  BY <2>2, <2>3, <2>4, <2>5
      DEF HeaderInv, writerVars, netVars, readerVars
<1>2. ASSUME NEW packet \in Packets, packet.type # "header",
             NEW op \in {"write", "close"}, SendReceive(op, packet),
             writer = "open", UNCHANGED <<writerVars, netVars, readerVars>>
      PROVE  HeaderInv'
  <2>1. /\ call' = op
        /\ \A i \in 1..Len(requests) : requests'[i] = requests[i]
        /\ \/ /\ Len(requests') = Len(requests) + 1
              /\ requests'[Len(requests) + 1] =
                   [packet |-> packet, waits |-> TRUE]
           \/ requests' = requests
    BY <1>0, <1>2, SendSteps
  <2>2. \A i \in 1..Len(requests) : requests[i].packet.type # "header"
    BY <1>2 DEF HeaderInv
  <2>3. \A i \in 1..Len(requests') : requests'[i].packet.type # "header"
    BY <1>2, <1>e, <2>1, <2>2
  <2> QED  BY <1>2, <2>1, <2>3 DEF HeaderInv, writerVars, netVars, readerVars
<1>3. CASE WriteChunk
  <2>1. writes' \in 1..MaxWrites /\ chunk_index \in Nat
    BY <1>3, TypeParts, DataStreamsAssumption
    DEF TypeInv, WriteChunk, HistoryTypes, CallTypes
  <2>2. /\ Chunk(chunk_index, writes') \in Packets
        /\ Chunk(chunk_index, writes').type = "chunk"
    BY <2>1, MakePackets DEF Chunk
  <2> QED  BY <1>2, <1>3, <2>2 DEF WriteChunk
<1>4. ASSUME NEW abnormal \in BOOLEAN, Close(abnormal)
      PROVE  HeaderInv'
  <2>1. Trailer(abnormal) \in Packets /\ Trailer(abnormal).type = "trailer"
    BY MakePackets DEF Trailer
  <2> QED  BY <1>2, <1>4, <2>1 DEF Close
<1>5. CASE Publish
  <2>1. UNCHANGED <<call, writer, readerVars>>
    BY <1>5 DEF Publish, writerVars
  <2>2. /\ Len(requests) # 0 /\ Len(requests') = Len(requests) - 1
        /\ \A i \in 1..Len(requests') :
             i + 1 \in 1..Len(requests) /\ requests'[i] = requests[i + 1]
        /\ \A i \in 1..Len(sent) : sent'[i] = sent[i]
        /\ \/ sent' = sent
           \/ /\ Len(sent') = Len(sent) + 1
              /\ sent'[Len(sent) + 1] = requests[1].packet
    BY <1>0, <1>5, PublishSteps
  <2>3. \A i \in 1..Len(requests') : requests'[i].packet.type # "header"
    BY <1>e, <2>2 DEF HeaderInv
  <2>4. \A i \in 1..Len(sent') : sent'[i].type = "header" => i = 1
    <3>1. requests[1].packet.type = "header" => Len(sent) = 0
      BY <1>e, <2>2 DEF HeaderInv
    <3>2. \A i \in 1..Len(sent) : sent'[i].type = "header" => i = 1
      BY <2>2 DEF HeaderInv
    <3>3. CASE sent' = sent
      BY <3>2, <3>3
    <3>4. CASE /\ Len(sent') = Len(sent) + 1
               /\ sent'[Len(sent) + 1] = requests[1].packet
      BY <1>e, <3>1, <3>2, <3>4
    <3> QED  BY <2>2, <3>3, <3>4
  <2>5. sent' = <<>> => sent = <<>>
    <3>1. sent' = <<>> => Len(sent') = 0
      OBVIOUS
    <3> QED  BY <1>e, <2>2, <3>1
  <2>6. answer' # "none" \/ ~requests[1].waits
    <3>1. Head(requests) = requests[1]
      BY <1>0, <1>5, Tailed DEF Publish, CallTypes
    <3> QED  BY <1>5, <3>1 DEF Publish
  <2>7. writer = "none" => call = "open" /\ answer = "none" /\ Len(requests) = 1
    BY <1>0, <1>e, <2>2 DEF HeaderInv, CallInv, CallTypes
  <2>8. ~(call = "open" /\ answer' = "none")
    <3>1. answer' = "none" => answer = "none"
      <4>1. answer' \in {"ok", "error", answer}
        BY <1>5, Zenon DEF Publish
      <4> QED  BY <4>1
    <3> QED  BY <2>6, <3>1 DEF HeaderInv
  <2>9. writer' = "none" => call' # "none" /\ Len(requests') = 0
    <3>1. Len(requests') = Len(requests) - 1
      BY <2>2
    <3>2. call' = call /\ writer' = writer
      BY <2>1
    <3> QED  BY <2>7, <3>1, <3>2
  <2> QED  BY <2>1, <2>3, <2>4, <2>5, <2>8, <2>9 DEF HeaderInv, readerVars
<1>6. CASE CallReturns
  <2>1. /\ answer # "none" /\ call' = "none" /\ answer' = "none"
        /\ UNCHANGED <<requests, sent, readerVars>>
    BY <1>6 DEF CallReturns, netVars
  <2>2. /\ writer' # "none"
        /\ writer' = "open" /\ writer # "open" => answer = "ok" /\ call = "open"
    <3>1. CASE Opened
      BY <3>1 DEF Opened
    <3>2. CASE Written \/ Closed
      BY <3>2 DEF Written, Closed, CallInv
    <3> QED  BY <1>6, <3>1, <3>2 DEF CallReturns
  <2>3. writer' = "open" =>
          \A i \in 1..Len(requests) : requests[i].packet.type # "header"
    <3>1. CASE writer = "open"
      BY <3>1 DEF HeaderInv
    <3>2. CASE writer # "open" /\ writer' = "open"
      <4>1. Len(requests) = 0
        BY <2>1, <2>2, <3>2 DEF CallInv, HeaderInv
      <4> QED  BY <4>1
    <3> QED  BY <3>1, <3>2
  <2> QED  BY <2>1, <2>2, <2>3 DEF HeaderInv, readerVars
<1>7. CASE Cancel
  <2>1. /\ call' = "none" /\ answer' = "none" /\ UNCHANGED <<sent, readerVars>>
        /\ writer' = IF call = "open" THEN "gone" ELSE writer
        /\ call # "none"
    BY <1>7 DEF Cancel, netVars
  <2>2. /\ Len(requests') = Len(requests)
        /\ \A i \in 1..Len(requests) : requests'[i].packet = requests[i].packet
    BY <1>0, <1>7, CancelSteps
  <2>3. writer' # "none"
    BY <1>0, <2>1 DEF CallInv, CallTypes
  <2>4. \A i \in 1..Len(requests') : requests'[i].packet.type = "header" =>
          i = 1 /\ Len(requests') = 1 /\ sent' = <<>> /\ writer' # "open"
    BY <2>1, <2>2 DEF HeaderInv
  <2> QED  BY <2>1, <2>3, <2>4 DEF HeaderInv, readerVars
<1>8. CASE DropWriter
  <2>1. /\ writer = "open" /\ writer' = "gone" /\ call' = "none"
        /\ UNCHANGED <<sent, readerVars>>
    BY <1>8 DEF DropWriter, netVars
  <2>2. \A i \in 1..Len(requests') : requests'[i].packet.type # "header"
    <3>1. \A i \in 1..Len(requests) : requests[i].packet.type # "header"
      BY <2>1 DEF HeaderInv
    <3>2. /\ \A i \in 1..Len(requests) : requests'[i] = requests[i]
          /\ \/ requests' = requests
             \/ /\ Len(requests') = Len(requests) + 1
                /\ requests'[Len(requests) + 1].packet.type = "trailer"
      BY <1>0, <1>8, DropSteps
    <3> QED  BY <1>e, <3>1, <3>2
  <2> QED  BY <2>1, <2>2 DEF HeaderInv, readerVars
<1>9. CASE PumpEnds
  <2>1. /\ UNCHANGED <<call, writer, sent, readerVars>>
        /\ requests' = <<>> /\ Len(requests') = 0
        /\ (\E i \in 1..Len(requests) : requests[i].waits) => answer' = "error"
        /\ answer' = "none" => answer = "none"
    <3>1. DOMAIN requests = 1..Len(requests)
      BY <1>0 DEF CallTypes
    <3> QED  BY <1>9, <3>1 DEF PumpEnds, writerVars, netVars
  <2>2. ~(call = "open" /\ answer' = "none")
    BY <2>1 DEF HeaderInv
  <2> QED  BY <2>1, <2>2 DEF HeaderInv, readerVars
<1>10. CASE ReceivePacket
  <2>1. sent # <<>>
    <3>1. net # <<>> /\ net \in Seq(1..Len(sent))
      BY <1>0, <1>10 DEF ReceivePacket, ChannelTypes
    <3>2. Head(net) \in 1..Len(sent)
      BY <3>1, Tailed
    <3> QED  BY <1>e, <3>2
  <2> QED  BY <1>10, <2>1 DEF ReceivePacket, HeaderInv, writerVars, callVars
<1>11. CASE ResumeSession \/ UNCHANGED streamsVars
  BY <1>11 DEF ResumeSession, HeaderInv, streamsVars, writerVars,
     callVars, netVars, readerVars
<1>12. CASE DropReader
  BY <1>12 DEF DropReader, HeaderInv, writerVars, callVars, netVars
<1>13. CASE RestartSender \/ RestartReader
  BY <1>13, RestartKeeps DEF HeaderInv
<1> QED
  BY <1>1, <1>3, <1>4, <1>5, <1>6, <1>7, <1>8, <1>9, <1>10, <1>11, <1>12, <1>13
  DEF StreamsNext, StreamsProgress

-----------------------------------------------------------------------------
\* What has been sent stays; only Publish adds to it.

LEMMA SentSteps ==
  ASSUME TypeInv, [StreamsNext]_streamsVars
  PROVE  /\ Len(sent) \in Nat
         /\ \A i \in 1..Len(sent) : sent'[i] = sent[i]
         /\ \/ sent' = sent
            \/ /\ Publish
               /\ Len(sent') = Len(sent) + 1
               /\ sent'[Len(sent) + 1] = requests[1].packet
<1>0. CallTypes /\ ChannelTypes
  BY TypeParts DEF TypeInv
<1>1. Len(sent) \in Nat
  BY <1>0 DEF ChannelTypes
<1>2. CASE Publish
  BY <1>0, <1>2, PublishSteps
<1>3. sent' = sent \/ Publish
  BY RestartKeeps
  DEF StreamsNext, StreamsProgress, ReceivePacket, CallReturns, Open,
     WriteChunk, Close, Cancel, DropWriter, PumpEnds, ResumeSession,
     DropReader, streamsVars, netVars
<1> QED  BY <1>1, <1>2, <1>3

LEMMA TrailerStays ==
  ASSUME TypeInv, [StreamsNext]_streamsVars, TrailerTried
  PROVE  TrailerTried'
<1>1. /\ Len(sent) \in Nat /\ \A i \in 1..Len(sent) : sent'[i] = sent[i]
      /\ sent' = sent \/ Len(sent') = Len(sent) + 1
  BY SentSteps
<1>2. DOMAIN sent = 1..Len(sent)
  BY TypeParts DEF TypeInv, ChannelTypes
<1>3. DOMAIN sent' = 1..Len(sent')
  BY StepTypes, TypeParts DEF TypeInv, StreamsTypeOK
<1>4. PICK i \in 1..Len(sent) : sent[i].type = "trailer"
  BY <1>2 DEF TrailerTried
<1>5. i \in 1..Len(sent') /\ sent'[i].type = "trailer"
  BY <1>1, <1>4
<1> QED  BY <1>3, <1>5 DEF TrailerTried

\* Chunks are made by write_chunk only.
LEMMA MadeSteps ==
  ASSUME TypeInv, [StreamsNext]_streamsVars,
         NEW p \in Packets, IsChunk(p), Made(p)'
  PROVE  Made(p) \/ (WriteChunk /\ p = Chunk(chunk_index, writes'))
<1>0. CallTypes /\ ChannelTypes
  BY TypeParts DEF TypeInv
<1>c. p.type = "chunk"
  BY DEF IsChunk
<1>1. ASSUME NEW op, NEW packet \in Packets, SendReceive(op, packet),
             sent' = sent, p # packet
      PROVE  Made(p)
  <2>1. CASE InSent(p)'
    BY <1>1, <2>1 DEF InSent, Made
  <2>2. ASSUME NEW i \in 1..Len(requests'), requests'[i].packet = p
        PROVE  InRequests(p)
    <3>1. /\ Len(requests) \in Nat
          /\ \A j \in 1..Len(requests) : requests'[j] = requests[j]
          /\ \/ /\ Len(requests') = Len(requests) + 1
                /\ requests'[Len(requests) + 1] =
                     [packet |-> packet, waits |-> TRUE]
             \/ requests' = requests
      BY <1>0, <1>1, SendSteps
    <3>2. i \in 1..Len(requests)
      <4>1. CASE requests' = requests
        BY <4>1
      <4>2. CASE /\ Len(requests') = Len(requests) + 1
                 /\ requests'[Len(requests) + 1].packet = packet
        BY <1>1, <2>2, <3>1, <4>2
      <4> QED  BY <3>1, <4>1, <4>2
    <3> QED  BY <2>2, <3>1, <3>2 DEF InRequests
  <2> QED  BY <2>1, <2>2 DEF Made, InRequests
<1>2. ASSUME NEW total \in Totals, Open(total)
      PROVE  Made(p)
  <2>1. Header(total) \in Packets /\ p # Header(total)
    BY <1>c, MakePackets DEF Header
  <2> QED  BY <1>1, <1>2, <2>1 DEF Open, netVars
<1>3. CASE WriteChunk
  <2>1. writes' \in 1..MaxWrites /\ chunk_index \in Nat
    BY <1>3, TypeParts, DataStreamsAssumption
    DEF TypeInv, WriteChunk, HistoryTypes, CallTypes
  <2>2. Chunk(chunk_index, writes') \in Packets
    BY <2>1, MakePackets
  <2> QED  BY <1>1, <1>3, <2>2 DEF WriteChunk, netVars
<1>4. ASSUME NEW abnormal \in BOOLEAN, Close(abnormal)
      PROVE  Made(p)
  <2>1. Trailer(abnormal) \in Packets /\ p # Trailer(abnormal)
    BY <1>c, MakePackets DEF Trailer
  <2> QED  BY <1>1, <1>4, <2>1 DEF Close, netVars
<1>5. CASE Publish
  <2>1. /\ Len(requests) \in Nat \ {0}
        /\ \A i \in 1..Len(requests') :
             i + 1 \in 1..Len(requests) /\ requests'[i] = requests[i + 1]
        /\ Len(sent) \in Nat
        /\ \A i \in 1..Len(sent) : sent'[i] = sent[i]
        /\ \/ sent' = sent
           \/ /\ Len(sent') = Len(sent) + 1
              /\ sent'[Len(sent) + 1] = requests[1].packet
    BY <1>0, <1>5, PublishSteps
  <2>2. ASSUME NEW i \in 1..Len(sent'), sent'[i] = p
        PROVE  Made(p)
    <3>1. CASE i \in 1..Len(sent)
      BY <2>1, <2>2, <3>1 DEF Made, InSent
    <3>2. CASE i \notin 1..Len(sent)
      <4>1. requests[1].packet = p
        BY <2>1, <2>2, <3>2
      <4> QED  BY <2>1, <4>1 DEF Made, InRequests
    <3> QED  BY <3>1, <3>2
  <2>3. ASSUME NEW i \in 1..Len(requests'), requests'[i].packet = p
        PROVE  Made(p)
    BY <2>1, <2>3 DEF Made, InRequests
  <2> QED  BY <2>2, <2>3 DEF Made, InSent, InRequests
<1>6. CASE Cancel
  <2>1. /\ Len(requests') = Len(requests)
        /\ \A i \in 1..Len(requests) : requests'[i].packet = requests[i].packet
    BY <1>0, <1>6, CancelSteps
  <2>2. sent' = sent
    BY <1>6 DEF Cancel, netVars
  <2> QED  BY <2>1, <2>2 DEF Made, InSent, InRequests
<1>7. CASE DropWriter
  <2>1. /\ Len(requests) \in Nat
        /\ \A i \in 1..Len(requests) : requests'[i] = requests[i]
        /\ \/ requests' = requests
           \/ /\ Len(requests') = Len(requests) + 1
              /\ requests'[Len(requests) + 1].packet.type = "trailer"
    BY <1>0, <1>7, DropSteps
  <2>2. sent' = sent
    BY <1>7 DEF DropWriter, netVars
  <2>3. ASSUME NEW i \in 1..Len(requests'), requests'[i].packet = p
        PROVE  InRequests(p)
    <3>1. i \in 1..Len(requests)
      BY <1>c, <2>1, <2>3
    <3> QED  BY <2>1, <2>3, <3>1 DEF InRequests
  <2> QED  BY <2>2, <2>3 DEF Made, InSent, InRequests
<1>8. CASE PumpEnds
  <2>1. sent' = sent /\ Len(requests') = 0
    BY <1>8 DEF PumpEnds, netVars
  <2> QED  BY <2>1 DEF Made, InSent, InRequests
<1>9. CASE sent' = sent /\ requests' = requests
  BY <1>9 DEF Made, InSent, InRequests
<1> QED
  BY <1>2, <1>3, <1>4, <1>5, <1>6, <1>7, <1>8, <1>9, RestartKeeps
  DEF StreamsNext, StreamsProgress, ReceivePacket, CallReturns, ResumeSession,
      DropReader, streamsVars, callVars, netVars

LEMMA StepIndex ==
  ASSUME TypeInv, IndexInv, [StreamsNext]_streamsVars
  PROVE  IndexInv'
<1>0. /\ chunk_index \in Nat /\ chunk_index' \in Nat
      /\ writes \in Nat /\ writes' \in Nat
  BY StepTypes, TypeParts, DataStreamsAssumption
  DEF TypeInv, CallTypes, HistoryTypes, StreamsTypeOK
<1>1. chunk_index <= chunk_index' /\ writes <= writes'
  BY <1>0, RestartKeeps
  DEF StreamsNext, StreamsProgress, Publish, ReceivePacket, CallReturns,
     Opened, Written, Closed, Open, WriteChunk, Close, Cancel, DropWriter,
     PumpEnds, ResumeSession, DropReader, streamsVars, writerVars, history
<1> DEFINE New(p) == WriteChunk /\ p = Chunk(chunk_index, writes')
<1>2. \A p \in Packets : IsChunk(p) /\ Made(p)' => Made(p) \/ New(p)
  BY MadeSteps
<1>3. \A p : New(p) => p.index = chunk_index /\ p.write = writes + 1
                       /\ writes' = writes + 1
  BY DEF WriteChunk, Chunk
<1>4. \A p \in Packets : IsChunk(p) => p.index \in Nat /\ p.write \in Nat
  BY PacketFields DEF IsChunk
<1>5. \A p, q : New(p) /\ New(q) => p = q
  OBVIOUS
<1> HIDE DEF New
<1>6. ASSUME NEW p \in Packets, Made(p)', IsChunk(p)
      PROVE  p.index <= chunk_index' /\ p.write <= writes'
  <2>1. CASE Made(p)
    <3>1. p.index <= chunk_index /\ p.write <= writes
      BY <1>6, <2>1 DEF IndexInv
    <3> QED  BY <1>0, <1>1, <1>4, <1>6, <3>1
  <2>2. CASE New(p)
    BY <1>0, <1>1, <1>3, <2>2
  <2> QED  BY <1>2, <1>6, <2>1, <2>2
<1>7. ASSUME NEW p \in Packets, NEW q \in Packets,
             Made(p)', IsChunk(p), Made(q)', IsChunk(q)
      PROVE  /\ p.write < q.write => p.index <= q.index
             /\ p.write = q.write => p = q
  <2>1. CASE Made(p) /\ Made(q)
    BY <1>7, <2>1 DEF IndexInv
  <2>2. CASE Made(p) /\ New(q)
    <3>1. p.index <= chunk_index /\ p.write <= writes
      BY <1>7, <2>2 DEF IndexInv
    <3> QED  BY <1>0, <1>3, <1>4, <1>7, <2>2, <3>1
  <2>3. CASE New(p) /\ Made(q)
    <3>1. q.index <= chunk_index /\ q.write <= writes
      BY <1>7, <2>3 DEF IndexInv
    <3> QED  BY <1>0, <1>3, <1>4, <1>7, <2>3, <3>1
  <2>4. CASE New(p) /\ New(q)
    BY <1>4, <1>5, <1>7, <2>4
  <2> QED  BY <1>2, <1>7, <2>1, <2>2, <2>3, <2>4
<1>8. \A p : IsChunk(p)' <=> IsChunk(p)
  BY DEF IsChunk
<1> QED  BY <1>6, <1>7 DEF IndexInv, IsChunk

-----------------------------------------------------------------------------
\* What the reader has read.

\* The packet that arrives has been made.
LEMMA Arrives ==
  ASSUME ChannelTypes, ReceivePacket
  PROVE  /\ Head(net) = net[1] /\ net[1] \in 1..Len(sent)
         /\ Len(net) \in Nat \ {0}
         /\ Len(net') = Len(net) - 1
         /\ \A x \in 1..Len(net') :
              x + 1 \in 1..Len(net) /\ net'[x] = net[x + 1]
         /\ sent' = sent
         /\ sent[net[1]] \in Packets /\ Made(sent[net[1]])
         /\ \/ HandleHeader(sent[net[1]])
            \/ HandleChunk(sent[net[1]])
            \/ HandleTrailer(sent[net[1]])
<1>1. net \in Seq(1..Len(sent)) /\ net # <<>> /\ sent \in Seq(Packets)
  BY DEF ChannelTypes, ReceivePacket
<1>2. /\ Head(net) = net[1] /\ net[1] \in 1..Len(sent)
      /\ Len(net) \in Nat \ {0}
      /\ Len(Tail(net)) = Len(net) - 1
      /\ \A x \in 1..(Len(net) - 1) :
           x + 1 \in 1..Len(net) /\ Tail(net)[x] = net[x + 1]
  BY <1>1, Tailed
<1>3. sent[net[1]] \in Packets
  BY <1>1, <1>2, Element
<1>4. Made(sent[net[1]])
  BY <1>2 DEF Made, InSent
<1> QED  BY <1>2, <1>3, <1>4 DEF ReceivePacket

LEMMA StepRead ==
  ASSUME TypeInv, IndexInv, ReadInv, [StreamsNext]_streamsVars
  PROVE  ReadInv'
<1>0. CallTypes /\ ChannelTypes /\ ReaderTypes /\ HistoryTypes
  BY TypeParts DEF TypeInv
<1>t. /\ Len(read) \in Nat /\ progress.index \in Nat /\ progress.bytes \in Nat
      /\ progress.total \in Nat \cup {NoTotal}
      /\ DOMAIN read = 1..Len(read)
      /\ \A i \in 1..Len(read) : read[i] \in Nat
      /\ writes \in Nat
  BY <1>0, DataStreamsAssumption DEF ReaderTypes, HistoryTypes
<1>n. \A p \in Packets : IsChunk(p) => p.index \in Nat /\ p.write \in Nat
  BY PacketFields DEF IsChunk
<1>s. TrailerTried => TrailerTried'
  BY TrailerStays
\* A step that leaves the reader alone, or drops it.
<1>1. ASSUME UNCHANGED <<open_stream, progress, read, opened>>,
             reader' = reader \/ reader' = "dropped"
      PROVE  ReadInv'
  <2>1. CASE reader' = "dropped"
    BY <1>1, <2>1 DEF ReadInv, Increasing
  <2>2. CASE reader' = reader
    <3>1. ASSUME reader = "reading", NEW i \in 1..Len(read)
          PROVE  /\ read[i] <= writes'
                 /\ \A p \in Packets :
                      Made(p)' /\ IsChunk(p) /\ p.index >= progress.index =>
                        read[i] < p.write
      <4>1. writes' = writes \/ writes' = writes + 1
        BY RestartKeeps
        DEF StreamsNext, StreamsProgress, Publish, ReceivePacket, CallReturns,
            Open, WriteChunk, Close, Cancel, DropWriter, PumpEnds,
            ResumeSession, DropReader, streamsVars, history
      <4>2. read[i] <= writes
        BY <3>1 DEF ReadInv
      <4>3. ASSUME NEW p \in Packets, Made(p)', IsChunk(p),
                   p.index >= progress.index
            PROVE  read[i] < p.write
        <5>1. CASE Made(p)
          BY <3>1, <4>3, <5>1 DEF ReadInv
        <5>2. CASE WriteChunk /\ p = Chunk(chunk_index, writes')
          <6>1. p.write = writes + 1
            BY <5>2 DEF WriteChunk, Chunk
          <6> QED  BY <1>t, <4>2, <6>1
        <5> QED  BY <4>3, <5>1, <5>2, MadeSteps
      <4> QED  BY <1>t, <4>1, <4>2, <4>3
    <3>2. (reader = "reading" =>
            /\ open_stream
            /\ Len(read) = progress.index
            /\ progress.bytes = progress.index
            /\ \A i \in 1..Len(read) :
                 /\ read[i] <= writes
                 /\ \A p \in Packets :
                      Made(p) /\ IsChunk(p) /\ p.index >= progress.index =>
                        read[i] < p.write)'
      <4>1. reader = "reading" => open_stream /\ Len(read) = progress.index
                                  /\ progress.bytes = progress.index
        BY DEF ReadInv
      <4> QED  BY <1>1, <2>2, <3>1, <4>1 DEF IsChunk
    <3>3. Increasing(read)'
      BY <1>1 DEF ReadInv, Increasing
    <3> QED  BY <1>1, <1>s, <2>2, <3>2, <3>3 DEF ReadInv
  <2> QED  BY <1>1, <2>1, <2>2
<1>2. CASE ReceivePacket
  <2> DEFINE p == sent[net[1]]
  <2>1. /\ p \in Packets /\ Made(p)
        /\ HandleHeader(p) \/ HandleChunk(p) \/ HandleTrailer(p)
        /\ net[1] \in 1..Len(sent) /\ sent' = sent
    BY <1>0, <1>2, Arrives
  <2>2. \A q \in Packets : Made(q)' => Made(q)
    BY <1>2 DEF ReceivePacket, Made, InSent, InRequests, callVars
  <2>3. writes' = writes
    BY <1>2 DEF ReceivePacket, history
  <2>4. CASE UNCHANGED <<open_stream, progress, reader, read, opened>>
    BY <1>1, <2>4
  <2> HIDE DEF p
  <2>5. CASE /\ p.type = "header" /\ open_stream' = TRUE
             /\ progress' = [index |-> 0, bytes |-> 0, total |-> p.total]
             /\ reader' = "reading" /\ read' = <<>>
    <3>1. Len(read') = 0 /\ DOMAIN read' = {}
      BY <2>5
    <3>2. p.total \in Nat \cup {NoTotal}
      BY <2>1, <2>5, PacketFields, DataStreamsAssumption
    <3>3. /\ progress'.index = 0 /\ progress'.bytes = 0
          /\ progress'.total = p.total
      BY <2>5
    <3>4. Increasing(read')
      BY <3>1 DEF Increasing
    <3> QED  BY <2>5, <3>1, <3>2, <3>3, <3>4 DEF ReadInv
  <2>6. CASE /\ CloseStream("missed") /\ open_stream
             /\ UNCHANGED <<progress, read>>
    <3>1. reader' \notin {"reading", "complete"} /\ ~open_stream'
      BY <2>6 DEF CloseStream, ReadInv
    <3>2. Increasing(read)'
      BY <2>6 DEF ReadInv, Increasing
    <3> QED  BY <3>1, <3>2 DEF ReadInv
  <2>7. CASE /\ p.type = "chunk" /\ IsNext(p)
             /\ progress' = [progress EXCEPT !.index = @ + 1, !.bytes = @ + 1]
             /\ ~(progress.total # NoTotal /\ progress'.bytes > progress.total)
             /\ reader = "reading" /\ read' = Append(read, p.write)
             /\ UNCHANGED <<open_stream, reader>>
    <3>1. /\ progress'.index = progress.index + 1
          /\ progress'.bytes = progress.bytes + 1
          /\ progress'.total = progress.total
      BY <1>0, <2>7 DEF ReaderTypes
    <3>2. /\ p.index = progress.index /\ IsChunk(p)
          /\ p.write \in 1..MaxWrites
      BY <2>1, <2>7, PacketFields DEF IsNext, IsChunk
    <3>3. /\ Len(read') = Len(read) + 1
          /\ read'[Len(read) + 1] = p.write
          /\ \A i \in 1..Len(read) : read'[i] = read[i]
          /\ DOMAIN read' = 1..Len(read')
      BY <1>0, <2>7, <3>2, Appended DEF ReaderTypes
    <3>4. /\ open_stream /\ Len(read) = progress.index
          /\ progress.bytes = progress.index
          /\ \A i \in 1..Len(read) : read[i] <= writes /\ read[i] < p.write
      <4>1. p.index >= progress.index
        BY <1>t, <3>2
      <4> QED  BY <2>1, <2>7, <3>2, <4>1 DEF ReadInv
    <3>5. p.write <= writes
      BY <2>1, <3>2 DEF IndexInv
    <3>6. ASSUME NEW i \in 1..Len(read')
          PROVE  /\ read'[i] <= writes'
                 /\ \A q \in Packets :
                      Made(q)' /\ IsChunk(q) /\ q.index >= progress'.index =>
                        read'[i] < q.write
      <4>1. read'[i] <= p.write /\ read'[i] \in Nat
        BY <1>t, <3>2, <3>3, <3>4
      <4>2. ASSUME NEW q \in Packets, Made(q)', IsChunk(q),
                   q.index >= progress'.index
            PROVE  p.write < q.write
        <5>1. q.index \in Nat /\ q.write \in Nat /\ p.write \in Nat
          BY <1>n, <3>2, <4>2
        <5>2. q.index > p.index
          BY <1>t, <3>1, <3>2, <4>2, <5>1
        <5>3. /\ q.write < p.write => q.index <= p.index
              /\ q.write = p.write => q = p
          BY <2>1, <2>2, <3>2, <4>2 DEF IndexInv
        <5> QED  BY <1>t, <3>2, <5>1, <5>2, <5>3
      <4>3. p.write \in Nat
        BY <3>2
      <4> QED  BY <1>n, <1>t, <2>3, <3>5, <4>1, <4>2, <4>3
    <3>7. Increasing(read')
      <4>1. Increasing(read)
        BY <2>7 DEF ReadInv
      <4> QED  BY <1>t, <3>3, <3>4, <4>1 DEF Increasing
    <3>8. Len(read') = progress'.index /\ progress'.bytes = progress'.index
      BY <1>t, <3>1, <3>3, <3>4
    <3>9. progress'.total # NoTotal => progress'.bytes <= progress'.total
      BY <1>t, <2>7, <3>1
    <3>10. open_stream' /\ reader' = "reading"
      BY <2>7, <3>4
    <3> QED  BY <3>6, <3>7, <3>8, <3>9, <3>10 DEF ReadInv, IsChunk
  <2>8. CASE /\ open_stream /\ UNCHANGED read
             /\ \/ CloseStream("exceeded")
                \/ CloseStream("dropped") /\ reader # "reading"
    <3>1. reader' \notin {"reading", "complete"} /\ ~open_stream'
      BY <2>8 DEF CloseStream, ReadInv
    <3>2. Increasing(read)'
      BY <2>8 DEF ReadInv, Increasing
    <3> QED  BY <3>1, <3>2 DEF ReadInv
  <2>9. CASE /\ p.type = "trailer" /\ open_stream
             /\ CloseStream(IF IsShort THEN "incomplete"
                            ELSE IF p.abnormal THEN "abnormal" ELSE "complete")
             /\ UNCHANGED <<progress, read>>
    <3>1. ~open_stream'
      BY <2>9 DEF CloseStream
    <3>2. TrailerTried'
      <4>1. DOMAIN sent = 1..Len(sent)
        BY <1>0 DEF ChannelTypes
      <4> QED  BY <2>1, <2>9, <4>1 DEF TrailerTried, p
    <3>3. reader # "complete"
      BY <2>9 DEF ReadInv
    <3>4. reader' = "complete" => reader = "reading" /\ ~IsShort
      BY <2>9, <3>3 DEF CloseStream
    <3>5. reader' # "reading"
      BY <2>9 DEF CloseStream
    <3>6. reader' = "complete" =>
            (progress'.total # NoTotal => Len(read') = progress'.total)
      BY <1>t, <2>9, <3>4 DEF ReadInv, IsShort
    <3>7. Increasing(read)'
      BY <2>9 DEF ReadInv, Increasing
    <3> QED  BY <3>1, <3>2, <3>5, <3>6, <3>7 DEF ReadInv
  <2> QED
    BY <2>1, <2>4, <2>5, <2>6, <2>7, <2>8, <2>9
    DEF HandleHeader, HandleChunk, HandleTrailer, readerVars
<1>3. CASE DropReader
  BY <1>1, <1>3 DEF DropReader
<1> QED
  BY <1>1, <1>2, <1>3, RestartKeeps
  DEF StreamsNext, StreamsProgress, Publish, CallReturns, Open, WriteChunk,
      Close, Cancel, DropWriter, PumpEnds, ResumeSession, streamsVars,
      readerVars

\* How read changes.
LEMMA ReadSteps ==
  ASSUME TypeInv, [StreamsNext]_streamsVars
  PROVE  \/ read' = read
         \/ Len(read') = 0
         \/ \E p \in Packets :
              /\ InSent(p) /\ IsChunk(p) /\ p.index = progress.index
              /\ ReceivePacket /\ p = sent[net[1]]
              /\ reader = "reading"
              /\ read' = Append(read, p.write)
<1>0. ChannelTypes
  BY TypeParts DEF TypeInv
<1>1. CASE ReceivePacket
  <2> DEFINE p == sent[net[1]]
  <2>1. /\ p \in Packets /\ net[1] \in 1..Len(sent)
        /\ HandleHeader(p) \/ HandleChunk(p) \/ HandleTrailer(p)
    BY <1>0, <1>1, Arrives
  <2>2. InSent(p)
    BY <2>1 DEF InSent
  <2> HIDE DEF p
  <2>3. CASE HandleHeader(p)
    <3>1. read' = read \/ read' = <<>>
      BY <2>3 DEF HandleHeader, readerVars
    <3> QED  BY <3>1
  <2>4. CASE HandleChunk(p)
    <3>1. \/ read' = read
          \/ /\ p.type = "chunk" /\ IsNext(p) /\ reader = "reading"
             /\ read' = Append(read, p.write)
      BY <2>4 DEF HandleChunk, readerVars, CloseStream
    <3> QED  BY <1>1, <2>1, <2>2, <3>1 DEF IsChunk, IsNext, p
  <2>5. CASE HandleTrailer(p)
    BY <2>5 DEF HandleTrailer
  <2> QED  BY <2>1, <2>3, <2>4, <2>5
<1>2. CASE ~ReceivePacket
  BY <1>2, RestartKeeps
  DEF StreamsNext, StreamsProgress, Publish, CallReturns, Open, WriteChunk,
      Close, Cancel, DropWriter, PumpEnds, ResumeSession, DropReader,
      streamsVars, readerVars
<1> QED  BY <1>1, <1>2

LEMMA StepFromSent ==
  ASSUME TypeInv, ReadInv, FromSent, [StreamsNext]_streamsVars
  PROVE  FromSent'
<1>0. ChannelTypes /\ ReaderTypes
  BY TypeParts DEF TypeInv
<1>1. ASSUME NEW p \in Packets, InSent(p)
      PROVE  InSent(p)'
  <2>1. PICK i \in 1..Len(sent) : sent[i] = p
    BY <1>1 DEF InSent
  <2>2. i \in 1..Len(sent') /\ sent'[i] = p
    BY <2>1, SentSteps
  <2> QED  BY <2>2 DEF InSent
<1>2. CASE read' = read
  BY <1>1, <1>2 DEF FromSent, IsChunk
<1>3. CASE Len(read') = 0
  BY <1>3 DEF FromSent
<1>4. ASSUME NEW p \in Packets, InSent(p), IsChunk(p),
             p.index = progress.index, reader = "reading",
             read' = Append(read, p.write)
      PROVE  FromSent'
  <2>1. p.write \in 1..MaxWrites
    BY <1>4, PacketFields DEF IsChunk
  <2>2. /\ Len(read) \in Nat /\ Len(read') = Len(read) + 1
        /\ read'[Len(read) + 1] = p.write
        /\ \A i \in 1..Len(read) : read'[i] = read[i]
    BY <1>0, <1>4, <2>1, Appended DEF ReaderTypes
  <2>3. Len(read) = progress.index
    BY <1>4 DEF ReadInv
  <2>4. ASSUME NEW i \in 1..Len(read')
        PROVE  \E q \in Packets :
                 /\ InSent(q)' /\ IsChunk(q)
                 /\ q.write = read'[i] /\ q.index = i - 1
    <3>1. CASE i \in 1..Len(read)
      <4>1. PICK q \in Packets : /\ InSent(q) /\ IsChunk(q)
                                 /\ q.write = read[i] /\ q.index = i - 1
        BY <3>1 DEF FromSent
      <4> QED  BY <1>1, <2>2, <3>1, <4>1
    <3>2. CASE i \notin 1..Len(read)
      <4>1. i = Len(read) + 1
        BY <2>2, <3>2
      <4> QED  BY <1>1, <1>4, <2>2, <2>3, <4>1
    <3> QED  BY <3>1, <3>2
  <2> QED  BY <2>4 DEF FromSent, IsChunk
<1> QED  BY <1>2, <1>3, <1>4, ReadSteps

-----------------------------------------------------------------------------
\* How many chunks there are.

LEMMA StepCount ==
  ASSUME TypeInv, CallInv, IndexInv, CountInv, [StreamsNext]_streamsVars
  PROVE  CountInv'
<1>0. /\ writes \in Nat /\ chunk_index \in Nat
      /\ call = "write" => writes > 0
      /\ acked \subseteq 1..writes
  BY TypeParts, DataStreamsAssumption
  DEF TypeInv, HistoryTypes, CallTypes, CountInv
<1>p. \A p \in Packets : IsChunk(p) => p.index \in Nat /\ p.write \in Nat \ {0}
  BY PacketFields DEF IsChunk
<1>m. ASSUME UNCHANGED <<writes, acked>>
      PROVE  \A p \in Packets :
               Made(p) /\ IsChunk(p) /\ 1..(p.write - 1) \subseteq acked' =>
                 p.index = p.write - 1
  BY <1>m DEF CountInv
\* The acknowledged writes and their index stay.
<1>1. ASSUME UNCHANGED <<writes, acked, chunk_index>>, ~WriteChunk,
             \/ call' = call
             \/ call # "write" /\ call' # "write"
             \/ call = "write" /\ call' = "none"
      PROVE  CountInv'
  <2>1. \A p \in Packets :
          Made(p)' /\ IsChunk(p) /\ 1..(p.write - 1) \subseteq acked' =>
            p.index = p.write - 1
    BY <1>1, <1>m, MadeSteps
  <2>2. CASE call' = call
    BY <1>1, <2>1, <2>2 DEF CountInv, IsChunk
  <2>3. CASE call # "write" /\ call' # "write"
    BY <1>1, <2>1, <2>3 DEF CountInv, IsChunk
  <2>4. CASE call = "write" /\ call' = "none"
    <3>1. writes \in 1..writes /\ writes \notin acked
      BY <1>0, <2>4 DEF CountInv
    <3>2. ~(1..writes' \subseteq acked')
      BY <1>1, <3>1
    <3> QED  BY <1>1, <2>1, <2>4, <3>2 DEF CountInv, IsChunk
  <2> QED  BY <1>1, <2>2, <2>3, <2>4
<1>2. CASE WriteChunk
  <2>1. /\ call = "none" /\ call' = "write" /\ writes' = writes + 1
        /\ UNCHANGED <<acked, chunk_index>>
    BY <1>2 DEF WriteChunk, SendReceive, writerVars
  <2>2. writes' - 1 = writes /\ writes' \notin acked
    BY <1>0, <2>1
  <2>3. 1..(writes' - 1) \subseteq acked' => chunk_index' = writes' - 1
    BY <2>1, <2>2 DEF CountInv
  <2>4. acked' \subseteq 1..writes'
    BY <1>0, <2>1
  <2>5. ASSUME NEW p \in Packets, Made(p)', IsChunk(p),
               1..(p.write - 1) \subseteq acked'
        PROVE  p.index = p.write - 1
    <3>1. CASE Made(p)
      BY <2>1, <2>5, <3>1 DEF CountInv
    <3>2. CASE p = Chunk(chunk_index, writes')
      BY <2>1, <2>3, <2>5, <3>2 DEF Chunk
    <3> QED  BY <2>5, <3>1, <3>2, MadeSteps
  <2> QED  BY <2>1, <2>2, <2>3, <2>4, <2>5 DEF CountInv, IsChunk
<1>3. CASE CallReturns /\ ~Written
  <2>1. /\ UNCHANGED <<writes, acked, chunk_index>>
        /\ call # "write" /\ call' = "none"
    BY <1>3 DEF CallReturns, Opened, Closed
  <2>2. ~WriteChunk
    BY <2>1 DEF WriteChunk, SendReceive
  <2> QED  BY <1>1, <2>1, <2>2
<1>4. CASE CallReturns /\ Written
  <2>1. /\ call = "write" /\ call' = "none" /\ writes' = writes
        /\ \/ UNCHANGED acked
           \/ acked' = acked \cup {writes} /\ chunk_index' = chunk_index + 1
    BY <1>4 DEF CallReturns, Written
  <2>2. writes \in 1..writes /\ writes \notin acked /\ writes - 1 \in Nat
    BY <1>0, <2>1 DEF CountInv
  <2>3. \A m \in 0..writes :
          1..m \subseteq acked' =>
            1..(IF m = writes THEN m - 1 ELSE m) \subseteq acked
    <3>1. ASSUME NEW m \in 0..writes, 1..m \subseteq acked'
          PROVE  1..(IF m = writes THEN m - 1 ELSE m) \subseteq acked
      <4>1. \A x \in 1..(IF m = writes THEN m - 1 ELSE m) :
              x \in 1..m /\ x # writes
        BY <1>0
      <4> QED  BY <2>1, <3>1, <4>1
    <3> QED  BY <3>1
  <2>4. 1..writes \subseteq acked' => chunk_index' = writes
    <3> SUFFICES ASSUME 1..writes \subseteq acked'
                 PROVE  chunk_index' = writes
      OBVIOUS
    <3>1. 1..(writes - 1) \subseteq acked
      BY <1>0, <2>3
    <3>2. chunk_index = writes - 1
      BY <2>1, <3>1 DEF CountInv
    <3>3. chunk_index' = chunk_index + 1
      BY <2>1, <2>2
    <3> QED  BY <1>0, <3>2, <3>3
  <2>5. ASSUME NEW p \in Packets, Made(p)', IsChunk(p),
               1..(p.write - 1) \subseteq acked'
        PROVE  p.index = p.write - 1
    <3>1. Made(p)
      <4>1. ~WriteChunk
        BY <2>1 DEF WriteChunk, SendReceive
      <4> QED  BY <2>5, <4>1, MadeSteps
    <3>2. p.write <= writes
      BY <2>5, <3>1 DEF IndexInv
    <3>3. p.write - 1 \in 0..writes /\ p.write - 1 # writes
      BY <1>0, <1>p, <2>5, <3>2
    <3>4. 1..(p.write - 1) \subseteq acked
      BY <2>3, <2>5, <3>3
    <3> QED  BY <2>5, <3>1, <3>4 DEF CountInv
  <2>6. acked' \subseteq 1..writes'
    BY <1>0, <2>1, <2>2
  <2> QED  BY <2>1, <2>4, <2>5, <2>6 DEF CountInv, IsChunk
<1>5. CASE Cancel
  <2>1. UNCHANGED <<writes, acked, chunk_index>> /\ call' = "none"
    BY <1>5 DEF Cancel
  <2>2. ~WriteChunk
    BY <1>5 DEF Cancel, WriteChunk, SendReceive
  <2> QED  BY <1>1, <2>1, <2>2
<1>6. ASSUME NEW total \in Totals, Open(total)
      PROVE  CountInv'
  <2>1. /\ UNCHANGED <<writes, acked, chunk_index>>
        /\ call = "none" /\ call' = "open"
    BY <1>6 DEF Open, SendReceive, writerVars, history
  <2>2. ~WriteChunk
    BY <2>1 DEF WriteChunk, SendReceive
  <2> QED  BY <1>1, <2>1, <2>2
<1>7. ASSUME NEW abnormal \in BOOLEAN, Close(abnormal)
      PROVE  CountInv'
  <2>1. /\ UNCHANGED <<writes, acked, chunk_index>>
        /\ call = "none" /\ call' = "close"
    BY <1>7 DEF Close, SendReceive, writerVars, history
  <2>2. ~WriteChunk
    BY <2>1 DEF WriteChunk, SendReceive
  <2> QED  BY <1>1, <2>1, <2>2
<1>8. CASE UNCHANGED <<writes, acked, chunk_index, call>>
  <2>1. ~WriteChunk
    BY <1>8 DEF WriteChunk, SendReceive
  <2> QED  BY <1>1, <1>8, <2>1
<1> QED
  BY <1>2, <1>3, <1>4, <1>5, <1>6, <1>7, <1>8, RestartKeeps
  DEF StreamsNext, StreamsProgress, Publish, ReceivePacket, DropWriter,
      PumpEnds, ResumeSession, DropReader, streamsVars, writerVars, callVars,
      history

-----------------------------------------------------------------------------
\* Writes that succeeded.

\* publish_data has sent the first request.
PublishSends ==
  /\ Publish
  /\ sent' = Append(sent, requests[1].packet)
  /\ net' = Append(net, Len(sent'))

\* A write succeeds when its chunk is sent, if no trailer has been tried.
LEMMA SucceededSteps ==
  ASSUME TypeInv, CallInv, [StreamsNext]_streamsVars,
         NEW a \in 1..MaxWrites, Succeeded(a)'
  PROVE  \/ Succeeded(a)
         \/ /\ PublishSends
            /\ IsChunk(requests[1].packet) /\ requests[1].packet.write = a
            /\ ~TrailerTried' /\ a = writes
<1>0. CallTypes /\ ChannelTypes /\ HistoryTypes
  BY TypeParts DEF TypeInv
<1>1. TrailerTried => TrailerTried'
  BY TrailerStays
<1>2. CASE Publish
  <2>1. /\ requests[1] = Head(requests) /\ Len(requests) \in Nat \ {0}
    BY <1>0, <1>2, Tailed DEF Publish, CallTypes
  <2>2. UNCHANGED <<acked, writes, call, chunk_index>>
    BY <1>2 DEF Publish, writerVars
  <2>3. CASE answer' = answer
    BY <1>1, <2>2, <2>3 DEF Succeeded
  <2>4. CASE answer' # answer /\ a \notin acked
    <3>1. a = writes /\ call = "write" /\ answer' = "ok" /\ ~TrailerTried'
      BY <2>2, <2>4 DEF Succeeded
    <3>2. requests[1].waits /\ PublishSends
      BY <1>2, <2>1, <2>4, <3>1 DEF Publish, PublishSends
    <3>3. requests[1].packet = Chunk(chunk_index, writes)
      BY <2>1, <3>1, <3>2 DEF CallInv
    <3> QED  BY <3>1, <3>2, <3>3 DEF Chunk, IsChunk
  <2>5. CASE a \in acked
    BY <2>5 DEF Succeeded
  <2> QED  BY <2>3, <2>4, <2>5
<1>3. CASE CallReturns
  <2>1. call' = "none" /\ a \in acked'
    BY <1>3 DEF CallReturns, Succeeded
  <2>2. \/ acked' = acked
        \/ /\ acked' = acked \cup {writes}
           /\ call = "write" /\ answer = "ok" /\ ~TrailerTried
    BY <1>3 DEF CallReturns, Opened, Written, Closed
  <2> QED  BY <2>1, <2>2 DEF Succeeded
<1>4. CASE UNCHANGED <<acked, writes, call, answer>>
  BY <1>1, <1>4 DEF Succeeded
<1>5. ASSUME NEW op, NEW packet, SendReceive(op, packet), acked' = acked
      PROVE  Succeeded(a)
  <2>1. answer' # "ok"
    BY <1>5 DEF SendReceive, CallInv
  <2> QED  BY <1>5, <2>1 DEF Succeeded
<1>6. CASE Cancel
  BY <1>6 DEF Cancel, Succeeded
<1>7. CASE PumpEnds
  <2>1. answer' = "error" \/ answer' = answer
    BY <1>7 DEF PumpEnds
  <2>2. UNCHANGED <<acked, writes, call>>
    BY <1>7 DEF PumpEnds, history
  <2> QED  BY <1>1, <2>1, <2>2 DEF Succeeded
<1>8. CASE WriteChunk
  BY <1>5, <1>8 DEF WriteChunk
<1>9. ASSUME NEW total \in Totals, Open(total)
      PROVE  Succeeded(a)
  BY <1>5, <1>9 DEF Open, history
<1>10. ASSUME NEW abnormal \in BOOLEAN, Close(abnormal)
       PROVE  Succeeded(a)
  BY <1>5, <1>10 DEF Close, history
<1> QED
  BY <1>2, <1>3, <1>4, <1>6, <1>7, <1>8, <1>9, <1>10, RestartKeeps
  DEF StreamsNext, StreamsProgress, ReceivePacket, DropWriter, ResumeSession,
      DropReader, streamsVars, callVars, history

\* Where the chunk of write a stands in what has been sent.
SentAt(a, i) ==
  /\ i \in 1..Len(sent)
  /\ IsChunk(sent[i]) /\ sent[i].write = a
  /\ \A j \in 1..Len(sent) : After(a, sent[j]) => i < j

\* Nothing comes after the last write as long as there is no trailer.
LEMMA NoneAfter ==
  ASSUME TypeInv, IndexInv, ~TrailerTried, NEW i \in 1..Len(sent)
  PROVE  ~After(writes, sent[i])
<1>1. sent[i] \in Packets /\ InSent(sent[i]) /\ DOMAIN sent = 1..Len(sent)
  BY TypeParts DEF TypeInv, ChannelTypes, InSent
<1>2. sent[i].type # "trailer"
  BY <1>1 DEF TrailerTried
<1>3. CASE sent[i].type = "chunk"
  <2>1. sent[i].write <= writes
    BY <1>1, <1>3 DEF IndexInv, Made, IsChunk
  <2>2. sent[i].write \in Nat /\ writes \in Nat
    BY <1>1, <1>3, PacketFields, TypeParts, DataStreamsAssumption
    DEF TypeInv, HistoryTypes
  <2> QED  BY <1>2, <2>1, <2>2 DEF After
<1> QED  BY <1>2, <1>3 DEF After

LEMMA StepSent ==
  ASSUME TypeInv, CallInv, IndexInv, SentInv, [StreamsNext]_streamsVars
  PROVE  SentInv'
<1> SUFFICES ASSUME NEW a \in 1..MaxWrites, Succeeded(a)'
             PROVE  \E i : SentAt(a, i)'
  BY DEF SentInv, SentAt
<1>1. /\ Len(sent) \in Nat
      /\ \A i \in 1..Len(sent) : sent'[i] = sent[i]
      /\ sent' = sent \/ Len(sent') = Len(sent) + 1
  BY SentSteps
<1>2. CASE Succeeded(a)
  <2>1. PICK i : SentAt(a, i)
    BY <1>2 DEF SentInv, SentAt
  <2>2. i \in 1..Len(sent') /\ IsChunk(sent'[i]) /\ sent'[i].write = a
    BY <1>1, <2>1 DEF SentAt, IsChunk
  <2>3. ASSUME NEW j \in 1..Len(sent'), After(a, sent'[j])
        PROVE  i < j
    BY <1>1, <2>1, <2>3 DEF SentAt
  <2> QED  BY <2>2, <2>3 DEF SentAt, IsChunk, After
<1>3. CASE /\ PublishSends
           /\ IsChunk(requests[1].packet) /\ requests[1].packet.write = a
           /\ ~TrailerTried' /\ a = writes
  <2>0. CallTypes /\ ChannelTypes /\ Publish
    BY <1>3, TypeParts DEF TypeInv, PublishSends
  <2>1. /\ requests[1].packet \in Packets /\ sent \in Seq(Packets)
        /\ sent' = Append(sent, requests[1].packet)
    BY <1>3, <2>0, PublishSteps DEF PublishSends, ChannelTypes
  <2>2. /\ Len(sent') = Len(sent) + 1
        /\ sent'[Len(sent) + 1] = requests[1].packet
        /\ DOMAIN sent' = 1..Len(sent')
    BY <2>1, Appended
  <2>3. ASSUME NEW j \in 1..Len(sent')
        PROVE  ~After(a, sent'[j])
    <3>1. CASE j \in 1..Len(sent)
      <4>1. ~After(writes, sent[j])
        BY <1>3, <3>1, TrailerStays, NoneAfter
      <4> QED  BY <1>1, <1>3, <3>1, <4>1
    <3>2. CASE j \notin 1..Len(sent)
      <4>1. sent'[j] = requests[1].packet
        BY <1>1, <2>2, <3>2
      <4>2. sent'[j].type = "chunk" /\ sent'[j].write = a
        BY <1>3, <4>1 DEF IsChunk
      <4> QED  BY <4>2 DEF After
    <3> QED  BY <3>1, <3>2
  <2> QED  BY <1>1, <1>3, <2>2, <2>3 DEF SentAt, IsChunk, After
<1> QED  BY <1>2, <1>3, SucceededSteps

\* A write that succeeded is covered on to a later place, past no header.
LEMMA CoverOn ==
  ASSUME Len(net) \in Nat,
         NEW a, NEW x \in 1..(Len(net) + 1), NEW x1 \in Nat, x <= x1,
         \A z \in 1..Len(net) : sent'[net'[z]] = sent[net[z]],
         \A z \in x..(x1 - 1) : sent'[net'[z]].type # "header",
         reader' = "reading" => reader = "reading" /\ read' = read,
         Covered(a, x)
  PROVE  Covered(a, x1)'
<1>1. ASSUME NEW y \in 1..(x - 1),
             sent[net[y]].type = "chunk", sent[net[y]].write = a,
             \A z \in y..(x - 1) : sent[net[z]].type # "header"
      PROVE  Covered(a, x1)'
  <2>1. y \in 1..(x1 - 1) /\ y \in 1..Len(net)
    OBVIOUS
  <2>2. \A z \in y..(x1 - 1) : sent'[net'[z]].type # "header"
    <3>1. ASSUME NEW z \in y..(x1 - 1)
          PROVE  sent'[net'[z]].type # "header"
      <4>1. CASE z < x
        <5>1. z \in y..(x - 1) /\ z \in 1..Len(net)
          BY <4>1
        <5> QED  BY <1>1, <5>1
      <4>2. CASE z >= x
        <5>1. z \in x..(x1 - 1)
          BY <4>2
        <5> QED  BY <5>1
      <4> QED  BY <4>1, <4>2
    <3> QED  BY <3>1
  <2>3. sent'[net'[y]].type = "chunk" /\ sent'[net'[y]].write = a
    BY <1>1, <2>1
  <2> QED  BY <2>1, <2>2, <2>3 DEF Covered, TypeAt
<1>2. ASSUME \A z \in 1..(x - 1) : sent[net[z]].type # "header",
             reader = "reading" => IsRead(a)
      PROVE  Covered(a, x1)'
  <2>1. \A z \in 1..(x1 - 1) : sent'[net'[z]].type # "header"
    <3>1. ASSUME NEW z \in 1..(x1 - 1)
          PROVE  sent'[net'[z]].type # "header"
      <4>1. CASE z < x
        <5>1. z \in 1..(x - 1) /\ z \in 1..Len(net)
          BY <4>1
        <5> QED  BY <1>2, <5>1
      <4>2. CASE z >= x
        <5>1. z \in x..(x1 - 1)
          BY <4>2
        <5> QED  BY <5>1
      <4> QED  BY <4>1, <4>2
    <3> QED  BY <3>1
  <2>2. reader' = "reading" => IsRead(a)'
    BY <1>2 DEF IsRead
  <2> QED  BY <2>1, <2>2 DEF Covered, TypeAt
<1> QED  BY <1>1, <1>2 DEF Covered, TypeAt

\* A write that succeeded had a header before it.
LEMMA HeaderPast ==
  ASSUME TypeInv, HeaderInv, SentInv, NEW a \in 1..MaxWrites, Succeeded(a)
  PROVE  \A i \in 1..Len(requests) : requests[i].packet.type # "header"
<1>1. \E i \in 1..Len(sent) : IsChunk(sent[i])
  BY DEF SentInv
<1>2. Len(sent) # 0
  BY <1>1
<1>3. sent # <<>>
  BY <1>2
<1> QED  BY <1>3 DEF HeaderInv

\* What publish_data adds to net.
LEMMA PublishNet ==
  ASSUME TypeInv, Publish
  PROVE  /\ Len(requests) \in Nat \ {0} /\ requests[1].packet \in Packets
         /\ Len(sent) \in Nat /\ Len(net) \in Nat
         /\ \A z \in 1..Len(net) :
              net[z] \in 1..Len(sent) /\ sent'[net'[z]] = sent[net[z]]
         /\ PublishSends \/ net' = net
         /\ PublishSends =>
              /\ Len(net') = Len(net) + 1
              /\ \A z \in 1..Len(net) : net'[z] = net[z]
              /\ net'[Len(net) + 1] = Len(sent) + 1
              /\ sent'[Len(sent) + 1] = requests[1].packet
              /\ Len(sent') = Len(sent) + 1
              /\ DOMAIN sent' = 1..Len(sent')
<1>0. CallTypes /\ ChannelTypes
  BY TypeParts DEF TypeInv
<1> DEFINE n == Len(net)
           q == requests[1].packet
<1>1. /\ Len(requests) \in Nat \ {0} /\ q \in Packets
      /\ Len(sent) \in Nat
      /\ \A i \in 1..Len(sent) : sent'[i] = sent[i]
  BY <1>0, PublishSteps
<1>3. /\ n \in Nat /\ \A z \in 1..n : net[z] \in 1..Len(sent)
  BY <1>0 DEF ChannelTypes
<1>4. PublishSends \/ net' = net
  <2>1. requests[1] = Head(requests)
    BY <1>0, Tailed DEF Publish, CallTypes
  <2> QED  BY <2>1 DEF Publish, PublishSends
<1>5. PublishSends =>
        /\ Len(net') = n + 1
        /\ \A z \in 1..n : net'[z] = net[z]
        /\ net'[n + 1] = Len(sent) + 1
        /\ sent'[Len(sent) + 1] = q
        /\ Len(sent') = Len(sent) + 1
        /\ DOMAIN sent' = 1..Len(sent')
  <2> SUFFICES ASSUME PublishSends
               PROVE  /\ Len(net') = n + 1
                      /\ \A z \in 1..n : net'[z] = net[z]
                      /\ net'[n + 1] = Len(sent) + 1
                      /\ sent'[Len(sent) + 1] = q
                      /\ Len(sent') = Len(sent) + 1
                      /\ DOMAIN sent' = 1..Len(sent')
    OBVIOUS
  <2>1. sent \in Seq(Packets) /\ sent' = Append(sent, q)
    BY <1>0 DEF ChannelTypes, PublishSends
  <2>2. /\ Len(sent') = Len(sent) + 1
        /\ sent'[Len(sent) + 1] = q
        /\ DOMAIN sent' = 1..Len(sent')
    BY <1>1, <2>1, Appended
  <2>3. /\ net \in Seq(Nat) /\ Len(sent) + 1 \in Nat
        /\ net' = Append(net, Len(sent) + 1)
    <3>1. 1..Len(sent) \subseteq Nat
      OBVIOUS
    <3> QED  BY <1>0, <1>1, <2>2, <3>1, Wider DEF ChannelTypes, PublishSends
  <2>4. /\ Len(net') = n + 1 /\ net'[n + 1] = Len(sent) + 1
        /\ \A z \in 1..n : net'[z] = net[z]
    BY <2>3, Appended
  <2> QED  BY <2>2, <2>4
<1>6. \A z \in 1..n : sent'[net'[z]] = sent[net[z]]
  BY <1>1, <1>3, <1>4, <1>5
<1> QED  BY <1>1, <1>3, <1>4, <1>5, <1>6

LEMMA CoverPublish ==
  ASSUME TypeInv, CallInv, HeaderInv, IndexInv, ReadInv, FromSent, SentInv,
         CoverInv, Publish, [StreamsNext]_streamsVars
  PROVE  CoverInv'
<1> DEFINE n == Len(net)
           q == requests[1].packet
<1>1. /\ Len(requests) \in Nat \ {0} /\ q \in Packets
      /\ Len(sent) \in Nat
  BY PublishNet
<1>2. UNCHANGED <<reader, read>>
  BY DEF Publish, readerVars
<1>l. \A a : LostOnTheWay(a)' <=> LostOnTheWay(a)
  BY DEF Publish, LostOnTheWay
<1>3. n \in Nat /\ \A z \in 1..n : net[z] \in 1..Len(sent)
  BY PublishNet
<1>4. PublishSends \/ net' = net
  BY PublishNet
<1>5. PublishSends =>
        /\ Len(net') = n + 1
        /\ \A z \in 1..n : net'[z] = net[z]
        /\ net'[n + 1] = Len(sent) + 1
        /\ sent'[Len(sent) + 1] = q
        /\ Len(sent') = Len(sent) + 1
        /\ DOMAIN sent' = 1..Len(sent')
  BY PublishNet
<1>6. \A z \in 1..n : sent'[net'[z]] = sent[net[z]]
  BY PublishNet
<1> HIDE DEF q
<1>7. ASSUME NEW a \in 1..MaxWrites, Succeeded(a), ~LostOnTheWay(a)
      PROVE  /\ \A x \in 1..(Len(net') + 1) : Covers(a, x)' => Covered(a, x)'
             /\ (reader = "complete" \/ IsPast(a) => IsRead(a))'
  <2>1. /\ \A x \in 1..(n + 1) : Covers(a, x) => Covered(a, x)
        /\ reader = "complete" \/ IsPast(a) => IsRead(a)
    BY <1>7 DEF CoverInv
  <2>2. q.type # "header"
    BY <1>1, <1>7, HeaderPast DEF q
  <2>3. Covered(a, n + 1)
    BY <1>3, <2>1 DEF Covers
  <2>4. ASSUME NEW x \in 1..(n + 1), Covered(a, x)
        PROVE  Covered(a, x)'
    <3>1. x..(x - 1) = {}
      OBVIOUS
    <3> QED  BY <1>2, <1>3, <1>6, <2>4, <3>1, CoverOn
  <2>5. ASSUME NEW x \in 1..(Len(net') + 1), Covers(a, x)'
        PROVE  Covered(a, x)'
    <3>1. CASE x \in 1..n
      <4>0. x # Len(net') + 1
        BY <1>3, <1>4, <1>5, <3>1
      <4>3. After(a, sent'[net'[x]])
        BY <2>5, <4>0 DEF Covers, After
      <4>1. Covers(a, x)
        BY <1>6, <3>1, <4>3 DEF Covers
      <4>2. x \in 1..(n + 1)
        BY <3>1
      <4> QED  BY <2>1, <2>4, <4>1, <4>2
    <3>2. CASE x = n + 1
      <4>1. x \in 1..(n + 1) /\ Covered(a, x)
        BY <1>3, <2>3, <3>2
      <4> QED  BY <2>4, <4>1
    <3>3. CASE x \notin 1..n /\ x # n + 1
      <4>1. PublishSends /\ x = n + 2
        BY <1>3, <1>4, <1>5, <3>3
      <4>2. \A z \in (n + 1)..(x - 1) : sent'[net'[z]].type # "header"
        BY <1>3, <1>5, <2>2, <4>1
      <4>3. n + 1 \in 1..(n + 1) /\ x \in Nat /\ n + 1 <= x
        BY <1>3, <4>1
      <4> QED  BY <1>2, <1>3, <1>6, <2>3, <4>2, <4>3, CoverOn
    <3> QED  BY <3>1, <3>2, <3>3
  <2>6. (reader = "complete" \/ IsPast(a) => IsRead(a))'
    BY <1>2, <2>1 DEF IsRead, IsPast
  <2> QED  BY <2>5, <2>6
<1>8. ASSUME NEW a \in 1..MaxWrites, PublishSends,
             IsChunk(q), q.write = a, ~TrailerTried', a = writes
      PROVE  /\ \A x \in 1..(Len(net') + 1) : Covers(a, x)' => Covered(a, x)'
             /\ (reader = "complete" \/ IsPast(a) => IsRead(a))'
  <2>1. sent'[net'[n + 1]] = q /\ n + 1 \in 1..Len(net') /\ Len(net') = n + 1
    BY <1>3, <1>5, <1>8
  <2>2. ASSUME NEW x \in 1..Len(net')
        PROVE  ~After(a, sent'[net'[x]])
    <3>1. CASE x \in 1..n
      <4>1. ~After(writes, sent[net[x]])
        BY <1>3, <1>8, <3>1, TrailerStays, NoneAfter
      <4> QED  BY <1>6, <1>8, <3>1, <4>1
    <3>2. CASE x \notin 1..n
      <4>1. sent'[net'[x]] = q
        BY <1>3, <2>1, <3>2
      <4>2. sent'[net'[x]].type = "chunk" /\ sent'[net'[x]].write = a
        BY <1>8, <4>1 DEF IsChunk
      <4> QED  BY <4>2 DEF After
    <3> QED  BY <3>1, <3>2
  <2>3. ASSUME NEW x \in 1..(Len(net') + 1), Covers(a, x)'
        PROVE  Covered(a, x)'
    <3>0. x = n + 2
      BY <1>3, <2>1, <2>2, <2>3 DEF Covers, After
    <3>1. sent'[net'[n + 1]].type = "chunk" /\ sent'[net'[n + 1]].write = a
      BY <1>8, <2>1 DEF IsChunk
    <3>2. \A z \in (n + 1)..(x - 1) : sent'[net'[z]].type # "header"
      BY <1>3, <3>0, <3>1
    <3>3. n + 1 \in 1..(x - 1)
      BY <1>3, <3>0
    <3> QED  BY <3>1, <3>2, <3>3 DEF Covered, TypeAt
  <2>4. reader # "complete"
    BY <1>8, TrailerStays DEF ReadInv
  <2>5. ~IsPast(a)
    <3>1. ASSUME NEW i \in 1..Len(read)
          PROVE  ~(read[i] > a)
      <4>1. PICK p \in Packets : InSent(p) /\ IsChunk(p) /\ p.write = read[i]
        BY DEF FromSent
      <4>2. p.write <= writes /\ p.write \in Nat
        BY <4>1, PacketFields DEF IndexInv, Made, IsChunk
      <4> QED  BY <1>8, <4>1, <4>2
    <3> QED  BY <3>1 DEF IsPast
  <2>6. ~(reader = "complete" \/ IsPast(a))'
    BY <1>2, <2>4, <2>5 DEF IsPast
  <2> QED  BY <2>3, <2>6
<1>9. ASSUME NEW a \in 1..MaxWrites, Succeeded(a)', ~LostOnTheWay(a)'
      PROVE  /\ \A x \in 1..(Len(net') + 1) : Covers(a, x)' => Covered(a, x)'
             /\ (reader = "complete" \/ IsPast(a) => IsRead(a))'
  BY <1>l, <1>7, <1>8, <1>9, SucceededSteps DEF q
<1> QED  BY <1>9 DEF CoverInv

LEMMA CoverReceive ==
  ASSUME TypeInv, CallInv, ReadInv, CoverInv, ReceivePacket,
         [StreamsNext]_streamsVars
  PROVE  CoverInv'
<1>0. CallTypes /\ ChannelTypes /\ ReaderTypes
  BY TypeParts DEF TypeInv
<1> DEFINE p == sent[net[1]]
<1>1. /\ Len(net) \in Nat \ {0} /\ Len(net') = Len(net) - 1
      /\ \A x \in 1..Len(net') : x + 1 \in 1..Len(net) /\ net'[x] = net[x + 1]
      /\ sent' = sent /\ p \in Packets
      /\ HandleHeader(p) \/ HandleChunk(p) \/ HandleTrailer(p)
  BY <1>0, Arrives
<1> HIDE DEF p
<1>l. \A a : LostOnTheWay(a)' <=> LostOnTheWay(a)
  BY DEF ReceivePacket, LostOnTheWay
<1>2. \A x \in 1..Len(net') : sent'[net'[x]] = sent[net[x + 1]]
  BY <1>1
<1>3. /\ reader' = "reading" /\ p.type # "header" => reader = "reading"
      /\ reader' = "reading" /\ p.type # "header" =>
           \/ read' = read
           \/ p.type = "chunk" /\ read' = Append(read, p.write)
      /\ reader' = "reading" /\ p.type = "chunk" =>
           read' = Append(read, p.write)
      /\ reader' = "complete" /\ reader # "complete" =>
           p.type = "trailer" /\ reader = "reading" /\ read' = read
      /\ reader' = "complete" /\ reader = "complete" => read' = read
      /\ \/ read' = read
         \/ read' = <<>>
         \/ /\ p.type = "chunk" /\ reader = "reading"
            /\ read' = Append(read, p.write)
  <2>1. CASE HandleHeader(p)
    BY <2>1 DEF HandleHeader, readerVars
  <2>2. CASE HandleChunk(p)
    BY <2>2 DEF HandleChunk, readerVars, CloseStream, ReadInv
  <2>3. CASE HandleTrailer(p)
    BY <2>3 DEF HandleTrailer, CloseStream
  <2> QED  BY <1>1, <2>1, <2>2, <2>3
<1>4. p.type = "chunk" => p.write \in 1..MaxWrites
  BY <1>1, PacketFields
<1>5. ASSUME NEW a \in 1..MaxWrites, IsRead(a), read' # <<>>
      PROVE  IsRead(a)'
  <2>1. PICK i \in 1..Len(read) : read[i] = a
    BY <1>5 DEF IsRead
  <2>2. CASE read' = read
    BY <2>1, <2>2 DEF IsRead
  <2>3. CASE p.type = "chunk" /\ read' = Append(read, p.write)
    <3>1. read'[i] = read[i] /\ i \in 1..Len(read')
      BY <1>0, <1>4, <2>1, <2>3, Appended DEF ReaderTypes
    <3> QED  BY <2>1, <3>1 DEF IsRead
  <2> QED  BY <1>3, <1>5, <2>2, <2>3
<1>6. ASSUME NEW a \in 1..MaxWrites, NEW x \in 1..(Len(net') + 1),
             Covered(a, x + 1)
      PROVE  Covered(a, x)'
  <2>1. ASSUME NEW y \in 1..x,
               sent[net[y]].type = "chunk", sent[net[y]].write = a,
               \A z \in y..x : sent[net[z]].type # "header"
        PROVE  Covered(a, x)'
    <3>1. CASE y > 1
      <4>1. y - 1 \in 1..(x - 1) /\ y - 1 \in 1..Len(net')
        BY <1>1, <3>1
      <4>2. sent'[net'[y - 1]] = sent[net[y]]
        BY <1>2, <4>1
      <4>3. ASSUME NEW z \in (y - 1)..(x - 1)
            PROVE  sent'[net'[z]].type # "header"
        <5>1. z \in 1..Len(net') /\ z + 1 \in y..x
          BY <1>1, <3>1
        <5> QED  BY <1>2, <2>1, <5>1
      <4> QED  BY <2>1, <4>1, <4>2, <4>3 DEF Covered, TypeAt
    <3>2. CASE y = 1
      <4>1. \A z \in 1..(x - 1) : sent'[net'[z]].type # "header"
        <5>1. ASSUME NEW z \in 1..(x - 1)
              PROVE  sent'[net'[z]].type # "header"
          <6>1. z \in 1..Len(net') /\ z + 1 \in y..x
            BY <1>1, <3>2
          <6> QED  BY <1>2, <2>1, <6>1
        <5> QED  BY <5>1
      <4>2. reader' = "reading" => IsRead(a)'
        <5> SUFFICES ASSUME reader' = "reading" PROVE IsRead(a)'
          OBVIOUS
        <5>1. p.type = "chunk" /\ p.write = a
          BY <2>1, <3>2 DEF p
        <5>2. read' = Append(read, p.write)
          BY <1>3, <5>1
        <5>3. Len(read) + 1 \in 1..Len(read') /\ read'[Len(read) + 1] = a
          BY <1>0, <1>4, <5>1, <5>2, Appended DEF ReaderTypes
        <5> QED  BY <5>3 DEF IsRead
      <4> QED  BY <4>1, <4>2 DEF Covered, TypeAt
    <3> QED  BY <3>1, <3>2
  <2>2. ASSUME \A z \in 1..x : sent[net[z]].type # "header",
               reader = "reading" => IsRead(a)
        PROVE  Covered(a, x)'
    <3>1. \A z \in 1..(x - 1) : sent'[net'[z]].type # "header"
      <4>1. ASSUME NEW z \in 1..(x - 1)
            PROVE  sent'[net'[z]].type # "header"
        <5>1. z \in 1..Len(net') /\ z + 1 \in 1..x
          BY <1>1
        <5> QED  BY <1>2, <2>2, <5>1
      <4> QED  BY <4>1
    <3>2. p.type # "header"
      <4>1. 1 \in 1..x
        BY <1>1
      <4> QED  BY <2>2, <4>1 DEF p
    <3>3. reader' = "reading" => IsRead(a)'
      <4> SUFFICES ASSUME reader' = "reading" PROVE IsRead(a)'
        OBVIOUS
      <4>1. reader = "reading" /\ IsRead(a)
        BY <1>3, <2>2, <3>2
      <4>2. read' # <<>>
        <5>1. Len(read') # 0
          <6>1. CASE read' = read
            BY <4>1, <6>1 DEF IsRead
          <6>2. CASE p.type = "chunk" /\ read' = Append(read, p.write)
            BY <1>0, <1>4, <6>2, Appended DEF ReaderTypes
          <6> QED  BY <1>3, <3>2, <6>1, <6>2
        <5> QED  BY <5>1
      <4> QED  BY <1>5, <4>1, <4>2
    <3> QED  BY <3>1, <3>3 DEF Covered, TypeAt
  <2>3. x + 1 - 1 = x
    BY <1>1
  <2> QED  BY <1>6, <2>1, <2>2, <2>3 DEF Covered, TypeAt
<1>7. ASSUME NEW a \in 1..MaxWrites, Succeeded(a), ~LostOnTheWay(a)
      PROVE  /\ \A x \in 1..(Len(net') + 1) : Covers(a, x)' => Covered(a, x)'
             /\ (reader = "complete" \/ IsPast(a) => IsRead(a))'
  <2>1. /\ \A x \in 1..(Len(net) + 1) : Covers(a, x) => Covered(a, x)
        /\ reader = "complete" \/ IsPast(a) => IsRead(a)
    BY <1>7 DEF CoverInv
  <2>2. ASSUME NEW x \in 1..(Len(net') + 1), Covers(a, x)'
        PROVE  Covered(a, x)'
    <3>1. x + 1 \in 1..(Len(net) + 1)
      BY <1>1
    <3>2. Covers(a, x + 1)
      <4>1. CASE x = Len(net') + 1
        BY <1>1, <4>1 DEF Covers
      <4>2. CASE x \in 1..Len(net')
        BY <1>1, <1>2, <2>2, <4>2 DEF Covers, After
      <4> QED  BY <1>1, <4>1, <4>2
    <3> QED  BY <1>6, <2>1, <3>1, <3>2
  <2>4. ASSUME reader' = "complete"
        PROVE  IsRead(a)'
    <3>1. CASE reader = "complete"
      BY <1>3, <2>1, <2>4, <3>1 DEF IsRead
    <3>2. CASE reader # "complete"
      <4>1. p.type = "trailer" /\ reader = "reading" /\ read' = read
        BY <1>3, <2>4, <3>2
      <4>2. Covered(a, 1)
        <5>1. 1 \in 1..(Len(net) + 1) /\ Covers(a, 1)
          BY <1>1, <4>1 DEF Covers, After, p
        <5> QED  BY <2>1, <5>1
      <4>3. IsRead(a)
        BY <4>1, <4>2 DEF Covered
      <4> QED  BY <4>1, <4>3 DEF IsRead
    <3> QED  BY <3>1, <3>2
  \* The chunk of a later write is read.
  <2>5. ASSUME IsPast(a)'
        PROVE  IsRead(a)'
    <3>1. Len(read') # 0 /\ read' # <<>>
      <4>1. Len(read') # 0
        BY <2>5 DEF IsPast
      <4> QED  BY <4>1
    <3>2. CASE IsPast(a)
      BY <1>5, <2>1, <3>1, <3>2
    <3>3. CASE ~IsPast(a)
      <4>1. read' # read
        BY <2>5, <3>3 DEF IsPast
      <4>2. /\ p.type = "chunk" /\ reader = "reading"
            /\ read' = Append(read, p.write)
        BY <1>3, <3>1, <4>1
      <4>3. p.write > a
        <5>1. PICK i \in 1..Len(read') : read'[i] > a
          BY <2>5 DEF IsPast
        <5>2. /\ Len(read) \in Nat /\ Len(read') = Len(read) + 1
              /\ read'[Len(read) + 1] = p.write
              /\ \A k \in 1..Len(read) : read'[k] = read[k]
          BY <1>0, <1>4, <4>2, Appended DEF ReaderTypes
        <5>3. i \notin 1..Len(read)
          BY <3>3, <5>1, <5>2 DEF IsPast
        <5>4. i = Len(read) + 1
          BY <5>1, <5>2, <5>3
        <5> QED  BY <5>1, <5>2, <5>4
      <4>4. Covered(a, 1)
        <5>1. 1 \in 1..(Len(net) + 1) /\ Covers(a, 1)
          BY <1>1, <4>2, <4>3 DEF Covers, After, p
        <5> QED  BY <2>1, <5>1
      <4>5. IsRead(a)
        BY <4>2, <4>4 DEF Covered
      <4> QED  BY <1>5, <3>1, <4>5
    <3> QED  BY <3>2, <3>3
  <2> QED  BY <2>2, <2>4, <2>5
<1>8. \A a \in 1..MaxWrites : Succeeded(a)' => Succeeded(a)
  BY DEF ReceivePacket, Succeeded, TrailerTried, callVars, history
<1> QED  BY <1>l, <1>7, <1>8 DEF CoverInv

LEMMA CoverResume ==
  ASSUME TypeInv, HeaderInv, SentInv, CoverInv, ResumeSession
  PROVE  CoverInv'
<1>0. ChannelTypes
  BY TypeParts DEF TypeInv
<1> DEFINE n == Len(net)
<1>1. /\ n \in Nat /\ Len(sent) \in Nat /\ seen \in Nat
      /\ \A z \in 1..n : net[z] \in 1..Len(sent)
  BY <1>0 DEF ChannelTypes
<1>2. PICK k \in seen..Len(sent) :
        net' = net \o [i \in 1..(Len(sent) - k) |-> k + i]
  BY DEF ResumeSession
<1>3. UNCHANGED <<sent, reader, read>>
  BY DEF ResumeSession, readerVars
<1>l. \A a : LostOnTheWay(a)' <=> LostOnTheWay(a)
  BY DEF ResumeSession, LostOnTheWay
<1> DEFINE m == Len(sent) - k
<1>4. m \in Nat /\ k \in Nat
  BY <1>1, <1>2
<1>5. /\ Len(net') = n + m
      /\ \A z \in 1..n : net'[z] = net[z]
      /\ \A i \in 1..m : net'[n + i] = k + i
  <2> DEFINE r == [i \in 1..m |-> k + i]
  <2>1. r \in Seq(1..Len(sent))
    BY <1>0, ResumeTypes
  <2>2. Len(r) = m /\ \A i \in 1..m : r[i] = k + i
    BY <1>4
  <2>3. net' = net \o r
    BY <1>2
  <2> HIDE DEF r, m
  <2>4. /\ Len(net \o r) = n + m
        /\ \A z \in 1..n : (net \o r)[z] = net[z]
        /\ \A i \in 1..m : (net \o r)[n + i] = k + i
    <3>1. net \in Seq(1..Len(sent))
      BY <1>0 DEF ChannelTypes
    <3>2. /\ Len(net \o r) = Len(net) + Len(r)
          /\ \A z \in 1..Len(net) : (net \o r)[z] = net[z]
          /\ \A i \in 1..Len(r) : (net \o r)[Len(net) + i] = r[i]
      BY <2>1, <3>1, Joined
    <3> QED  BY <2>2, <3>2
  <2> QED  BY <2>3, <2>4
<1>6. \A z \in 1..n : sent'[net'[z]] = sent[net[z]]
  BY <1>3, <1>5
<1>7. ASSUME NEW z \in (n + 1)..(n + m)
      PROVE  /\ sent'[net'[z]] = sent[k + (z - n)]
             /\ k + (z - n) \in 1..Len(sent)
  <2>1. z - n \in 1..m /\ n + (z - n) = z
    BY <1>1, <1>4
  <2>2. net'[z] = k + (z - n)
    BY <1>5, <2>1
  <2>3. k + (z - n) \in 1..Len(sent)
    BY <1>1, <1>2, <1>4, <2>1
  <2> QED  BY <1>3, <2>2, <2>3
<1> HIDE DEF m
<1>8. ASSUME NEW a \in 1..MaxWrites, Succeeded(a), ~LostOnTheWay(a)
      PROVE  /\ \A x \in 1..(Len(net') + 1) : Covers(a, x)' => Covered(a, x)'
             /\ (reader = "complete" \/ IsPast(a) => IsRead(a))'
  <2>1. /\ \A x \in 1..(n + 1) : Covers(a, x) => Covered(a, x)
        /\ Covered(a, n + 1)
        /\ reader = "complete" \/ IsPast(a) => IsRead(a)
    BY <1>1, <1>8 DEF CoverInv, Covers
  <2>2. PICK i \in 1..Len(sent) :
          /\ IsChunk(sent[i]) /\ sent[i].write = a
          /\ \A j \in 1..Len(sent) : After(a, sent[j]) => i < j
    BY <1>8 DEF SentInv
  <2>3. \A j \in 1..Len(sent) : sent[j].type = "header" => j = 1
    BY DEF HeaderInv
  <2>4. ASSUME NEW x \in 1..(n + 1), Covered(a, x)
        PROVE  Covered(a, x)'
    <3>1. x..(x - 1) = {}
      OBVIOUS
    <3>2. x \in Nat /\ x <= x
      BY <1>1
    <3>3. \A z \in x..(x - 1) : sent'[net'[z]].type # "header"
      BY <3>1
    <3>4. reader' = "reading" => reader = "reading" /\ read' = read
      BY <1>3
    <3> QED  BY <1>1, <1>6, <2>4, <3>2, <3>3, <3>4, CoverOn
  \* The places of the packets that are sent again.
  <2>5. ASSUME NEW x \in (n + 1)..(n + m + 1),
               i < k + (x - n)
        PROVE  Covered(a, x)'
    <3>1. CASE k < i
      <4> DEFINE y == n + (i - k)
      <4>1. y \in (n + 1)..(x - 1) /\ y \in (n + 1)..(n + m) /\ k + (y - n) = i
        BY <1>1, <1>4, <2>5, <3>1 DEF m
      <4>2. sent'[net'[y]].type = "chunk" /\ sent'[net'[y]].write = a
        <5>1. sent'[net'[y]] = sent[i]
          BY <1>7, <4>1
        <5> QED  BY <2>2, <5>1 DEF IsChunk
      <4>3. ASSUME NEW z \in y..(x - 1)
            PROVE  sent'[net'[z]].type # "header"
        <5>1. z \in (n + 1)..(n + m) /\ i <= k + (z - n)
          BY <1>1, <1>4, <2>5, <4>1 DEF m
        <5>2. sent'[net'[z]] = sent[k + (z - n)] /\ k + (z - n) \in 1..Len(sent)
          BY <1>7, <5>1
        <5>3. CASE k + (z - n) = i
          BY <2>2, <5>2, <5>3 DEF IsChunk
        <5>4. CASE k + (z - n) # i
          <6>1. k + (z - n) # 1
            BY <1>1, <1>4, <5>1, <5>2, <5>4
          <6> QED  BY <2>3, <5>2, <6>1
        <5> QED  BY <5>3, <5>4
      <4>4. y \in 1..(x - 1)
        BY <1>1, <4>1
      <4> HIDE DEF y
      <4> QED  BY <4>2, <4>3, <4>4 DEF Covered, TypeAt
    <3>2. CASE i <= k
      <4>1. ASSUME NEW z \in (n + 1)..(x - 1)
            PROVE  sent'[net'[z]].type # "header"
        <5>1. z \in (n + 1)..(n + m) /\ k + (z - n) # 1
          BY <1>1, <1>4, <2>5, <3>2 DEF m
        <5> QED  BY <1>7, <2>3, <5>1
      <4>2. n + 1 \in 1..(n + 1) /\ x \in Nat /\ n + 1 <= x
        BY <1>1, <1>4 DEF m
      <4> QED  BY <1>1, <1>3, <1>6, <2>1, <4>1, <4>2, CoverOn
    <3> QED  BY <1>4, <3>1, <3>2
  <2>7. ASSUME NEW x \in 1..(Len(net') + 1), Covers(a, x)'
        PROVE  Covered(a, x)'
    <3>1. CASE x \in 1..n
      <4>1. x \in 1..(n + 1) /\ x # Len(net') + 1
        BY <1>1, <1>4, <1>5, <3>1 DEF m
      <4>2. After(a, sent'[net'[x]])
        BY <2>7, <4>1 DEF Covers, After
      <4>3. sent'[net'[x]] = sent[net[x]]
        BY <1>6, <3>1
      <4>4. Covers(a, x)
        BY <4>2, <4>3 DEF Covers
      <4> QED  BY <2>1, <2>4, <4>1, <4>4
    <3>2. CASE x \in (n + 1)..(n + m) /\ After(a, sent'[net'[x]])
      <4>1. x \in (n + 1)..(n + m + 1)
        BY <1>1, <1>4, <3>2 DEF m
      <4>2. After(a, sent[k + (x - n)]) /\ k + (x - n) \in 1..Len(sent)
        BY <1>7, <3>2
      <4>3. i < k + (x - n)
        BY <2>2, <4>2
      <4> QED  BY <2>5, <4>1, <4>3
    <3>3. CASE x = n + m + 1
      <4>1. x \in (n + 1)..(n + m + 1) /\ i < k + (x - n)
        BY <1>1, <1>4, <3>3 DEF m
      <4> QED  BY <2>5, <4>1
    <3>4. x \in 1..n \/ x \in (n + 1)..(n + m) \/ x = n + m + 1
      BY <1>1, <1>4, <1>5 DEF m
    <3>5. x # n + m + 1 => After(a, sent'[net'[x]])
      BY <1>5, <2>7 DEF Covers, After, m
    <3> QED  BY <3>1, <3>2, <3>3, <3>4, <3>5
  <2>8. (reader = "complete" \/ IsPast(a) => IsRead(a))'
    BY <1>3, <2>1 DEF IsRead, IsPast
  <2> QED  BY <2>7, <2>8
<1>9. \A a \in 1..MaxWrites : Succeeded(a)' => Succeeded(a)
  BY DEF ResumeSession, Succeeded, TrailerTried, callVars, history
<1> QED  BY <1>l, <1>8, <1>9 DEF CoverInv

\* A full restart loses the chunk, or what comes after it stays covered.
LEMMA CoverRestart ==
  ASSUME TypeInv, CoverInv, RestartSender \/ RestartReader
  PROVE  CoverInv'
<1>0. ChannelTypes
  BY TypeParts DEF TypeInv
<1> DEFINE n == Len(net)
<1>1. PICK i \in 0..n : \E j \in i..n :
        /\ Len(net') = n - (j - i)
        /\ \A x \in 1..i : net'[x] = net[x]
        /\ \A x \in (i + 1)..Len(net') :
             x + (j - i) \in (j + 1)..n /\ net'[x] = net[x + (j - i)]
        /\ lost' = lost \cup {sent[net[x]] : x \in (i + 1)..j}
  BY <1>0, RestartNet
<1>2. PICK j \in i..n :
        /\ Len(net') = n - (j - i)
        /\ \A x \in 1..i : net'[x] = net[x]
        /\ \A x \in (i + 1)..Len(net') :
             x + (j - i) \in (j + 1)..n /\ net'[x] = net[x + (j - i)]
        /\ lost' = lost \cup {sent[net[x]] : x \in (i + 1)..j}
  BY <1>1
<1>3. n \in Nat /\ i \in Nat /\ j \in Nat /\ i <= j /\ j <= n
  BY <1>0, <1>1, <1>2 DEF ChannelTypes
<1>4. UNCHANGED <<sent, reader, read>>
  BY RestartKeeps
\* The place that a place of net' had before.
<1> DEFINE O(x) == IF x <= i THEN x ELSE x + (j - i)
<1>5. ASSUME NEW x \in 1..Len(net')
      PROVE  O(x) \in 1..n /\ sent'[net'[x]] = sent[net[O(x)]]
  <2>1. CASE x <= i
    <3>1. x \in 1..i
      BY <1>3, <2>1
    <3> QED  BY <1>2, <1>3, <1>4, <2>1, <3>1
  <2>2. CASE ~(x <= i)
    <3>1. x \in (i + 1)..Len(net')
      BY <1>3, <2>2
    <3>2. x + (j - i) \in (j + 1)..n /\ net'[x] = net[x + (j - i)]
      BY <1>2, <3>1
    <3> QED  BY <1>3, <1>4, <2>2, <3>2
  <2> QED  BY <2>1, <2>2
<1>6. O(Len(net') + 1) = n + 1 /\ Len(net') \in Nat /\ Len(net') >= i
  BY <1>2, <1>3
<1>7. \A x, y \in 1..(Len(net') + 1) : x < y => O(x) < O(y)
  BY <1>3, <1>6
<1>8. \A y \in 1..n : y \in (i + 1)..j \/ \E x \in 1..Len(net') : O(x) = y
  <2>1. ASSUME NEW y \in 1..n, y \notin (i + 1)..j
        PROVE  \E x \in 1..Len(net') : O(x) = y
    <3>1. CASE y <= i
      <4>1. y \in 1..Len(net') /\ O(y) = y
        BY <1>3, <1>6, <3>1
      <4> QED  BY <4>1
    <3>2. CASE ~(y <= i)
      <4>1. y > j
        BY <1>3, <2>1, <3>2
      <4>2. /\ y - (j - i) \in 1..Len(net')
            /\ ~(y - (j - i) <= i) /\ y - (j - i) + (j - i) = y
        BY <1>2, <1>3, <4>1
      <4> QED  BY <4>2
    <3> QED  BY <3>1, <3>2
  <2> QED  BY <2>1
<1>9. ASSUME NEW a \in 1..MaxWrites, ~LostOnTheWay(a)'
      PROVE  /\ ~LostOnTheWay(a)
             /\ \A x \in (i + 1)..j :
                  ~(TypeAt(x) = "chunk" /\ sent[net[x]].write = a)
  BY <1>2, <1>9 DEF LostOnTheWay, TypeAt
<1> HIDE DEF O
<1>10. ASSUME NEW a \in 1..MaxWrites, ~LostOnTheWay(a)',
              NEW x \in 1..(Len(net') + 1), Covered(a, O(x))
       PROVE  Covered(a, x)'
  <2>1. ASSUME NEW y \in 1..(O(x) - 1),
               TypeAt(y) = "chunk", sent[net[y]].write = a,
               \A z \in y..(O(x) - 1) : TypeAt(z) # "header"
        PROVE  Covered(a, x)'
    <3>0. O(x) \in 1..(n + 1)
      <4>1. CASE x = Len(net') + 1
        BY <1>3, <1>6, <4>1
      <4>2. CASE x # Len(net') + 1
        <5>1. x \in 1..Len(net')
          BY <1>6, <4>2
        <5> QED  BY <1>3, <1>5, <5>1
      <4> QED  BY <4>1, <4>2
    <3>1. y \in 1..n /\ y \notin (i + 1)..j
      <4>1. y \in 1..n
        BY <1>3, <3>0
      <4> QED  BY <1>9, <1>10, <2>1, <4>1
    <3>2. PICK w \in 1..Len(net') : O(w) = y
      BY <1>8, <3>1
    <3>3. w < x
      <4>1. w \in 1..(Len(net') + 1)
        BY <1>6
      <4>2. O(w) < O(x)
        BY <1>3, <3>0, <3>2
      <4>3. CASE x < w
        <5>1. O(x) < O(w)
          BY <1>7, <4>1, <4>3
        <5> QED  BY <1>3, <3>0, <3>2, <4>2, <5>1
      <4>4. CASE x = w
        BY <1>3, <3>0, <3>2, <4>2, <4>4
      <4> QED  BY <1>6, <4>3, <4>4
    <3>4. w \in 1..(x - 1)
      BY <1>6, <3>3
    <3>5. TypeAt(w)' = "chunk" /\ sent'[net'[w]].write = a
      BY <1>5, <2>1, <3>2 DEF TypeAt
    <3>6. ASSUME NEW z \in w..(x - 1)
          PROVE  TypeAt(z)' # "header"
      <4>1. z \in 1..Len(net') /\ z \in 1..(Len(net') + 1)
            /\ w \in 1..(Len(net') + 1)
        BY <1>6, <3>4
      <4>2. O(z) < O(x)
        BY <1>6, <1>7, <4>1
      <4>3. O(w) <= O(z)
        <5>1. CASE w = z
          BY <1>5, <4>1, <5>1
        <5>2. CASE w < z
          <6>1. O(w) < O(z)
            BY <1>7, <4>1, <5>2
          <6> QED  BY <1>5, <4>1, <6>1
        <5> QED  BY <1>6, <4>1, <5>1, <5>2
      <4>4. O(z) \in y..(O(x) - 1)
        BY <1>3, <1>5, <3>0, <3>2, <4>1, <4>2, <4>3
      <4> QED  BY <1>5, <2>1, <4>1, <4>4 DEF TypeAt
    <3> QED  BY <3>4, <3>5, <3>6 DEF Covered
  <2>2. ASSUME \A z \in 1..(O(x) - 1) : TypeAt(z) # "header",
               reader = "reading" => IsRead(a)
        PROVE  Covered(a, x)'
    <3>1. ASSUME NEW z \in 1..(x - 1)
          PROVE  TypeAt(z)' # "header"
      <4>1. z \in 1..Len(net') /\ z \in 1..(Len(net') + 1) /\ z < x
        BY <1>6
      <4>2. O(z) < O(x) /\ O(z) \in 1..n
        BY <1>5, <1>7, <4>1
      <4>3. O(x) \in Nat
        BY <1>3, <1>6 DEF O
      <4>4. O(z) \in 1..(O(x) - 1)
        BY <1>3, <4>2, <4>3
      <4> QED  BY <1>5, <2>2, <4>1, <4>4 DEF TypeAt
    <3>2. (reader = "reading" => IsRead(a))'
      BY <1>4, <2>2 DEF IsRead
    <3> QED  BY <3>1, <3>2 DEF Covered
  <2> QED  BY <1>10, <2>1, <2>2 DEF Covered
<1>11. ASSUME NEW a \in 1..MaxWrites, Succeeded(a), ~LostOnTheWay(a)'
       PROVE  /\ \A x \in 1..(Len(net') + 1) : Covers(a, x)' => Covered(a, x)'
              /\ (reader = "complete" \/ IsPast(a) => IsRead(a))'
  <2>1. /\ \A x \in 1..(n + 1) : Covers(a, x) => Covered(a, x)
        /\ reader = "complete" \/ IsPast(a) => IsRead(a)
    BY <1>9, <1>11 DEF CoverInv
  <2>2. ASSUME NEW x \in 1..(Len(net') + 1), Covers(a, x)'
        PROVE  Covered(a, x)'
    <3>1. CASE x = Len(net') + 1
      <4>1. n + 1 \in 1..(n + 1) /\ Covers(a, n + 1)
        BY <1>3 DEF Covers
      <4> QED  BY <1>6, <1>10, <1>11, <2>1, <3>1, <4>1
    <3>2. CASE x # Len(net') + 1
      <4>1. x \in 1..Len(net')
        BY <1>6, <3>2
      <4>2. After(a, sent[net[O(x)]]) /\ O(x) \in 1..(n + 1)
        BY <1>3, <1>5, <2>2, <3>2, <4>1 DEF Covers, After
      <4>3. Covered(a, O(x))
        BY <2>1, <4>2 DEF Covers
      <4> QED  BY <1>10, <1>11, <4>3
    <3> QED  BY <3>1, <3>2
  <2>3. (reader = "complete" \/ IsPast(a) => IsRead(a))'
    BY <1>4, <2>1 DEF IsPast, IsRead
  <2> QED  BY <2>2, <2>3
<1>12. \A a \in 1..MaxWrites : Succeeded(a)' => Succeeded(a)
  BY RestartKeeps DEF Succeeded, TrailerTried
<1> QED  BY <1>11, <1>12 DEF CoverInv

LEMMA StepCover ==
  ASSUME TypeInv, CallInv, HeaderInv, IndexInv, ReadInv, FromSent, SentInv,
         CoverInv, [StreamsNext]_streamsVars
  PROVE  CoverInv'
<1>1. CASE Publish
  BY <1>1, CoverPublish
<1>2. CASE ReceivePacket
  BY <1>2, CoverReceive
<1>3. CASE ResumeSession
  BY <1>3, CoverResume
<1>5. CASE RestartSender \/ RestartReader
  BY <1>5, CoverRestart
<1>4. CASE /\ ~Publish
           /\ UNCHANGED <<sent, net, read, lost>>
           /\ reader' = reader \/ reader' = "dropped"
  <2>1. \A a \in 1..MaxWrites : Succeeded(a)' => Succeeded(a)
    BY <1>4, SucceededSteps DEF PublishSends
  <2>2. ASSUME NEW a, NEW x, Covered(a, x)
        PROVE  Covered(a, x)'
    BY <1>4, <2>2 DEF Covered, TypeAt, IsRead
  <2>3. \A a : (IsRead(a)' <=> IsRead(a)) /\ (IsPast(a)' <=> IsPast(a))
    BY <1>4 DEF IsRead, IsPast
  <2>4. ASSUME NEW a \in 1..MaxWrites, Succeeded(a), ~LostOnTheWay(a)'
        PROVE  /\ \A x \in 1..(Len(net') + 1) :
                    Covers(a, x)' => Covered(a, x)'
               /\ (reader = "complete" \/ IsPast(a) => IsRead(a))'
    <3>0. ~LostOnTheWay(a)
      BY <1>4, <2>4 DEF LostOnTheWay
    <3>1. /\ \A x \in 1..(Len(net) + 1) : Covers(a, x) => Covered(a, x)
          /\ reader = "complete" \/ IsPast(a) => IsRead(a)
      BY <2>4, <3>0 DEF CoverInv
    <3>2. \A x : Covers(a, x)' <=> Covers(a, x)
      BY <1>4 DEF Covers, After
    <3> QED  BY <1>4, <2>2, <2>3, <3>1, <3>2
  <2> QED  BY <2>1, <2>4 DEF CoverInv
<1> QED
  BY <1>1, <1>2, <1>3, <1>4, <1>5
  DEF StreamsNext, StreamsProgress, CallReturns, Open, WriteChunk, Close,
      Cancel, DropWriter, PumpEnds, DropReader, streamsVars, netVars, readerVars

-----------------------------------------------------------------------------
\* Without a resume the stream is opened once.

LEMMA StepOnce ==
  ASSUME TypeInv, HeaderInv, OnceInv, [StreamsNext]_streamsVars
  PROVE  OnceInv'
<1>0. CallTypes /\ ChannelTypes /\ ReaderTypes
  BY TypeParts DEF TypeInv
<1>r. resumes \in Nat /\ opened \in Nat
  BY <1>0 DEF ChannelTypes, ReaderTypes
<1>1. CASE Publish
  <2> SUFFICES ASSUME resumes = 0
               PROVE  /\ opened' <= 1
                      /\ \A x \in 1..Len(net') : TypeAt(x)' = "header" =>
                           x = 1 /\ opened' = 0
    BY <1>1 DEF OnceInv, Publish
  <2>1. opened' = opened /\ opened <= 1
    BY <1>1 DEF OnceInv, Publish, readerVars
  <2>2. ASSUME NEW x \in 1..Len(net'), TypeAt(x)' = "header"
        PROVE  x = 1 /\ opened' = 0
    <3>0. /\ Len(requests) \in Nat \ {0}
          /\ Len(sent) \in Nat /\ Len(net) \in Nat
          /\ \A z \in 1..Len(net) :
               net[z] \in 1..Len(sent) /\ sent'[net'[z]] = sent[net[z]]
          /\ PublishSends \/ net' = net
          /\ PublishSends =>
               /\ Len(net') = Len(net) + 1
               /\ net'[Len(net) + 1] = Len(sent) + 1
               /\ sent'[Len(sent) + 1] = requests[1].packet
      BY <1>1, PublishNet
    <3>1. CASE x \in 1..Len(net)
      <4>1. TypeAt(x) = "header"
        BY <2>2, <3>0, <3>1 DEF TypeAt
      <4> QED  BY <2>1, <3>1, <4>1 DEF OnceInv
    <3>2. CASE x \notin 1..Len(net)
      <4>1. PublishSends /\ x = Len(net) + 1
        BY <3>0, <3>2
      <4>2. requests[1].packet.type = "header"
        BY <2>2, <3>0, <4>1 DEF TypeAt
      <4>3. sent = <<>>
        BY <3>0, <4>2 DEF HeaderInv
      <4>4. Len(sent) = 0
        BY <4>3
      <4>5. Len(net) = 0
        <5>1. Len(net) # 0 => 1 \in 1..Len(net)
          BY <3>0
        <5>2. \A z : z \notin 1..0
          OBVIOUS
        <5> QED  BY <3>0, <4>4, <5>1, <5>2
      <4> QED  BY <2>1, <4>1, <4>3, <4>5 DEF HeaderInv
    <3> QED  BY <3>1, <3>2
  <2> QED  BY <2>1, <2>2
<1>2. CASE ReceivePacket
  <2> SUFFICES ASSUME resumes = 0
               PROVE  /\ opened' <= 1
                      /\ \A x \in 1..Len(net') : TypeAt(x)' # "header"
    BY <1>2 DEF OnceInv, ReceivePacket
  <2>1. /\ Len(net) \in Nat \ {0} /\ Len(net') = Len(net) - 1
        /\ \A x \in 1..Len(net') : x + 1 \in 1..Len(net) /\ net'[x] = net[x + 1]
        /\ sent' = sent
        /\ \/ HandleHeader(sent[net[1]])
           \/ HandleChunk(sent[net[1]])
           \/ HandleTrailer(sent[net[1]])
    BY <1>0, <1>2, Arrives
  <2>2. \A x \in 1..Len(net') : TypeAt(x)' # "header"
    BY <2>1 DEF OnceInv, TypeAt
  <2>3. opened' = opened \/ (opened' = opened + 1 /\ TypeAt(1) = "header")
    BY <2>1 DEF HandleHeader, HandleChunk, HandleTrailer, readerVars, TypeAt
  <2>4. TypeAt(1) = "header" => opened = 0
    BY <2>1 DEF OnceInv
  <2> QED  BY <1>r, <2>2, <2>3, <2>4 DEF OnceInv
<1>3. CASE ResumeSession
  <2>1. resumes' # 0
    BY <1>3, <1>r DEF ResumeSession
  <2> QED  BY <2>1 DEF OnceInv
<1>5. CASE RestartSender \/ RestartReader
  <2> SUFFICES ASSUME resumes = 0, NEW x \in 1..Len(net'),
                      TypeAt(x)' = "header"
               PROVE  x = 1 /\ opened = 0
    BY <1>5, RestartKeeps DEF OnceInv
  <2>1. PICK i \in 0..Len(net) : \E j \in i..Len(net) :
          /\ Len(net') = Len(net) - (j - i)
          /\ \A y \in 1..i : net'[y] = net[y]
          /\ \A y \in (i + 1)..Len(net') :
               y + (j - i) \in (j + 1)..Len(net) /\ net'[y] = net[y + (j - i)]
    BY <1>0, <1>5, RestartNet
  <2>2. PICK j \in i..Len(net) :
          /\ Len(net') = Len(net) - (j - i)
          /\ \A y \in 1..i : net'[y] = net[y]
          /\ \A y \in (i + 1)..Len(net') :
               y + (j - i) \in (j + 1)..Len(net) /\ net'[y] = net[y + (j - i)]
    BY <2>1
  <2>3. Len(net) \in Nat /\ i \in Nat /\ j \in Nat /\ i <= j /\ j <= Len(net)
    BY <1>0, <2>1, <2>2 DEF ChannelTypes
  <2>4. sent' = sent
    BY <1>5, RestartKeeps
  <2>5. CASE x <= i
    <3>1. x \in 1..i /\ x \in 1..Len(net)
      BY <2>3, <2>5
    <3>2. TypeAt(x) = "header"
      BY <2>2, <2>4, <3>1 DEF TypeAt
    <3> QED  BY <3>1, <3>2 DEF OnceInv
  <2>6. CASE ~(x <= i)
    <3>1. x \in (i + 1)..Len(net')
      BY <2>3, <2>6
    <3>2. x + (j - i) \in 1..Len(net) /\ TypeAt(x + (j - i)) = "header"
      BY <2>2, <2>3, <2>4, <3>1 DEF TypeAt
    <3>3. x + (j - i) = 1 /\ opened = 0
      BY <3>2 DEF OnceInv
    <3> QED  BY <2>3, <2>6, <3>3
  <2> QED  BY <2>5, <2>6
<1>4. CASE UNCHANGED <<sent, net, resumes, opened>>
  BY <1>4 DEF OnceInv, TypeAt
<1> QED
  BY <1>1, <1>2, <1>3, <1>4, <1>5
  DEF StreamsNext, StreamsProgress, CallReturns, Open, WriteChunk, Close,
      Cancel, DropWriter, PumpEnds, DropReader, streamsVars, netVars, readerVars

-----------------------------------------------------------------------------
\* Undisturbed, every chunk is the one that the reader expects.

\* Packets that are not trailers are waited for.
LEMMA StepWaits ==
  ASSUME TypeInv, [StreamsNext]_streamsVars, cancels' = 0,
         \A i \in 1..Len(requests) :
           requests[i].packet.type # "trailer" => requests[i].waits
  PROVE  /\ cancels = 0
         /\ ~Cancel
         /\ \A i \in 1..Len(requests') :
              requests'[i].packet.type # "trailer" => requests'[i].waits
<1>0. CallTypes /\ ChannelTypes /\ HistoryTypes
  BY TypeParts DEF TypeInv
<1>1. cancels \in Nat
  BY <1>0, DataStreamsAssumption DEF HistoryTypes
<1>2. ~Cancel
  BY <1>1 DEF Cancel
<1>3. cancels = 0
  BY <1>2, RestartKeeps
  DEF StreamsNext, StreamsProgress, Publish, ReceivePacket, CallReturns, Open,
      WriteChunk, Close, DropWriter, PumpEnds, ResumeSession, DropReader,
      streamsVars, history
<1>4. ASSUME NEW op, NEW packet \in Packets, SendReceive(op, packet)
      PROVE  \A i \in 1..Len(requests') :
               requests'[i].packet.type # "trailer" => requests'[i].waits
  <2>1. /\ Len(requests) \in Nat
        /\ \A i \in 1..Len(requests) : requests'[i] = requests[i]
        /\ \/ /\ Len(requests') = Len(requests) + 1
              /\ requests'[Len(requests) + 1] =
                   [packet |-> packet, waits |-> TRUE]
           \/ requests' = requests
    BY <1>0, <1>4, SendSteps
  <2>2. \/ /\ Len(requests') = Len(requests) + 1
           /\ requests'[Len(requests) + 1].waits
        \/ requests' = requests
    BY <2>1
  <2> QED  BY <2>1, <2>2
<1>5. CASE Publish
  <2>1. /\ \A i \in 1..Len(requests') :
             i + 1 \in 1..Len(requests) /\ requests'[i] = requests[i + 1]
    BY <1>0, <1>5, PublishSteps
  <2> QED  BY <1>2, <1>3, <2>1
<1>6. CASE DropWriter
  <2>1. /\ Len(requests) \in Nat
        /\ \A i \in 1..Len(requests) : requests'[i] = requests[i]
        /\ \/ requests' = requests
           \/ /\ Len(requests') = Len(requests) + 1
              /\ requests'[Len(requests) + 1].packet.type = "trailer"
    BY <1>0, <1>6, DropSteps
  <2> QED  BY <1>2, <1>3, <2>1
<1>7. CASE PumpEnds
  <2>1. Len(requests') = 0
    BY <1>7 DEF PumpEnds
  <2> QED  BY <1>2, <1>3, <2>1
<1>8. CASE WriteChunk
  <2>1. Chunk(chunk_index, writes') \in Packets
    BY <1>0, <1>8, MakePackets, DataStreamsAssumption
    DEF WriteChunk, HistoryTypes, CallTypes
  <2> QED  BY <1>2, <1>3, <1>4, <1>8, <2>1 DEF WriteChunk
<1>9. ASSUME NEW total \in Totals, Open(total)
      PROVE  \A i \in 1..Len(requests') :
               requests'[i].packet.type # "trailer" => requests'[i].waits
  BY <1>4, <1>9, MakePackets DEF Open
<1>10. ASSUME NEW abnormal \in BOOLEAN, Close(abnormal)
       PROVE  \A i \in 1..Len(requests') :
                requests'[i].packet.type # "trailer" => requests'[i].waits
  BY <1>4, <1>10, MakePackets DEF Close
<1>11. CASE requests' = requests
  BY <1>2, <1>3, <1>11
<1> QED
  BY <1>2, <1>3, <1>5, <1>6, <1>7, <1>8, <1>9, <1>10, <1>11, RestartKeeps
  DEF StreamsNext, StreamsProgress, ReceivePacket, CallReturns, ResumeSession,
      DropReader, streamsVars, callVars

\* The number of chunks sent is counted when the answer comes.
LEMMA ChunksCounted ==
  ASSUME TypeInv, CallInv, [StreamsNext]_streamsVars, ~Publish, ~Cancel
  PROVE  ChunksSent' = ChunksSent
<1>0. CallTypes /\ HistoryTypes
  BY TypeParts DEF TypeInv
<1>1. CASE CallReturns
  <2>1. call' = "none" /\ answer' = "none"
    BY <1>1 DEF CallReturns
  <2>2. chunk_index' = IF call = "write" /\ answer = "ok" THEN chunk_index + 1
                       ELSE chunk_index
    BY <1>1 DEF CallReturns, Opened, Written, Closed
  <2> QED  BY <1>0, <2>1, <2>2 DEF ChunksSent, CallTypes
<1>2. ASSUME NEW op, NEW packet, SendReceive(op, packet),
             chunk_index' = chunk_index
      PROVE  ChunksSent' = ChunksSent
  <2>1. call = "none" /\ answer = "none" /\ answer' # "ok"
    BY <1>2 DEF SendReceive, CallInv
  <2> QED  BY <1>2, <2>1 DEF ChunksSent
<1>3. CASE PumpEnds
  <2>1. UNCHANGED <<call, chunk_index>>
    BY <1>3 DEF PumpEnds, writerVars
  <2>2. answer' = answer \/ (answer' = "error" /\ answer = "none")
    <3>1. DOMAIN requests = 1..Len(requests)
      BY <1>0 DEF CallTypes
    <3> QED  BY <1>3, <3>1, Zenon DEF PumpEnds, CallInv
  <2> QED  BY <2>1, <2>2 DEF ChunksSent
<1>4. CASE UNCHANGED <<call, answer, chunk_index>>
  BY <1>4 DEF ChunksSent
<1>5. CASE WriteChunk
  BY <1>2, <1>5 DEF WriteChunk, writerVars
<1>6. ASSUME NEW total \in Totals, Open(total)
      PROVE  ChunksSent' = ChunksSent
  BY <1>2, <1>6 DEF Open, writerVars
<1>7. ASSUME NEW abnormal \in BOOLEAN, Close(abnormal)
      PROVE  ChunksSent' = ChunksSent
  BY <1>2, <1>7 DEF Close, writerVars
<1> QED
  BY <1>1, <1>3, <1>4, <1>5, <1>6, <1>7, RestartKeeps
  DEF StreamsNext, StreamsProgress, ReceivePacket, DropWriter, ResumeSession,
      DropReader, streamsVars, callVars, writerVars

LEMMA FlowPublish ==
  ASSUME TypeInv, CallInv, HeaderInv, FlowInv, Undisturbed, Publish
  PROVE  FlowNet' /\ (HeaderNext => ~open_stream)'
<1>0. CallTypes /\ ChannelTypes /\ ReaderTypes
  BY TypeParts DEF TypeInv
<1> DEFINE n == Len(net)
           q == requests[1].packet
<1>1. /\ Len(requests) \in Nat \ {0} /\ q \in Packets
      /\ Len(sent) \in Nat /\ n \in Nat
      /\ \A z \in 1..n :
           net[z] \in 1..Len(sent) /\ sent'[net'[z]] = sent[net[z]]
      /\ PublishSends \/ net' = net
      /\ PublishSends =>
           /\ Len(net') = n + 1
           /\ net'[n + 1] = Len(sent) + 1
           /\ sent'[Len(sent) + 1] = q
  BY PublishNet
<1>2. UNCHANGED <<open_stream, progress, chunk_index, call>>
  BY DEF Publish, readerVars, writerVars
<1>t. chunk_index \in Nat /\ progress.index \in Nat
  BY <1>0 DEF CallTypes, ReaderTypes
<1>n. /\ net = <<>> <=> n = 0
      /\ net' = <<>> <=> Len(net') = 0
  <2>1. ChannelTypes'
    <3>1. [StreamsNext]_streamsVars
      BY DEF StreamsNext, StreamsProgress
    <3>2. TypeInv'
      BY <3>1, StepTypes
    <3> QED  BY <3>2 DEF TypeInv, StreamsTypeOK, ChannelTypes
  <2> QED  BY <1>0, <2>1, EmptyLen DEF ChannelTypes
<1>h. q.type = "header" =>
        sent = <<>> /\ n = 0 /\ ~open_stream /\ requests[1].waits
  <2> SUFFICES ASSUME q.type = "header"
               PROVE  sent = <<>> /\ n = 0 /\ ~open_stream /\ requests[1].waits
    OBVIOUS
  <2>1. sent = <<>>
    BY <1>1 DEF HeaderInv
  <2>2. Len(sent) = 0
    BY <2>1
  <2>3. n = 0
    BY <1>1, <2>2
  <2> QED  BY <1>1, <2>1, <2>3 DEF HeaderInv, FlowInv
<1>w. requests[1].waits =>
        /\ call # "none" /\ answer = "none"
        /\ call = "open" <=> q.type = "header"
        /\ call = "write" => q = Chunk(chunk_index, writes)
        /\ PublishSends => answer' = "ok"
        /\ net' = net => answer' # "ok"
  <2>1. requests[1] = Head(requests)
    BY <1>0, Tailed DEF Publish, CallTypes
  <2>2. requests[1].waits => (PublishSends => answer' = "ok")
                             /\ (net' = net => answer' # "ok")
    <3>1. net' = net => net' # Append(net, Len(sent'))
      <4>1. Len(Append(net, Len(sent'))) = n + 1
        BY <1>0, <1>1 DEF ChannelTypes
      <4> QED  BY <1>1, <4>1
    <3>2. PublishSends => net' # net
      BY <1>1, <3>1 DEF PublishSends
    <3> QED  BY <2>1, <3>1, <3>2 DEF Publish, PublishSends
  <2> QED  BY <1>1, <2>2 DEF CallInv
<1>a. ~requests[1].waits => answer' = answer
  <2>1. requests[1] = Head(requests)
    BY <1>0, Tailed DEF Publish, CallTypes
  <2> QED  BY <2>1 DEF Publish
<1> HIDE DEF q
<1>3. CASE net' = net
  <2>1. ChunksSent' = ChunksSent
    BY <1>2, <1>3, <1>a, <1>w DEF ChunksSent
  <2>2. HeaderNext' <=> HeaderNext
    BY <1>1, <1>3, <1>n DEF HeaderNext, TypeAt
  <2>3. Skip' = Skip /\ Expected' = Expected
    BY <1>2, <2>2 DEF Skip, Expected
  <2>4. \A x \in 1..n : NoTrailer(x)' <=> NoTrailer(x)
    <3>1. ASSUME NEW x \in 1..n
          PROVE  NoTrailer(x)' <=> NoTrailer(x)
      <4>1. \A y \in 1..x : y \in 1..n
        BY <1>1
      <4>2. \A y \in 1..x : TypeAt(y)' = TypeAt(y)
        BY <1>1, <4>1 DEF TypeAt
      <4> QED  BY <4>2 DEF NoTrailer
    <3> QED  BY <3>1
  <2>5. NoTrailer(Len(net))' <=> NoTrailer(Len(net))
    <3>1. \A y \in 1..Len(net) : TypeAt(y)' = TypeAt(y)
      BY <1>1 DEF TypeAt
    <3> QED  BY <1>3, <3>1 DEF NoTrailer
  <2>6. Skip \in {0, 1}
    BY DEF Skip
  <2>7. FlowNet
    BY DEF FlowInv
  <2>8. ASSUME open_stream \/ HeaderNext
        PROVE  /\ \A x \in (1 + Skip)..Len(net) : NoTrailer(x)' =>
                    /\ IsChunk(sent'[net'[x]])
                    /\ sent'[net'[x]].index = Expected + x - 1 - Skip
               /\ NoTrailer(Len(net))' =>
                    ChunksSent = Expected + Len(net) - Skip
    <3>1. \A x \in (1 + Skip)..Len(net) : x \in 1..n
      BY <1>1, <2>6
    <3> QED  BY <1>1, <2>4, <2>5, <2>7, <2>8, <3>1 DEF FlowNet
  <2>9. FlowNet'
    BY <1>2, <1>3, <2>1, <2>2, <2>3, <2>8 DEF FlowNet, IsChunk
  <2> QED  BY <1>2, <2>2, <2>9 DEF FlowInv
<1>4. CASE PublishSends /\ q.type = "header"
  <2>1. Len(net') = 1 /\ sent'[net'[1]] = q /\ ~open_stream'
    BY <1>1, <1>2, <1>4, <1>h
  <2>2. HeaderNext'
    BY <1>4, <1>n, <2>1 DEF HeaderNext, TypeAt
  <2>3. Skip' = 1 /\ Expected' = 0
    BY <2>2 DEF Skip, Expected
  <2>4. ChunksSent' = 0
    <3>1. call = "open" /\ writer = "none"
      BY <1>4, <1>h, <1>w DEF CallInv
    <3> QED  BY <1>2, <3>1 DEF ChunksSent, FlowInv
  <2>5. FlowNet'
    BY <2>1, <2>3, <2>4 DEF FlowNet
  <2> QED  BY <2>1, <2>5
<1>5. CASE PublishSends /\ q.type # "header"
  <2>1. /\ Len(net') = n + 1 /\ sent'[net'[n + 1]] = q
        /\ \A z \in 1..n : sent'[net'[z]] = sent[net[z]]
    BY <1>1, <1>5
  <2>2. HeaderNext' <=> HeaderNext
    <3>1. CASE n = 0
      <4>1. sent'[net'[1]].type # "header"
        BY <1>5, <2>1, <3>1
      <4> QED  BY <1>n, <3>1, <4>1 DEF HeaderNext, TypeAt
    <3>2. CASE n # 0
      <4>1. sent'[net'[1]] = sent[net[1]]
        BY <1>1, <2>1, <3>2
      <4> QED  BY <1>1, <1>n, <2>1, <3>2, <4>1 DEF HeaderNext, TypeAt
    <3> QED  BY <3>1, <3>2
  <2>3. Skip' = Skip /\ Expected' = Expected
    BY <1>2, <2>2 DEF Skip, Expected
  <2>4. ASSUME NEW x \in 1..n
        PROVE  NoTrailer(x)' <=> NoTrailer(x)
    BY <2>1 DEF NoTrailer, TypeAt
  <2>5. ASSUME NEW x, x = n + 1, NoTrailer(x)'
        PROVE  NoTrailer(n) /\ q.type = "chunk"
    <3>1. /\ \A y \in 1..n : sent[net[y]].type # "trailer"
          /\ q.type # "trailer"
      <4>1. \A y \in 1..(n + 1) : sent'[net'[y]].type # "trailer"
        BY <2>5 DEF NoTrailer, TypeAt
      <4>2. \A y \in 1..n : y \in 1..(n + 1)
        BY <1>1
      <4>3. n + 1 \in 1..(n + 1)
        BY <1>1
      <4> QED  BY <2>1, <4>1, <4>2, <4>3
    <3> QED  BY <1>1, <1>5, <3>1, PacketFields DEF NoTrailer, TypeAt
  <2>6. FlowNet /\ Skip \in {0, 1} /\ Expected \in Nat
    BY <1>t DEF FlowInv, Skip, Expected
  <2>7. q.type = "chunk" =>
          /\ q = Chunk(chunk_index, writes)
          /\ ChunksSent = chunk_index /\ ChunksSent' = chunk_index + 1
    <3> SUFFICES ASSUME q.type = "chunk"
                 PROVE  /\ q = Chunk(chunk_index, writes)
                        /\ ChunksSent = chunk_index
                        /\ ChunksSent' = chunk_index + 1
      OBVIOUS
    <3>1. requests[1].waits
      BY <1>1 DEF FlowInv, q
    <3>2. answer = "none" /\ answer' = "ok"
      BY <1>5, <1>w, <3>1
    <3>3. call = "write"
      BY <1>0, <1>1, <1>w, <3>1 DEF CallInv, CallTypes, q
    <3> QED  BY <1>2, <1>t, <1>w, <3>1, <3>2, <3>3 DEF ChunksSent
  <2>8. ASSUME open_stream \/ HeaderNext
        PROVE  /\ \A x \in (1 + Skip)..(n + 1) : NoTrailer(x)' =>
                    /\ IsChunk(sent'[net'[x]])
                    /\ sent'[net'[x]].index = Expected + x - 1 - Skip
               /\ \A x : x = n + 1 /\ NoTrailer(x)' =>
                    ChunksSent' = Expected + (n + 1) - Skip
    <3>1. /\ \A x \in (1 + Skip)..n : NoTrailer(x) =>
               /\ IsChunk(sent[net[x]])
               /\ sent[net[x]].index = Expected + x - 1 - Skip
          /\ NoTrailer(n) => ChunksSent = Expected + n - Skip
      BY <2>6, <2>8 DEF FlowNet
    <3>2. ASSUME NEW x \in (1 + Skip)..(n + 1), NoTrailer(x)'
          PROVE  /\ IsChunk(sent'[net'[x]])
                 /\ sent'[net'[x]].index = Expected + x - 1 - Skip
      <4>1. CASE x \in 1..n
        <5>1. x \in (1 + Skip)..n
          BY <1>1, <2>6, <4>1
        <5> QED  BY <2>1, <2>4, <3>1, <3>2, <4>1, <5>1
      <4>2. CASE x = n + 1
        <5>1. NoTrailer(n) /\ q.type = "chunk"
          BY <2>5, <3>2, <4>2
        <5>2. q.index = Expected + n - Skip
          BY <2>7, <3>1, <5>1 DEF Chunk
        <5> QED  BY <1>1, <2>1, <2>6, <4>2, <5>1, <5>2 DEF IsChunk
      <4> QED  BY <1>1, <2>6, <4>1, <4>2
    <3>3. ASSUME NEW x, x = n + 1, NoTrailer(x)'
          PROVE  ChunksSent' = Expected + (n + 1) - Skip
      <4>1. NoTrailer(n) /\ q.type = "chunk"
        BY <2>5, <3>3
      <4> QED  BY <1>1, <1>t, <2>6, <2>7, <3>1, <4>1
    <3> QED  BY <3>2, <3>3
  <2>9. FlowNet'
    BY <1>2, <2>1, <2>2, <2>3, <2>8 DEF FlowNet, IsChunk
  <2>10. (HeaderNext => ~open_stream)'
    BY <1>2, <2>2 DEF FlowInv
  <2> QED  BY <2>9, <2>10
<1> QED  BY <1>1, <1>3, <1>4, <1>5

LEMMA FlowReceive ==
  ASSUME TypeInv, CallInv, OnceInv, FlowInv, Undisturbed, ReceivePacket
  PROVE  /\ FlowNet' /\ (HeaderNext => ~open_stream)'
         /\ reader' # "missed"
<1>0. CallTypes /\ ChannelTypes /\ ReaderTypes
  BY TypeParts DEF TypeInv
<1> DEFINE p == sent[net[1]]
<1>1. /\ Len(net) \in Nat \ {0} /\ Len(net') = Len(net) - 1
      /\ \A x \in 1..Len(net') : x + 1 \in 1..Len(net) /\ net'[x] = net[x + 1]
      /\ sent' = sent /\ p \in Packets
      /\ HandleHeader(p) \/ HandleChunk(p) \/ HandleTrailer(p)
  BY <1>0, Arrives
<1>n. net # <<>>
  BY DEF ReceivePacket
<1>2. \A x \in 1..Len(net') : sent'[net'[x]] = sent[net[x + 1]]
  BY <1>1
<1>3. ~HeaderNext'
  <2>1. \A x \in 1..Len(net') : sent'[net'[x]].type # "header"
    BY <1>1, <1>2 DEF OnceInv, Undisturbed, TypeAt
  <2>2. net' # <<>> => 1 \in 1..Len(net')
    <3>1. ChannelTypes'
      <4>1. [StreamsNext]_streamsVars
        BY DEF StreamsNext, StreamsProgress
      <4>2. TypeInv'
        BY <4>1, StepTypes
      <4> QED  BY <4>2 DEF TypeInv, StreamsTypeOK, ChannelTypes
    <3> QED  BY <1>1, <3>1, EmptyLen DEF ChannelTypes
  <2> QED  BY <2>1, <2>2 DEF HeaderNext, TypeAt
<1>4. ChunksSent' = ChunksSent
  BY DEF ReceivePacket, ChunksSent, callVars, writerVars
<1>5. Skip' = 0 /\ Expected' = progress'.index
  BY <1>3 DEF Skip, Expected
<1>t. progress.index \in Nat
  BY <1>0 DEF ReaderTypes
<1>6. HeaderNext <=> p.type = "header"
  BY <1>n DEF HeaderNext, TypeAt
<1> HIDE DEF p
<1>7. ASSUME p.type # "trailer", NEW x \in 0..Len(net'), NoTrailer(x)'
      PROVE  NoTrailer(x + 1)
  <2>1. ASSUME NEW y \in 1..(x + 1)
        PROVE  sent[net[y]].type # "trailer"
    <3>1. CASE y = 1
      BY <1>7, <3>1 DEF p
    <3>2. CASE y # 1
      <4>1. y - 1 \in 1..x /\ y - 1 \in 1..Len(net') /\ y - 1 + 1 = y
        BY <1>1, <3>2
      <4> QED  BY <1>2, <1>7, <4>1 DEF NoTrailer, TypeAt
    <3> QED  BY <3>1, <3>2
  <2> QED  BY <2>1 DEF NoTrailer, TypeAt
\* The stream stays open, or is opened.
<1>8. ASSUME p.type # "trailer", open_stream \/ HeaderNext,
             progress'.index = Expected + 1 - Skip
      PROVE  FlowNet'
  <2>1. /\ \A x \in (1 + Skip)..Len(net) : NoTrailer(x) =>
             /\ IsChunk(sent[net[x]])
             /\ sent[net[x]].index = Expected + x - 1 - Skip
        /\ NoTrailer(Len(net)) => ChunksSent = Expected + Len(net) - Skip
    BY <1>8 DEF FlowInv, FlowNet
  <2>2. Skip \in {0, 1} /\ Expected \in Nat
    BY <1>t DEF Skip, Expected
  <2>3. ASSUME NEW x \in 1..Len(net'), NoTrailer(x)'
        PROVE  /\ IsChunk(sent'[net'[x]])
               /\ sent'[net'[x]].index = progress'.index + x - 1
    <3>1. x + 1 \in (1 + Skip)..Len(net) /\ NoTrailer(x + 1)
      BY <1>1, <1>7, <1>8, <2>2, <2>3
    <3>2. /\ IsChunk(sent[net[x + 1]])
          /\ sent[net[x + 1]].index = Expected + (x + 1) - 1 - Skip
      BY <2>1, <3>1
    <3>3. sent'[net'[x]] = sent[net[x + 1]]
      BY <1>2
    <3>4. Expected + (x + 1) - 1 - Skip = progress'.index + x - 1
      BY <1>1, <1>8, <2>2
    <3> QED  BY <3>2, <3>3, <3>4
  <2>4. ASSUME NEW x, x = Len(net'), NoTrailer(x)'
        PROVE  ChunksSent = progress'.index + x
    <3>1. NoTrailer(x + 1) /\ x + 1 = Len(net)
      BY <1>1, <1>7, <1>8, <2>4
    <3>2. ChunksSent = Expected + (x + 1) - Skip
      BY <2>1, <3>1
    <3>3. Expected + (x + 1) - Skip = progress'.index + x
      BY <1>1, <1>8, <2>2, <2>4
    <3> QED  BY <3>2, <3>3
  <2>5. ASSUME NEW x \in (1 + 0)..Len(net'), NoTrailer(x)'
        PROVE  /\ IsChunk(sent'[net'[x]])
               /\ sent'[net'[x]].index = progress'.index + x - 1 - 0
    <3>1. x \in 1..Len(net')
      OBVIOUS
    <3> QED  BY <1>1, <2>3, <2>5, <3>1
  <2>6. progress'.index \in Nat
    BY <1>8, <2>2
  <2>7. ASSUME NEW x, x = Len(net'), NoTrailer(x)'
        PROVE  ChunksSent' = progress'.index + Len(net') - 0
    BY <1>1, <1>4, <2>4, <2>6, <2>7
  <2> QED  BY <1>5, <2>5, <2>7 DEF FlowNet, IsChunk
<1>9. CASE p.type = "header"
  <2>1. HeaderNext /\ ~open_stream /\ Skip = 1 /\ Expected = 0
    BY <1>6, <1>9 DEF FlowInv, Skip, Expected
  <2>2. /\ progress' = [index |-> 0, bytes |-> 0, total |-> p.total]
        /\ reader' = "reading"
    BY <1>1, <1>9, <2>1 DEF HandleHeader, HandleChunk, HandleTrailer, readerVars
  <2>3. FlowNet'
    BY <1>8, <1>9, <2>1, <2>2
  <2> QED  BY <1>3, <2>2, <2>3
<1>10. CASE p.type = "chunk" /\ open_stream
  <2>1. ~HeaderNext /\ Skip = 0 /\ Expected = progress.index
    BY <1>6, <1>10 DEF Skip, Expected
  <2>2. IsNext(p)
    <3>1. 1 \in (1 + Skip)..Len(net)
      BY <1>1, <2>1
    <3>2. NoTrailer(1)
      BY <1>10 DEF NoTrailer, TypeAt, p
    <3>3. p.index = Expected + 1 - 1 - Skip
      BY <1>10, <3>1, <3>2 DEF FlowInv, FlowNet, p
    <3> QED  BY <1>t, <2>1, <3>3 DEF IsNext
  <2>3. progress' = [progress EXCEPT !.index = @ + 1, !.bytes = @ + 1]
    BY <1>1, <1>10, <2>2 DEF HandleHeader, HandleChunk, HandleTrailer
  <2>4. progress'.index = progress.index + 1
    BY <1>0, <2>3 DEF ReaderTypes
  <2>5. FlowNet'
    BY <1>8, <1>10, <1>t, <2>1, <2>4
  <2>6. reader # "missed"
    BY DEF FlowInv
  <2>7. reader' # "missed"
    BY <1>1, <1>10, <2>2, <2>6
    DEF HandleHeader, HandleChunk, HandleTrailer, CloseStream
  <2> QED  BY <1>3, <2>5, <2>7
<1>11. CASE p.type = "chunk" /\ ~open_stream
  <2>1. UNCHANGED readerVars
    BY <1>1, <1>11 DEF HandleHeader, HandleChunk, HandleTrailer
  <2> QED  BY <1>3, <1>11, <2>1 DEF FlowNet, FlowInv, readerVars
<1>12. CASE p.type = "trailer"
  <2>1. ~open_stream' /\ reader' # "missed"
    BY <1>1, <1>12
    DEF HandleHeader, HandleChunk, HandleTrailer, CloseStream, FlowInv
  <2> QED  BY <1>3, <2>1 DEF FlowNet
<1> QED  BY <1>1, <1>9, <1>10, <1>11, <1>12, PacketFields

LEMMA StepFlow ==
  ASSUME TypeInv, CallInv, HeaderInv, OnceInv, FlowInv,
         [StreamsNext]_streamsVars
  PROVE  FlowInv'
<1>0. CallTypes /\ ChannelTypes /\ HistoryTypes
  BY TypeParts DEF TypeInv
<1> SUFFICES ASSUME Undisturbed'
             PROVE  FlowInv'
  BY DEF FlowInv
<1>1. /\ ~ResumeSession /\ ~RestartSender /\ ~RestartReader
      /\ resumes = 0 /\ restarts = 0
  <2>1. resumes \in Nat /\ restarts \in Nat
    BY <1>0 DEF ChannelTypes
  <2>2. ~ResumeSession /\ ~RestartSender /\ ~RestartReader
    BY <2>1, RestartKeeps DEF ResumeSession, Undisturbed
  <2>3. resumes' = resumes /\ restarts' = restarts
    BY <2>2 DEF StreamsNext, StreamsProgress, Publish, ReceivePacket,
       CallReturns, Open, WriteChunk, Close, Cancel, DropWriter, PumpEnds,
       DropReader, streamsVars, netVars
  <2> QED  BY <2>2, <2>3 DEF Undisturbed
<1>2. cancels # 0 => cancels' # 0
  <2>1. cancels \in Nat
    BY <1>0, DataStreamsAssumption DEF HistoryTypes
  <2> QED
    BY <1>1, <2>1
    DEF StreamsNext, StreamsProgress, Publish, ReceivePacket, CallReturns,
        Open, WriteChunk, Close, Cancel, DropWriter, PumpEnds, DropReader,
        streamsVars, history
<1>3. Undisturbed
  BY <1>1, <1>2 DEF Undisturbed
<1>4. /\ ~Cancel
      /\ \A i \in 1..Len(requests') :
           requests'[i].packet.type # "trailer" => requests'[i].waits
  BY <1>3, StepWaits DEF FlowInv, Undisturbed
<1>5. (writer = "none" => chunk_index = 0)'
  <2>1. CASE CallReturns
    <3>1. writer' # "none"
      <4>1. CASE Opened
        BY <4>1 DEF Opened
      <4>2. CASE Written \/ Closed
        BY <4>2 DEF Written, Closed, CallInv
      <4> QED  BY <2>1, <4>1, <4>2 DEF CallReturns
    <3> QED  BY <3>1
  <2>2. CASE DropWriter
    BY <2>2 DEF DropWriter
  <2>3. CASE UNCHANGED <<writer, chunk_index>>
    BY <1>3, <2>3 DEF FlowInv
  <2> QED
    BY <1>1, <1>4, <2>1, <2>2, <2>3
    DEF StreamsNext, StreamsProgress, Publish, ReceivePacket, Open, WriteChunk,
        Close, PumpEnds, ResumeSession, DropReader, streamsVars, writerVars
<1>6. FlowNet' /\ (HeaderNext => ~open_stream)' /\ reader' # "missed"
  <2>1. CASE Publish
    <3>1. reader' = reader
      BY <2>1 DEF Publish, readerVars
    <3> QED  BY <1>3, <2>1, <3>1, FlowPublish DEF FlowInv
  <2>2. CASE ReceivePacket
    BY <1>3, <2>2, FlowReceive
  <2>3. CASE ~Publish /\ ~ReceivePacket
    <3>1. /\ UNCHANGED <<sent, net, open_stream, progress>>
          /\ reader' = reader \/ reader' = "dropped"
      BY <1>1, <1>4, <2>3
      DEF StreamsNext, StreamsProgress, CallReturns, Open, WriteChunk, Close,
          DropWriter, PumpEnds, DropReader, streamsVars, netVars, readerVars
    <3>2. ChunksSent' = ChunksSent
      BY <1>4, <2>3, ChunksCounted
    <3>3. HeaderNext' <=> HeaderNext
      BY <3>1 DEF HeaderNext, TypeAt
    <3>4. Skip' = Skip /\ Expected' = Expected
      BY <3>1, <3>3 DEF Skip, Expected
    <3>5. \A x : NoTrailer(x)' <=> NoTrailer(x)
      BY <3>1 DEF NoTrailer, TypeAt
    <3>6. NoTrailer(Len(net))' <=> NoTrailer(Len(net))
      BY <3>1 DEF NoTrailer, TypeAt
    <3>7. FlowNet /\ (HeaderNext => ~open_stream) /\ reader # "missed"
      BY <1>3 DEF FlowInv
    <3>8. FlowNet'
      BY <3>1, <3>2, <3>3, <3>4, <3>5, <3>6, <3>7 DEF FlowNet, IsChunk
    <3> QED  BY <3>1, <3>3, <3>7, <3>8
  <2> QED  BY <2>1, <2>2, <2>3
<1> QED  BY <1>4, <1>5, <1>6 DEF FlowInv

-----------------------------------------------------------------------------
\* The theorems.

DataStreamsInv ==
  /\ TypeInv
  /\ CallInv
  /\ HeaderInv
  /\ IndexInv
  /\ ReadInv
  /\ FromSent
  /\ CountInv
  /\ SentInv
  /\ CoverInv
  /\ OnceInv
  /\ FlowInv

LEMMA InitStreams == StreamsInit => DataStreamsInv
<1> SUFFICES ASSUME StreamsInit PROVE DataStreamsInv
  OBVIOUS
<1>1. TypeInv
  BY InitTypes DEF TypeInv, StreamsInit
<1>2. /\ Len(sent) = 0 /\ Len(requests) = 0 /\ Len(net) = 0 /\ Len(read) = 0
      /\ DOMAIN read = {} /\ DOMAIN sent = {}
  BY DEF StreamsInit
<1>3. CallInv /\ HeaderInv
  BY <1>2 DEF StreamsInit, CallInv, HeaderInv
<1>4. IndexInv
  BY <1>2 DEF IndexInv, Made, InSent, InRequests
<1>5. ReadInv /\ FromSent
  BY <1>2 DEF StreamsInit, ReadInv, Increasing, FromSent
<1>c. CountInv
  BY <1>2 DEF StreamsInit, CountInv, Made, InSent, InRequests
<1>6. \A a : ~Succeeded(a)
  BY DEF StreamsInit, Succeeded
<1>7. SentInv /\ CoverInv
  BY <1>6 DEF SentInv, CoverInv
<1>8. OnceInv
  BY <1>2 DEF StreamsInit, OnceInv
<1>9. FlowInv
  BY <1>2 DEF StreamsInit, FlowInv, FlowNet, HeaderNext
<1> QED  BY <1>1, <1>3, <1>4, <1>5, <1>c, <1>7, <1>8, <1>9
    DEF DataStreamsInv

LEMMA StepStreams ==
  DataStreamsInv /\ [StreamsNext]_streamsVars => DataStreamsInv'
  BY StepTypes, StepCall, StepHeader, StepIndex, StepRead, StepFromSent,
     StepCount, StepSent, StepCover, StepOnce, StepFlow DEF DataStreamsInv

LEMMA StreamsInvariant == StreamsSpec => []DataStreamsInv
  BY InitStreams, StepStreams, PTL DEF StreamsSpec

\* StreamsTypeOK: the writer, its task, the channel and the reader keep their
\* types, whatever fails, is dropped or is sent again.
THEOREM StreamsTypes == StreamsSpec => []StreamsTypeOK
<1>1. DataStreamsInv => StreamsTypeOK
  BY DEF DataStreamsInv, TypeInv
<1> QED  BY <1>1, StreamsInvariant, PTL

\* What the reader has been given, and the bounds of numbers.
LEMMA GivenTypes ==
  ASSUME DataStreamsInv
  PROVE  /\ DOMAIN read = 1..Len(read) /\ Len(read) \in Nat
         /\ \A w : w \in Given <=> IsRead(w)
         /\ \A a \in acked : a \in 1..MaxWrites /\ Succeeded(a)
         /\ writes \in Nat
<1>1. ReaderTypes /\ HistoryTypes
  BY TypeParts DEF DataStreamsInv, TypeInv
<1>2. DOMAIN read = 1..Len(read) /\ Len(read) \in Nat
  BY <1>1 DEF ReaderTypes
<1>3. \A w : w \in Given <=> IsRead(w)
  BY <1>2 DEF Given, IsRead
<1>4. \A a \in acked : a \in 1..MaxWrites /\ Succeeded(a)
  BY <1>1 DEF HistoryTypes, Succeeded
<1>5. writes \in Nat
  BY <1>1, DataStreamsAssumption DEF HistoryTypes
<1> QED  BY <1>2, <1>3, <1>4, <1>5

\* CompleteIsExact: a reader that sees the end of a stream and no error has
\* read every write that succeeded, but those whose packet a full restart
\* lost, and the announced number of bytes whatever was lost, for any number
\* of writes, resumes, restarts, failures and dropped calls.
THEOREM ReadExactly == StreamsSpec => []CompleteIsExact
<1>1. DataStreamsInv => CompleteIsExact
  <2> SUFFICES ASSUME DataStreamsInv, reader = "complete"
               PROVE  /\ \A w \in acked : w \in Given \/ LostOnTheWay(w)
                      /\ progress.total # NoTotal => Len(read) = progress.total
    BY DEF CompleteIsExact
  <2>1. \A a \in acked : LostOnTheWay(a) \/ IsRead(a)
    BY GivenTypes DEF DataStreamsInv, CoverInv
  <2>2. progress.total # NoTotal => Len(read) = progress.total
    BY DEF DataStreamsInv, ReadInv
  <2> QED  BY <2>1, <2>2, GivenTypes
<1> QED  BY <1>1, StreamsInvariant, PTL

\* ReadsInOrder: at any time what the reader has been given is in order and
\* without repetition, and without a hole but where a full restart lost a
\* packet; it is the writes from the first on as long as every write before
\* the last has succeeded.
THEOREM GivenInOrder == StreamsSpec => []ReadsInOrder
<1>1. DataStreamsInv => ReadsInOrder
  <2> SUFFICES ASSUME DataStreamsInv PROVE ReadsInOrder
    OBVIOUS
  <2>1. \A i, j \in DOMAIN read : i < j => read[i] < read[j]
    BY DEF DataStreamsInv, ReadInv, Increasing
  <2>2. ASSUME NEW w \in acked, NEW v \in Given, w < v, ~LostOnTheWay(w)
        PROVE  w \in Given
    <3>1. IsPast(w)
      BY <2>2, GivenTypes DEF IsPast, IsRead
    <3>2. IsRead(w)
      BY <2>2, <3>1, GivenTypes DEF DataStreamsInv, CoverInv
    <3> QED  BY <3>2, GivenTypes
  <2>3. ASSUME 1..(writes - 1) \subseteq acked, NEW i \in DOMAIN read
        PROVE  read[i] = i
    <3>0. i \in 1..Len(read) /\ i \in Nat /\ writes \in Nat
      BY <2>3, GivenTypes
    <3>1. PICK p \in Packets :
            InSent(p) /\ IsChunk(p) /\ p.write = read[i] /\ p.index = i - 1
      BY <3>0 DEF DataStreamsInv, FromSent
    <3>2. Made(p) /\ p.write \in Nat
      BY <3>1, PacketFields DEF Made, IsChunk
    <3>3. p.write <= writes
      BY <3>1, <3>2 DEF DataStreamsInv, IndexInv
    <3>4. 1..(p.write - 1) \subseteq 1..(writes - 1)
      BY <3>0, <3>2, <3>3
    <3>5. p.index = p.write - 1
      BY <2>3, <3>1, <3>2, <3>4 DEF DataStreamsInv, CountInv
    <3> QED  BY <3>0, <3>1, <3>2, <3>5
  <2> QED  BY <2>1, <2>2, <2>3 DEF ReadsInOrder
<1> QED  BY <1>1, StreamsInvariant, PTL

\* MissedOnlyIfDisturbed: without a dropped call, a resume or a full restart,
\* publish_data may fail as it will and the reader misses no chunk and gets the
\* stream once.
THEOREM OnlyDisturbedMiss == StreamsSpec => []MissedOnlyIfDisturbed
<1>1. DataStreamsInv => MissedOnlyIfDisturbed
  <2> SUFFICES ASSUME DataStreamsInv, reader = "missed" \/ opened > 1,
                      ~(cancels > 0 \/ resumes > 0 \/ restarts > 0)
               PROVE  FALSE
    BY DEF MissedOnlyIfDisturbed
  <2>1. /\ cancels \in Nat /\ resumes \in Nat /\ restarts \in Nat
        /\ opened \in Nat
    BY TypeParts
    DEF DataStreamsInv, TypeInv, HistoryTypes, ChannelTypes, ReaderTypes
  <2>2. cancels = 0 /\ resumes = 0 /\ restarts = 0
    BY <2>1
  <2>3. opened <= 1
    BY <2>2 DEF DataStreamsInv, OnceInv
  <2>4. reader # "missed"
    BY <2>2 DEF DataStreamsInv, FlowInv, Undisturbed
  <2> QED  BY <2>1, <2>3, <2>4
<1> QED  BY <1>1, StreamsInvariant, PTL

=============================================================================
