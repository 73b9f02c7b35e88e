----------------------------- MODULE Reconnection -----------------------------
(***************************************************************************)
(* What RtcEngine (livekit/src/rtc_engine/mod.rs) promises of a lost       *)
(* connection, without locks, events, acknowledgements or attempts.        *)
(*                                                                         *)
(* One cycle at a time reconnects the engine.  It resumes the session or   *)
(* restarts with a newer one; once it has decided to restart it does not   *)
(* resume any more.  It settles when the session works again, or when the  *)
(* engine is closed, and never while an API call uses the session.         *)
(* After the server has asked to disconnect no cycle begins.               *)
(***************************************************************************)
EXTENDS Naturals

CONSTANT Callers \* callers of the engine's API

VARIABLES
  phase,   \* of the cycle: "idle", "resume", "restart" or "settled"
  allowed, \* whether a cycle may begin
  open,    \* whether the engine has not been closed
  current, \* the number of the session
  works,   \* whether the session has its connections
  users    \* callers that use the session

reconnectionVars == <<phase, allowed, open, current, works, users>>

ReconnectionInit ==
  /\ phase = "idle"
  /\ allowed = TRUE
  /\ open = TRUE
  /\ current = 1
  /\ works = TRUE
  /\ users = {}

\* The connections of the session break, or it is closed.
Break ==
  /\ works
  /\ works' = FALSE
  /\ UNCHANGED <<phase, allowed, open, current, users>>

\* A cycle begins.
Begin ==
  /\ phase = "idle"
  /\ allowed
  /\ phase' \in {"resume", "restart"}
  /\ UNCHANGED <<allowed, open, current, works, users>>

\* A resume failed, or an event asks for more.
Escalate ==
  /\ phase = "resume"
  /\ phase' = "restart"
  /\ UNCHANGED <<allowed, open, current, works, users>>

\* The session is opened again.
Reopen ==
  /\ phase = "resume"
  /\ works' = TRUE
  /\ UNCHANGED <<phase, allowed, open, current, users>>

\* The cycle settles with the session that works again.
Resumed ==
  /\ phase = "resume"
  /\ works
  /\ users = {}
  /\ phase' = "settled"
  /\ UNCHANGED <<allowed, open, current, works, users>>

\* A newer session takes its place.
Restarted ==
  /\ phase = "restart"
  /\ users = {}
  /\ phase' = "settled"
  /\ current' > current
  /\ works' = TRUE
  /\ UNCHANGED <<allowed, open, users>>

\* Only the cycle of a closed engine ends without a connection.
GiveUp ==
  /\ phase \in {"resume", "restart"}
  /\ ~open
  /\ phase' = "settled"
  /\ UNCHANGED <<allowed, open, current, works, users>>

\* The engine is as before, and a cycle may begin again.
End ==
  /\ phase = "settled"
  /\ phase' = "idle"
  /\ UNCHANGED <<allowed, open, current, works, users>>

\* The server asks to disconnect, maybe in answer to a resume.
Forbid ==
  /\ allowed
  /\ allowed' = FALSE
  /\ phase' = phase \/ (phase = "resume" /\ phase' = "restart")
  /\ UNCHANGED <<open, current, works, users>>

Close ==
  /\ open
  /\ open' = FALSE
  /\ UNCHANGED <<phase, allowed, current, works, users>>

\* A call begins while nothing reconnects, and returns.
Enter(a) ==
  /\ phase = "idle"
  /\ open
  /\ a \notin users
  /\ users' = users \cup {a}
  /\ UNCHANGED <<phase, allowed, open, current, works>>

Leave(a) ==
  /\ a \in users
  /\ users' = users \ {a}
  /\ UNCHANGED <<phase, allowed, open, current, works>>

ReconnectionNext ==
  \/ Break
  \/ Begin
  \/ Escalate
  \/ Reopen
  \/ Resumed
  \/ Restarted
  \/ GiveUp
  \/ End
  \/ Forbid
  \/ Close
  \/ \E a \in Callers : Enter(a) \/ Leave(a)

ReconnectionSpec ==
  ReconnectionInit /\ [][ReconnectionNext]_reconnectionVars
=============================================================================
