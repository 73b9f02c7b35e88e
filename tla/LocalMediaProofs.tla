--------------------------- MODULE LocalMediaProofs ---------------------------
(***************************************************************************)
(* Theorems about module LocalMedia: for any number of tracks, calls,      *)
(* restarts and faults, whoever takes a publication finds its transceiver  *)
(* (TransceiverInPlace), an entry of pending_tracks has a call that waits  *)
(* for it (PendingIsAwaited), when nothing is under way the room and the   *)
(* server have the same publications (ServerAgrees), and Reconnected means *)
(* that the tracks are back (TracksRestored).                              *)
(***************************************************************************)
EXTENDS LocalMedia, SequenceTheorems, TLAPS

Sids == 1..Len(named)

Places == {"idle", "add_track", "answer", "create_sender",
           "add_publication", "unpublish", "remove_track"}

CallType == [at : Places, sid : {NoSid} \cup Sids, session : Nat]

\* What the proof needs of the types.
Types ==
  /\ named \in Seq(Tracks)
  /\ toServer \in Seq(Tracks)
  /\ fromServer \in Seq(Sids)
  /\ table \subseteq Sids
  /\ detached \subseteq Sids
  /\ call \in [Callers -> CallType]
  /\ snapshot \in [Batches -> SUBSET Sids]
  /\ transceiver \in [Tracks -> {NoSid} \cup Sids]
  /\ pending \in [Tracks -> {Nobody} \cup Callers]
  /\ session \in Nat

\* The sid a call works on is one of its track.
SidOfCall ==
  \A c \in Callers :
    (\E p \in {"unpublish", "remove_track", "create_sender",
               "add_publication"} : At(c, p))
    => call[c].sid \in Sids /\ named[call[c].sid] = c[1]

\* An answer that is still on its way names a publication nobody has seen.
Fresh ==
  /\ \A i, j \in 1..Len(fromServer) :
       fromServer[i] = fromServer[j] => i = j
  /\ \A i \in 1..Len(fromServer) :
       /\ fromServer[i] \notin table \cup detached
       /\ \A c \in Callers : call[c].sid # fromServer[i]
       /\ \A n \in Batches : fromServer[i] \notin snapshot[n]

\* A track that was not raced for has one call at work, ...
Alone ==
  \A c, d \in Callers :
    c[1] = d[1] /\ c[1] \notin raced /\ ~At(c, "idle") /\ ~At(d, "idle")
    => c = d

\* ... one publication, with its transceiver, ...
OnePublication ==
  \A s \in table : named[s] \notin raced =>
    /\ s \notin detached
    /\ transceiver[named[s]] = s
    /\ named[s] \in owns
    /\ \A u \in table : named[u] = named[s] => u = s

\* ... no publication while a call is at work, except one that is about to
\* take it, ...
Busy ==
  \A c \in Callers : c[1] \notin raced /\ ~At(c, "idle") =>
    /\ IF At(c, "unpublish") THEN call[c].sid \in table
                             ELSE \A s \in table : named[s] # c[1]
    /\ At(c, "remove_track") => transceiver[c[1]] # NoSid
    /\ At(c, "create_sender") \/ At(c, "add_publication") =>
         call[c].sid \notin detached
    /\ c[2] = App <=> c[1] \notin owns

\* ... and one republishing task that is to take its turn.
OneTurn ==
  \A n \in Batches : \A s \in snapshot[n] : named[s] \notin raced =>
    /\ s \in table
    /\ \A c \in Callers : c[1] = named[s] => At(c, "idle")
    /\ \A m \in Batches : \A u \in snapshot[m] :
         named[u] = named[s] => m = n

\* An entry of pending_tracks is of a call for that track.
PendingOwn == \A t \in Tracks : pending[t] # Nobody => pending[t][1] = t

IInv ==
  /\ Types
  /\ SidOfCall
  /\ Fresh
  /\ Alone
  /\ OnePublication
  /\ Busy
  /\ OneTurn
  /\ PendingOwn

-----------------------------------------------------------------------------
(***************************************************************************)
(* What a call becomes.                                                    *)
(***************************************************************************)
\* Only the call c changes.
OnlyCall(c) == \A d \in Callers : d # c => call'[d] = call[d]

LEMMA CallGoes ==
  ASSUME Types, Sids \subseteq Sids', NEW c \in Callers, NEW p \in Places,
         Goto(c, p)
  PROVE  /\ call' \in [Callers -> CallType']
         /\ call'[c].at = p
         /\ call'[c].sid = call[c].sid
         /\ OnlyCall(c)
  BY DEF Types, Goto, OnlyCall, CallType

LEMMA CallReturns ==
  ASSUME Types, Sids \subseteq Sids', NEW c \in Callers, Return(c)
  PROVE  /\ call' \in [Callers -> CallType']
         /\ call'[c].at = "idle"
         /\ call'[c].sid = NoSid
         /\ OnlyCall(c)
  BY DEF Types, Return, OnlyCall, CallType, Idle, Working, Places

LEMMA CallStarts ==
  ASSUME Types, Sids \subseteq Sids', NEW c \in Callers, NEW p \in Places,
         NEW sid \in Sids,
         call' = [call EXCEPT ![c] = Working(p, sid)]
  PROVE  /\ call' \in [Callers -> CallType']
         /\ call'[c].at = p
         /\ call'[c].sid = sid
         /\ OnlyCall(c)
<1> DEFINE started == Working(p, sid)
<1>2. started \in CallType' /\ started.at = p /\ started.sid = sid
  BY DEF CallType, Working
<1>3. call' = [call EXCEPT ![c] = started]
  OBVIOUS
<1>4. \A d \in Callers : call[d] \in CallType'
  BY DEF Types, CallType
<1> HIDE DEF started
<1> QED
  BY <1>2, <1>3, <1>4 DEF Types, OnlyCall

LEMMA CallAnswered ==
  ASSUME Types, Sids \subseteq Sids', NEW c \in Callers, NEW sid \in Sids,
         call' = [call EXCEPT ![c] = [at |-> "create_sender", sid |-> sid,
                                      session |-> session]]
  PROVE  /\ call' \in [Callers -> CallType']
         /\ call'[c].at = "create_sender"
         /\ call'[c].sid = sid
         /\ OnlyCall(c)
  BY DEF Types, OnlyCall, CallType, Places

LEMMA CallersOfTracks ==
  /\ \A c \in Callers : c[1] \in Tracks
  /\ \A t \in Tracks : <<t, App>> \in Callers
  /\ \A t \in Tracks : \A n \in Batches : <<t, n>> \in Callers
  /\ \A c \in Callers : c = <<c[1], c[2]>> /\ (c[2] = App \/ c[2] \in Batches)
  /\ \A n \in Batches : n # App
<1>1. MaxSessions \in Nat
  BY LocalMediaAssumption
<1>2. \A n \in Batches : n # App
  BY <1>1 DEF Batches, App
<1> HIDE DEF Batches
<1>3. \A c \in Callers : /\ c[1] \in Tracks
                         /\ c[2] \in {App} \cup Batches
                         /\ c = <<c[1], c[2]>>
  BY DEF Callers
<1>4. \A t \in Tracks : \A n \in {App} \cup Batches : <<t, n>> \in Callers
  BY DEF Callers
<1> QED
  BY <1>2, <1>3, <1>4

-----------------------------------------------------------------------------
(***************************************************************************)
(* Types                                                                   *)
(***************************************************************************)
LEMMA SequenceTypes ==
  ASSUME NEW S, NEW q \in Seq(S)
  PROVE  /\ \A x \in S : Append(q, x) \in Seq(S)
         /\ q # <<>> => Tail(q) \in Seq(S) /\ Head(q) \in S
         /\ <<>> \in Seq(S)
  BY AppendProperties, HeadTailProperties, EmptySeq

LEMMA InitTypes == Init => Types
<1> SUFFICES ASSUME Init PROVE Types
  OBVIOUS
<1>1. Len(named) = 0 /\ named \in Seq(Tracks) /\ fromServer \in Seq(Sids)
      /\ toServer \in Seq(Tracks)
  BY EmptySeq DEF Init
<1>2. call \in [Callers -> CallType]
  BY DEF Init, Idle, Working, CallType, Places
<1> QED
  BY <1>1, <1>2 DEF Init, Types, CallType

\* Steps that change none of the typed variables.
typed == <<named, toServer, fromServer, table, detached, call, snapshot,
           transceiver, pending, session>>

LEMMA TypesUntouched == Types /\ UNCHANGED typed => Types'
  BY DEF Types, CallType, Sids, typed

LEMMA TypesForget ==
  ASSUME Types, NEW t \in Tracks, Forget(t)
  PROVE  pending' \in [Tracks -> {Nobody} \cup Callers]
  BY DEF Types, Forget

LEMMA NextTypes == Types /\ SidOfCall /\ PendingOwn /\ [Next]_vars => Types'
<1> SUFFICES ASSUME Types, SidOfCall, PendingOwn, [Next]_vars PROVE Types'
  OBVIOUS
<1> USE DEF engineVars, sessionVars, serverVars, objectVars, appVars,
            roomVars, historyVars
<1>0. (UNCHANGED named) => Sids' = Sids /\ CallType' = CallType
  BY DEF CallType, Sids
<1>1. ASSUME NEW t \in Tracks, PublishTrack(t) PROVE Types'
  <2>1. Goto(<<t, App>>, "add_track") /\ <<t, App>> \in Callers
    BY <1>1, CallersOfTracks DEF PublishTrack
  <2>2. call' \in [Callers -> CallType']
    BY <1>0, <1>1, <2>1, CallGoes DEF PublishTrack, Places
  <2> QED
    BY <1>0, <1>1, <2>2 DEF PublishTrack, Types
<1>2. ASSUME NEW t \in Tracks, UnpublishTrack(t) PROVE Types'
  <2>1. PICK sid \in table :
          /\ RemovePublication(sid)
          /\ call' = [call EXCEPT ![<<t, App>>] = Working("remove_track", sid)]
    BY <1>2 DEF UnpublishTrack
  <2>2. call' \in [Callers -> CallType']
    BY <1>0, <1>2, <2>1, CallStarts, CallersOfTracks
       DEF UnpublishTrack, Places, Types
  <2> QED
    BY <1>0, <1>2, <2>1, <2>2 DEF UnpublishTrack, Types, RemovePublication
<1>3. ASSUME NEW c \in Callers, AddTrack(c) PROVE Types'
  <2>1. call' \in [Callers -> CallType']
    BY <1>0, <1>3, CallGoes, CallReturns DEF AddTrack, Places
  <2>2. c[1] \in Tracks
    BY CallersOfTracks
  <2>3. toServer' \in Seq(Tracks)
    <3>1. toServer' \in {toServer, Append(toServer, c[1])}
      BY <1>3 DEF AddTrack
    <3>2. toServer \in Seq(Tracks)
      BY DEF Types
    <3>3. Append(toServer, c[1]) \in Seq(Tracks)
      BY <2>2, <3>2, AppendProperties
    <3> QED
      BY <3>1, <3>2, <3>3
  <2>4. pending' \in [Tracks -> {Nobody} \cup Callers]
    BY <1>3, <2>2 DEF AddTrack, Types
  <2> QED
    BY <1>0, <1>3, <2>1, <2>3, <2>4 DEF AddTrack, Types
<1>4. ASSUME NEW c \in Callers, TrackTimeout(c) PROVE Types'
  <2>1. call' \in [Callers -> CallType']
    BY <1>0, <1>4, CallReturns DEF TrackTimeout
  <2>2. pending' \in [Tracks -> {Nobody} \cup Callers]
    BY <1>4, CallersOfTracks, TypesForget DEF TrackTimeout
  <2> QED
    BY <1>0, <1>4, <2>1, <2>2 DEF TrackTimeout, Types
<1>5. ASSUME NEW c \in Callers, CreateSender(c) PROVE Types'
  <2>1. call' \in [Callers -> CallType']
    BY <1>0, <1>5, CallGoes, CallReturns DEF CreateSender, Places
  <2> QED
    BY <1>0, <1>5, <2>1 DEF CreateSender, Types
<1>6. ASSUME NEW c \in Callers, AddPublication(c) PROVE Types'
  <2>1. call' \in [Callers -> CallType']
    BY <1>0, <1>6, CallReturns DEF AddPublication
  <2>2. call[c].sid \in Sids
    BY <1>6 DEF AddPublication, SidOfCall
  <2> QED
    BY <1>0, <1>6, <2>1, <2>2 DEF AddPublication, Types
<1>7. ASSUME NEW c \in Callers, EngineClosed(c) PROVE Types'
  <2>1. call' \in [Callers -> CallType']
    BY <1>0, <1>7, CallReturns DEF EngineClosed
  <2> QED
    BY <1>0, <1>7, <2>1 DEF EngineClosed, Types
<1>8. ASSUME NEW c \in Callers, Cancel(c) PROVE Types'
  <2>1. call' \in [Callers -> CallType']
    BY <1>0, <1>8, CallReturns DEF Cancel
  <2> QED
    BY <1>0, <1>8, <2>1 DEF Cancel, Types
<1>9. ASSUME NEW c \in Callers, Republish(c) PROVE Types'
  <2>1. call' \in [Callers -> CallType']
    BY <1>0, <1>9, CallGoes DEF Republish, Places
  <2>2. table' \subseteq table
    BY <1>9 DEF Republish, RemovePublication
  <2> QED
    BY <1>0, <1>9, <2>1, <2>2 DEF Republish, Types
<1>10. ASSUME NEW c \in Callers, RemoveTrack(c) PROVE Types'
  <2>1. call' \in [Callers -> CallType']
    BY <1>0, <1>10, CallGoes, CallReturns DEF RemoveTrack, Unpublished, Places
  <2>2. call[c].sid \in Sids
    BY <1>10 DEF RemoveTrack, SidOfCall
  <2>3. c[1] \in Tracks
    BY CallersOfTracks
  <2>4. pending' \in [Tracks -> {Nobody} \cup Callers]
    BY <1>10, <2>3, TypesForget DEF RemoveTrack, Types
  <2>5. transceiver' \in [Tracks -> {NoSid} \cup Sids] /\ detached' \subseteq Sids
    BY <1>10, <2>2, <2>3 DEF RemoveTrack, Types
  <2> QED
    BY <1>0, <1>10, <2>1, <2>4, <2>5 DEF RemoveTrack, Types
<1>11. CASE ServerAddsTrack
  <2>1. /\ named' \in Seq(Tracks)
        /\ Len(named') = Len(named) + 1
        /\ toServer' \in Seq(Tracks)
    BY <1>11, SequenceTypes, AppendProperties DEF ServerAddsTrack, Types
  <2>2. Sids \subseteq Sids' /\ Len(named') \in Sids'
    BY <2>1, LenProperties DEF Types, Sids
  <2>3. fromServer \in Seq(Sids')
    BY <2>2, SeqMonotonic DEF Types
  <2>4. fromServer' \in Seq(Sids')
    BY <1>11, <2>2, <2>3, SequenceTypes DEF ServerAddsTrack
  <2>5. CallType \subseteq CallType'
    BY <2>2 DEF CallType
  <2>6. call' \in [Callers -> CallType'] /\ snapshot' \in [Batches -> SUBSET Sids']
        /\ transceiver' \in [Tracks -> {NoSid} \cup Sids']
    BY <1>11, <2>2, <2>5 DEF ServerAddsTrack, Types
  <2> QED
    BY <1>11, <2>1, <2>2, <2>4, <2>6 DEF ServerAddsTrack, Types
<1>12. CASE OnTrackPublished
  <2>1. /\ Head(fromServer) \in Sids
        /\ fromServer' \in Seq(Sids)
    BY <1>12, SequenceTypes DEF OnTrackPublished, Types
  <2>2. named[Head(fromServer)] \in Tracks
    BY <2>1, ElementOfSeq DEF Types, Sids
  <2> DEFINE c == pending[named[Head(fromServer)]]
  <2>3. c = Nobody \/ c \in Callers
    BY <2>2 DEF Types
  <2>4. call' \in [Callers -> CallType']
    <3>1. CASE c # Nobody /\ At(c, "answer")
      BY <1>0, <1>12, <2>1, <2>3, <3>1, CallAnswered DEF OnTrackPublished
    <3>2. CASE ~(c # Nobody /\ At(c, "answer"))
      BY <1>0, <1>12, <3>2 DEF OnTrackPublished, Types
    <3> QED
      BY <3>1, <3>2
  <2>5. pending' \in [Tracks -> {Nobody} \cup Callers]
    BY <1>12, <2>2, TypesForget DEF OnTrackPublished
  <2> QED
    BY <1>0, <1>12, <2>1, <2>4, <2>5 DEF OnTrackPublished, Types
<1>13. CASE LoseConnection
  <2>1. toServer' \in Seq(Tracks) /\ fromServer' \in Seq(Sids)
    BY <1>13, SequenceTypes DEF LoseConnection, Types
  <2> QED
    BY <1>0, <1>13, <2>1 DEF LoseConnection, Types
<1>14. CASE Restart
  <2>1. toServer' \in Seq(Tracks) /\ fromServer' \in Seq(Sids)
    BY <1>14, SequenceTypes DEF Restart, Types
  <2>2. pending' \in [Tracks -> {Nobody} \cup Callers]
    BY <1>14 DEF Restart
  <2> QED
    BY <1>0, <1>14, <2>1, <2>2 DEF Restart, Types
<1>15. CASE HandleRestarted
  <2>1. snapshot' \in [Batches -> SUBSET Sids]
    BY <1>15 DEF HandleRestarted, Types
  <2> QED
    BY <1>0, <1>15, <2>1 DEF HandleRestarted, Types
<1>16. ASSUME NEW n \in Batches, SpawnRepublish(n) PROVE Types'
  <2>1. PICK sid \in snapshot[n] :
          \/ snapshot' = [snapshot EXCEPT ![n] = {}] /\ UNCHANGED call
          \/ /\ call' = [call EXCEPT ![<<named[sid], n>>] =
                           Working("unpublish", sid)]
             /\ snapshot' = [snapshot EXCEPT ![n] = @ \ {sid}]
    BY <1>16 DEF SpawnRepublish
  <2>2. sid \in Sids /\ named[sid] \in Tracks
    BY <2>1, ElementOfSeq DEF Types, Sids
  <2>3. UNCHANGED named
    BY <1>16 DEF SpawnRepublish
  <2>4. call' \in [Callers -> CallType']
    BY <1>0, <2>1, <2>2, <2>3, CallStarts, CallersOfTracks DEF Types, Places
  <2>5. PICK rest : snapshot' = [snapshot EXCEPT ![n] = rest]
                   /\ rest \subseteq snapshot[n]
    BY <2>1
  <2>6. snapshot \in [Batches -> SUBSET Sids]
    BY DEF Types
  <2>7. snapshot' \in [Batches -> SUBSET Sids]
    BY <2>5, <2>6
  <2> QED
    BY <1>0, <1>16, <2>4, <2>7 DEF SpawnRepublish, Types
<1>17. CASE Negotiate \/ ReconnectionNeeded \/ ReconnectTask \/ Resume
            \/ ReleaseLock \/ EngineClose
            \/ \E n \in Batches : Reconnected(n)
  BY <1>17, TypesUntouched
     DEF Negotiate, ReconnectionNeeded, ReconnectTask, Resume, ReleaseLock,
         EngineClose, Reconnected, typed
<1>18. CASE UNCHANGED vars
  BY <1>18, TypesUntouched DEF vars, typed
<1> QED
  BY <1>1, <1>2, <1>3, <1>4, <1>5, <1>6, <1>7, <1>8, <1>9, <1>10, <1>11,
     <1>12, <1>13, <1>14, <1>15, <1>16, <1>17, <1>18
     DEF Next, Progress, CallStep, EngineStep, RoomStep

-----------------------------------------------------------------------------
(***************************************************************************)
(* The entries of pending_tracks                                           *)
(***************************************************************************)
LEMMA NextPendingOwn == Types /\ PendingOwn /\ [Next]_vars => PendingOwn'
<1> SUFFICES ASSUME Types, PendingOwn, [Next]_vars PROVE PendingOwn'
  OBVIOUS
<1> USE DEF engineVars, sessionVars, serverVars, objectVars, appVars,
            roomVars, historyVars
<1>0. pending \in [Tracks -> {Nobody} \cup Callers]
  BY DEF Types
<1>1. ASSUME NEW c \in Callers, AddTrack(c) PROVE PendingOwn'
  BY <1>0, <1>1, CallersOfTracks DEF AddTrack, PendingOwn
<1>2. ASSUME NEW t, Forget(t) PROVE PendingOwn'
  BY <1>0, <1>2 DEF Forget, PendingOwn
<1>3. CASE pending' = [t \in Tracks |-> Nobody]
  BY <1>3 DEF PendingOwn
<1>4. CASE UNCHANGED pending
  BY <1>4 DEF PendingOwn
<1>5. ASSUME NEW c \in Callers, CallStep(c) PROVE PendingOwn'
  BY <1>1, <1>2, <1>4, <1>5
     DEF CallStep, TrackTimeout, CreateSender, AddPublication, EngineClosed,
         Republish, RemoveTrack
<1>6. CASE EngineStep
  BY <1>3, <1>4, <1>6
     DEF EngineStep, ReconnectionNeeded, ReconnectTask, Resume, Restart,
         ReleaseLock, EngineClose
<1>7. CASE RoomStep
  BY <1>4, <1>7
     DEF RoomStep, HandleRestarted, SpawnRepublish, Reconnected
<1>8. CASE ServerAddsTrack \/ OnTrackPublished \/ Negotiate \/ LoseConnection
  BY <1>2, <1>4, <1>8
     DEF ServerAddsTrack, OnTrackPublished, Negotiate, LoseConnection
<1>9. ASSUME NEW t \in Tracks, PublishTrack(t) \/ UnpublishTrack(t)
      PROVE PendingOwn'
  BY <1>4, <1>9 DEF PublishTrack, UnpublishTrack
<1>10. ASSUME NEW c \in Callers, Cancel(c) PROVE PendingOwn'
  BY <1>4, <1>10 DEF Cancel
<1>11. CASE UNCHANGED vars
  BY <1>4, <1>11 DEF vars
<1> QED
  BY <1>5, <1>6, <1>7, <1>8, <1>9, <1>10, <1>11 DEF Next, Progress

-----------------------------------------------------------------------------
(***************************************************************************)
(* The invariant                                                           *)
(***************************************************************************)
Core == SidOfCall /\ Fresh /\ Alone /\ OnePublication /\ Busy /\ OneTurn

coreVars == <<named, fromServer, table, detached, transceiver, owns,
              snapshot, raced>>

LEMMA InitInv == Init => IInv
<1> SUFFICES ASSUME Init PROVE IInv
  OBVIOUS
<1>1. Types
  BY InitTypes
<1>2. \A c \in Callers : At(c, "idle") /\ call[c].sid = NoSid
  BY DEF Init, At, Idle, Working
<1>3. Len(fromServer) = 0 /\ table = {} /\ \A n \in Batches : snapshot[n] = {}
  BY DEF Init
<1>4. PendingOwn
  BY DEF Init, PendingOwn
<1>5. SidOfCall
  BY <1>2 DEF SidOfCall, At
<1> QED
  BY <1>1, <1>2, <1>3, <1>4, <1>5
     DEF IInv, Fresh, Alone, OnePublication, Busy, OneTurn

LEMMA Numbers ==
  ASSUME Types
  PROVE  /\ \A s \in Sids : named[s] \in Tracks /\ s # NoSid
         /\ \A i \in 1..Len(fromServer) : fromServer[i] \in Sids
<1>1. \A s \in Sids : named[s] \in Tracks /\ s # NoSid
  BY ElementOfSeq DEF Types, Sids, NoSid
<1>2. \A i \in 1..Len(fromServer) : fromServer[i] \in Sids
  BY ElementOfSeq DEF Types
<1> QED
  BY <1>1, <1>2

LEMMA CoreUntouched ==
  ASSUME Core, UNCHANGED <<coreVars, call>>
  PROVE  Core'
<1> USE DEF coreVars, At
<1>1. SidOfCall' /\ Fresh'
  BY DEF Core, SidOfCall, Fresh, Sids
<1>2. Alone' /\ OnePublication' /\ Busy' /\ OneTurn'
  BY DEF Core, Alone, OnePublication, Busy, OneTurn
<1> QED
  BY <1>1, <1>2 DEF Core

\* The answers on their way are lost.
LEMMA CoreLoses ==
  ASSUME Core, fromServer' \in {fromServer, <<>>},
         UNCHANGED <<named, table, detached, transceiver, owns, snapshot,
                     raced, call>>
  PROVE  Core'
<1> USE DEF At
<1>1. SidOfCall'
  BY DEF Core, SidOfCall, Sids
<1>2. Fresh'
  <2>1. CASE fromServer' = fromServer
    BY <2>1 DEF Core, Fresh
  <2>2. CASE fromServer' = <<>>
    BY <2>2 DEF Fresh
  <2> QED
    BY <2>1, <2>2
<1>3. Alone' /\ OnePublication' /\ Busy' /\ OneTurn'
  BY DEF Core, Alone, OnePublication, Busy, OneTurn
<1> QED
  BY <1>1, <1>2, <1>3 DEF Core

\* A call ends without a publication.
LEMMA CoreReturns ==
  ASSUME Types, Core, NEW c \in Callers, Return(c), UNCHANGED coreVars
  PROVE  Core'
<1>1. call'[c].at = "idle" /\ call'[c].sid = NoSid /\ OnlyCall(c)
  BY CallReturns DEF coreVars, Sids
<1> USE DEF coreVars, At, OnlyCall
<1>2. SidOfCall'
  BY <1>1 DEF Core, SidOfCall, Sids
<1>3. Fresh'
  BY <1>1, Numbers DEF Core, Fresh
<1>4. Alone' /\ OnePublication' /\ Busy' /\ OneTurn'
  BY <1>1 DEF Core, Alone, OnePublication, Busy, OneTurn
<1> QED
  BY <1>2, <1>3, <1>4 DEF Core

\* A call goes on to a place that asks for no more.
LEMMA CoreGoesOn ==
  ASSUME Types, Core, NEW c \in Callers, NEW p \in Places, Goto(c, p),
         \/ At(c, "add_track") /\ p = "answer"
         \/ At(c, "create_sender") /\ p = "add_publication",
         UNCHANGED coreVars
  PROVE  Core'
<1>1. call'[c].at = p /\ call'[c].sid = call[c].sid /\ OnlyCall(c)
  BY CallGoes DEF coreVars, Sids
<1> USE DEF coreVars, At, OnlyCall
<1>2. SidOfCall'
  BY <1>1 DEF Core, SidOfCall, Sids
<1>3. Fresh'
  BY <1>1 DEF Core, Fresh
<1>4. Alone'
  BY <1>1 DEF Core, Alone
<1>5. OnePublication'
  BY DEF Core, OnePublication
<1>6. Busy'
  BY <1>1 DEF Core, Busy
<1>7. OneTurn'
  BY <1>1 DEF Core, OneTurn
<1> QED
  BY <1>2, <1>3, <1>4, <1>5, <1>6, <1>7 DEF Core

\* What is known of a track that was not raced for and has a publication: no
\* call is at work for it, but for one that is about to unpublish it.
LEMMA PublishedIsIdle ==
  ASSUME Core, NEW s \in table, named[s] \notin raced,
         NEW c \in Callers, c[1] = named[s]
  PROVE  /\ At(c, "idle") \/ (At(c, "unpublish") /\ call[c].sid \in table)
         /\ c[2] = App => At(c, "idle")
  BY DEF Core, Busy, OnePublication, At

LEMMA CorePublishTrack ==
  ASSUME IInv, NEW t \in Tracks, PublishTrack(t)
  PROVE  Core'
<1> DEFINE c == <<t, App>>
<1>0. c \in Callers /\ c[1] = t /\ c[2] = App
  BY CallersOfTracks
<1>1. /\ Types /\ Core /\ Goto(c, "add_track")
      /\ UNCHANGED coreVars
      /\ t \notin owns /\ At(c, "idle")
  BY DEF PublishTrack, IInv, Core, coreVars, serverVars, objectVars,
         roomVars, historyVars
<1> HIDE DEF c
<1>2. call'[c].at = "add_track" /\ call'[c].sid = call[c].sid /\ OnlyCall(c)
  BY <1>0, <1>1, CallGoes DEF coreVars, Sids, Places
<1>3. \A d \in Callers : d[1] = t /\ t \notin raced => At(d, "idle")
  <2> SUFFICES ASSUME NEW d \in Callers, d[1] = t, t \notin raced,
                      ~At(d, "idle")
               PROVE  FALSE
    OBVIOUS
  <2>1. d[2] = App
    BY <1>1 DEF Core, Busy
  <2> QED
    BY <1>1, <2>1, CallersOfTracks DEF c
<1>4. \A s \in table : named[s] = t => t \in raced
  BY <1>1 DEF Core, OnePublication
<1>5. \A n \in Batches : \A s \in snapshot[n] : named[s] = t => t \in raced
  BY <1>1, <1>4 DEF Core, OneTurn
<1> USE DEF coreVars, At, OnlyCall
<1>6. SidOfCall' /\ Fresh'
  BY <1>1, <1>2 DEF Core, SidOfCall, Fresh, Sids
<1>7. Alone'
  BY <1>0, <1>1, <1>2, <1>3 DEF Core, Alone
<1>8. OnePublication'
  BY <1>1 DEF Core, OnePublication
<1>9. Busy'
  BY <1>0, <1>1, <1>2, <1>4 DEF Core, Busy
<1>10. OneTurn'
  BY <1>0, <1>1, <1>2, <1>5 DEF Core, OneTurn
<1> QED
  BY <1>6, <1>7, <1>8, <1>9, <1>10 DEF Core

LEMMA CoreUnpublishTrack ==
  ASSUME IInv, NEW t \in Tracks, UnpublishTrack(t)
  PROVE  Core'
<1> DEFINE c == <<t, App>>
<1>0. c \in Callers /\ c[1] = t /\ c[2] = App
  BY CallersOfTracks
<1> HIDE DEF c
<1>1. PICK sid \in table :
        /\ named[sid] = t
        /\ table' = table \ {sid}
        /\ call' = [call EXCEPT ![c] = Working("remove_track", sid)]
  BY DEF UnpublishTrack, RemovePublication, c
<1>2. /\ Types /\ Core
      /\ UNCHANGED <<named, fromServer, detached, transceiver, snapshot>>
      /\ owns' = owns \ {t}
      /\ raced \subseteq raced'
      /\ t \notin raced' => raced' = raced /\ ~ToRepublish(t)
      /\ \A u : u # t /\ u \notin raced' => u \notin raced
      /\ At(c, "idle")
  BY DEF UnpublishTrack, IInv, Core, serverVars, roomVars, c
<1>3. sid \in Sids
  BY <1>1, <1>2 DEF Types
<1>4. call'[c].at = "remove_track" /\ call'[c].sid = sid /\ OnlyCall(c)
  BY <1>0, <1>1, <1>2, <1>3, CallStarts DEF Sids, Places
<1>5. ASSUME t \notin raced'
      PROVE  /\ \A d \in Callers : d[1] = t => At(d, "idle")
             /\ \A n \in Batches : \A s \in snapshot[n] : named[s] # t
             /\ \A s \in table : named[s] = t => s = sid
             /\ transceiver[t] = sid
  <2>1. t \notin raced /\ ~ToRepublish(t)
    BY <1>2, <1>5
  <2>2. \A s \in table : named[s] = t => s = sid
    BY <1>1, <1>2, <2>1 DEF Core, OnePublication
  <2>3. \A n \in Batches : \A s \in snapshot[n] : named[s] # t
    BY <2>1 DEF ToRepublish
  <2>4. ASSUME NEW d \in Callers, d[1] = t PROVE At(d, "idle")
    <3>1. CASE d[2] = App
      BY <1>2, <2>4, <3>1, CallersOfTracks DEF c
    <3>2. CASE d[2] \in Batches
      <4>1. ~At(d, "unpublish")
        BY <2>1, <2>4, <3>2, CallersOfTracks DEF ToRepublish
      <4> QED
        BY <1>1, <1>2, <2>1, <2>4, <4>1, PublishedIsIdle
    <3> QED
      BY <3>1, <3>2, CallersOfTracks
  <2>5. transceiver[t] = sid
    BY <1>1, <1>2, <2>1 DEF Core, OnePublication
  <2> QED
    BY <2>2, <2>3, <2>4, <2>5
<1> USE DEF At, OnlyCall
<1>6. SidOfCall'
  BY <1>0, <1>1, <1>2, <1>3, <1>4 DEF Core, SidOfCall, Sids
<1>7. Fresh'
  BY <1>1, <1>2, <1>4 DEF Core, Fresh
<1>8. Alone'
  BY <1>0, <1>2, <1>4, <1>5 DEF Core, Alone
<1>9. OnePublication'
  BY <1>1, <1>2, <1>5 DEF Core, OnePublication
<1>10. Busy'
  <2>1. ASSUME NEW d \in Callers, d # c, d[1] \notin raced', ~At(d, "idle"),
               At(d, "unpublish")
        PROVE  call[d].sid \in table'
    <3>1. d[1] # t /\ d[1] \notin raced
      BY <1>2, <1>5, <2>1
    <3>2. call[d].sid \in table /\ named[call[d].sid] = d[1]
      BY <1>2, <2>1, <3>1 DEF Core, Busy, SidOfCall
    <3> QED
      BY <1>1, <3>1, <3>2
  <2>2. ASSUME NEW d \in Callers, d # c, d[1] \notin raced', ~At(d, "idle")
        PROVE  d[1] # t /\ d[1] \notin raced
    BY <1>2, <1>5, <2>2
  <2> QED
    BY <1>0, <1>1, <1>2, <1>3, <1>4, <1>5, <2>1, <2>2, Numbers
       DEF Core, Busy
<1>11. OneTurn'
  BY <1>0, <1>1, <1>2, <1>4, <1>5 DEF Core, OneTurn
<1> QED
  BY <1>6, <1>7, <1>8, <1>9, <1>10, <1>11 DEF Core

LEMMA CoreAddPublication ==
  ASSUME IInv, NEW c \in Callers, AddPublication(c)
  PROVE  Core'
<1> DEFINE t == c[1]
           sid == call[c].sid
<1>1. /\ Types /\ Core /\ At(c, "add_publication") /\ Return(c)
      /\ UNCHANGED <<named, fromServer, detached, snapshot, raced>>
      /\ table' = table \cup {sid}
      /\ transceiver' = [transceiver EXCEPT ![t] = sid]
      /\ owns' = IF c[2] = App THEN owns \cup {t} ELSE owns
  BY DEF AddPublication, IInv, Core, serverVars, roomVars
<1>2. call'[c].at = "idle" /\ call'[c].sid = NoSid /\ OnlyCall(c)
  BY <1>1, CallReturns DEF Sids
<1>3. t \in Tracks /\ sid \in Sids /\ named[sid] = t
  BY <1>1, CallersOfTracks DEF Core, SidOfCall
<1>4. transceiver'[t] = sid
      /\ \A u \in Tracks : u # t => transceiver'[u] = transceiver[u]
  BY <1>1, <1>3 DEF Types
<1>5. t \notin raced =>
        /\ \A s \in table : named[s] # t
        /\ sid \notin detached
        /\ c[2] = App <=> t \notin owns
        /\ \A d \in Callers : d[1] = t /\ d # c => At(d, "idle")
  BY <1>1 DEF Core, Busy, Alone, At
<1>6. t \notin raced => \A n \in Batches : \A s \in snapshot[n] : named[s] # t
  BY <1>1 DEF Core, OneTurn, At
<1>7. t \in owns' \/ t \in raced
  BY <1>1, <1>5
<1>8. \A s \in table : named[s] \in Tracks
  BY <1>1, Numbers DEF Types
<1> HIDE DEF t, sid
<1>9. \A d \in Callers : d # c /\ d[1] # t => (d[1] \in owns' <=> d[1] \in owns)
  BY <1>1
<1>10. c[1] = t
  BY DEF t
<1>11. \A d \in Callers : call[d].sid # NoSid => call[d].sid \in Sids
  BY <1>1 DEF Types, CallType
<1> USE DEF At, OnlyCall
<1>12. SidOfCall'
  BY <1>1, <1>2 DEF Core, SidOfCall, Sids
<1>13. Fresh'
  <2>1. \A i \in 1..Len(fromServer) : fromServer[i] # sid
    BY <1>1 DEF Core, Fresh, sid
  <2> QED
    BY <1>1, <1>2, <2>1, Numbers DEF Core, Fresh
<1>14. Alone'
  BY <1>1, <1>2 DEF Core, Alone
<1>15. OnePublication'
  BY <1>1, <1>3, <1>4, <1>5, <1>7, <1>8 DEF Core, OnePublication
<1>16. Busy'
  <2> SUFFICES ASSUME NEW d \in Callers, d[1] \notin raced, d # c,
                      ~At(d, "idle")
               PROVE  /\ IF At(d, "unpublish")
                         THEN call[d].sid \in table'
                         ELSE \A s \in table' : named[s] # d[1]
                      /\ At(d, "remove_track") => transceiver'[d[1]] # NoSid
                      /\ At(d, "create_sender") \/ At(d, "add_publication") =>
                           call[d].sid \notin detached
                      /\ d[2] = App <=> d[1] \notin owns'
    BY <1>1, <1>2 DEF Busy
  <2>1. d[1] # t /\ d[1] \in Tracks
    BY <1>5, CallersOfTracks
  <2>2. transceiver'[d[1]] = transceiver[d[1]]
    BY <1>4, <2>1
  <2> QED
    BY <1>1, <1>3, <1>9, <2>1, <2>2 DEF Core, Busy
<1>17. OneTurn'
  BY <1>1, <1>2, <1>6 DEF Core, OneTurn
<1> QED
  BY <1>12, <1>13, <1>14, <1>15, <1>16, <1>17 DEF Core

LEMMA CoreRepublish ==
  ASSUME IInv, NEW c \in Callers, Republish(c)
  PROVE  Core'
<1>1. /\ Types /\ Core /\ At(c, "unpublish")
      /\ UNCHANGED <<named, fromServer, detached, transceiver, owns, snapshot,
                     raced>>
      /\ \/ /\ call[c].sid \in table
            /\ table' = table \ {call[c].sid}
            /\ Goto(c, "remove_track")
         \/ /\ call[c].sid \notin table
            /\ table' = table
            /\ Goto(c, "add_track")
  BY DEF Republish, RemovePublication, IInv, Core, serverVars, roomVars,
         appVars, historyVars
<1>2. /\ call'[c].at \in {"remove_track", "add_track"}
      /\ call'[c].sid = call[c].sid
      /\ OnlyCall(c)
  BY <1>1, CallGoes DEF Sids, Places
<1>3. c[1] \notin raced =>
        /\ call[c].sid \in table
        /\ named[call[c].sid] = c[1]
        /\ transceiver[c[1]] = call[c].sid
        /\ \A s \in table : named[s] = c[1] => s = call[c].sid
        /\ \A d \in Callers : d[1] = c[1] /\ d # c => At(d, "idle")
        /\ c[1] \in owns /\ c[2] # App
  BY <1>1 DEF Core, Busy, Alone, OnePublication, SidOfCall, At
<1>4. call[c].sid \in Sids /\ call[c].sid # NoSid
      /\ named[call[c].sid] = c[1]
  BY <1>1, Numbers DEF Core, SidOfCall
<1> USE DEF At, OnlyCall
<1>5. SidOfCall'
  BY <1>1, <1>2, <1>4 DEF Core, SidOfCall, Sids
<1>6. Fresh'
  BY <1>1, <1>2 DEF Core, Fresh
<1>7. Alone'
  BY <1>1, <1>2, <1>3 DEF Core, Alone
<1>8. OnePublication'
  BY <1>1 DEF Core, OnePublication
<1>9. Busy'
  <2>1. ASSUME NEW d \in Callers, d # c, d[1] \notin raced, ~At(d, "idle"),
               At(d, "unpublish")
        PROVE  call[d].sid \in table'
    <3>1. d[1] # c[1]
      BY <1>3, <2>1
    <3>2. call[d].sid \in table /\ named[call[d].sid] = d[1]
      BY <1>1, <2>1 DEF Core, Busy, SidOfCall
    <3> QED
      BY <1>1, <1>4, <3>1, <3>2
  <2> QED
    BY <1>1, <1>2, <1>3, <1>4, <2>1 DEF Core, Busy
<1>10. OneTurn'
  <2>1. ASSUME NEW n \in Batches, NEW s \in snapshot[n], named[s] \notin raced
        PROVE  s \in table' /\ named[s] # c[1]
    BY <1>1, <1>4, <2>1 DEF Core, OneTurn
  <2> QED
    BY <1>1, <1>2, <2>1 DEF Core, OneTurn
<1> QED
  BY <1>5, <1>6, <1>7, <1>8, <1>9, <1>10 DEF Core

LEMMA CoreRemoveTrack ==
  ASSUME IInv, NEW c \in Callers, RemoveTrack(c)
  PROVE  Core'
<1> DEFINE t == c[1]
           sid == call[c].sid
<1>1. /\ Types /\ Core /\ At(c, "remove_track")
      /\ UNCHANGED <<named, fromServer, table, owns, snapshot, raced>>
      /\ \/ Return(c)
         \/ Goto(c, "add_track") /\ c[2] # App
      /\ transceiver' \in {transceiver, [transceiver EXCEPT ![t] = NoSid]}
      /\ detached' \in {detached, detached \cup {sid}}
  BY DEF RemoveTrack, Unpublished, IInv, Core, serverVars, roomVars, appVars,
         historyVars
<1>2. /\ call'[c].at \in {"idle", "add_track"}
      /\ call'[c].sid \in {NoSid, sid}
      /\ call'[c].at = "add_track" => c[2] # App
      /\ OnlyCall(c)
  <2>1. CASE Return(c)
    BY <1>1, <2>1, CallReturns DEF Sids
  <2>2. CASE Goto(c, "add_track") /\ c[2] # App
    BY <1>1, <2>2, CallGoes DEF Sids, Places
  <2> QED
    BY <1>1, <2>1, <2>2
<1>3. t \in Tracks /\ sid \in Sids /\ named[sid] = t
  BY <1>1, CallersOfTracks DEF Core, SidOfCall
<1>4. \A u \in Tracks : u # t => transceiver'[u] = transceiver[u]
  BY <1>1, <1>3 DEF Types
<1>5. t \notin raced =>
        /\ \A s \in table : named[s] # t
        /\ \A d \in Callers : d[1] = t /\ d # c => At(d, "idle")
        /\ c[2] = App <=> t \notin owns
  BY <1>1 DEF Core, Busy, Alone, At
<1>6. \A s \in table : named[s] \in Tracks
  BY <1>1, Numbers DEF Types
<1> HIDE DEF t, sid
<1>7. c[1] = t
  BY DEF t
<1> USE DEF At, OnlyCall
<1>8. SidOfCall'
  BY <1>1, <1>2 DEF Core, SidOfCall, Sids
<1>9. Fresh'
  <2>1. \A i \in 1..Len(fromServer) : fromServer[i] # sid
    BY <1>1 DEF Core, Fresh, sid
  <2> QED
    BY <1>1, <1>2, <2>1, Numbers DEF Core, Fresh
<1>10. Alone'
  BY <1>1, <1>2 DEF Core, Alone
<1>11. OnePublication'
  BY <1>1, <1>3, <1>4, <1>5, <1>6 DEF Core, OnePublication
<1>12. Busy'
  <2>1. ASSUME NEW d \in Callers, d[1] \notin raced, d # c, ~At(d, "idle")
        PROVE  /\ d[1] # t
               /\ transceiver'[d[1]] = transceiver[d[1]]
               /\ At(d, "create_sender") \/ At(d, "add_publication") =>
                    call[d].sid \notin detached'
    <3>1. d[1] # t /\ d[1] \in Tracks
      BY <1>5, <2>1, CallersOfTracks
    <3>2. At(d, "create_sender") \/ At(d, "add_publication") =>
            call[d].sid # sid
      BY <1>1, <1>3, <3>1 DEF Core, SidOfCall
    <3> QED
      BY <1>1, <1>4, <2>1, <3>1, <3>2 DEF Core, Busy
  <2>2. c[1] \notin raced /\ call'[c].at # "idle" =>
          /\ call'[c].at = "add_track"
          /\ \A s \in table : named[s] # c[1]
          /\ c[2] = App <=> c[1] \notin owns
    BY <1>1, <1>2, <1>5, <1>7
  <2> QED
    BY <1>1, <1>2, <2>1, <2>2 DEF Core, Busy
<1>13. OneTurn'
  BY <1>1, <1>2 DEF Core, OneTurn
<1> QED
  BY <1>8, <1>9, <1>10, <1>11, <1>12, <1>13 DEF Core

LEMMA CoreServerAddsTrack ==
  ASSUME IInv, ServerAddsTrack
  PROVE  Core'
<1> DEFINE new == Len(named) + 1
<1>1. /\ Types /\ Core
      /\ toServer # <<>>
      /\ named' = Append(named, Head(toServer))
      /\ fromServer' = Append(fromServer, Len(named'))
      /\ UNCHANGED <<table, detached, transceiver, call, owns, snapshot,
                     raced>>
  BY DEF ServerAddsTrack, IInv, Core, objectVars, appVars, roomVars,
         historyVars
<1>2. /\ Len(named') = new /\ new \in Nat
      /\ \A s \in Sids : named'[s] = named[s]
  BY <1>1, AppendProperties, SequenceTypes DEF Types, Sids
<1>3. /\ Len(fromServer') = Len(fromServer) + 1
      /\ \A i \in 1..Len(fromServer) : fromServer'[i] = fromServer[i]
      /\ fromServer'[Len(fromServer) + 1] = new
      /\ Len(fromServer) \in Nat
  <2>1. fromServer \in Seq(Nat)
    BY <1>1, SeqMonotonic DEF Types, Sids
  <2> QED
    BY <1>1, <1>2, <2>1, AppendProperties, LenProperties
<1>4. new \notin Sids /\ new # NoSid /\ Sids \subseteq Sids'
  BY <1>2 DEF Sids, NoSid
<1>5. /\ table \subseteq Sids /\ detached \subseteq Sids
      /\ \A n \in Batches : snapshot[n] \subseteq Sids
      /\ \A d \in Callers : call[d].sid \in {NoSid} \cup Sids
  BY <1>1 DEF Types, CallType
<1>6. \A i \in 1..Len(fromServer) : fromServer[i] \in Sids
  BY <1>1, Numbers
<1>0. /\ Core
      /\ UNCHANGED <<table, detached, transceiver, call, owns, snapshot,
                     raced>>
  BY <1>1
<1> HIDE DEF new
<1> USE DEF At
<1>7. SidOfCall'
  BY <1>1, <1>2, <1>4 DEF Core, SidOfCall
<1>8. Fresh'
  <2>1. ASSUME NEW i \in 1..Len(fromServer')
        PROVE  \/ i \in 1..Len(fromServer) /\ fromServer'[i] = fromServer[i]
               \/ i = Len(fromServer) + 1 /\ fromServer'[i] = new
    BY <1>3, <2>1
  <2>2. \A i, j \in 1..Len(fromServer') :
          fromServer'[i] = fromServer'[j] => i = j
    BY <1>1, <1>4, <1>6, <2>1 DEF Core, Fresh
  <2>3. ASSUME NEW i \in 1..Len(fromServer')
        PROVE  /\ fromServer'[i] \notin table \cup detached
               /\ \A c \in Callers : call[c].sid # fromServer'[i]
               /\ \A n \in Batches : fromServer'[i] \notin snapshot[n]
    BY <1>1, <1>4, <1>5, <2>1 DEF Core, Fresh
  <2> QED
    BY <1>1, <2>2, <2>3 DEF Fresh
<1>9. Alone'
  BY <1>0 DEF Core, Alone
<1>10. OnePublication'
  <2>1. \A s \in table : named'[s] = named[s]
    BY <1>2, <1>5
  <2> QED
    BY <1>0, <2>1 DEF Core, OnePublication
<1>11. Busy'
  BY <1>0, <1>2, <1>5 DEF Core, Busy
<1>12. OneTurn'
  <2>1. \A n \in Batches : \A s \in snapshot[n] : named'[s] = named[s]
    BY <1>2, <1>5
  <2> QED
    BY <1>0, <2>1 DEF Core, OneTurn
<1> QED
  BY <1>7, <1>8, <1>9, <1>10, <1>11, <1>12 DEF Core

LEMMA CoreOnTrackPublished ==
  ASSUME IInv, OnTrackPublished
  PROVE  Core'
<1> DEFINE sid == Head(fromServer)
           c == pending[named[sid]]
<1>1. /\ Types /\ Core /\ PendingOwn
      /\ fromServer # <<>>
      /\ fromServer' = Tail(fromServer)
      /\ UNCHANGED <<named, table, detached, transceiver, owns, snapshot,
                     raced>>
      /\ call' = IF c # Nobody /\ At(c, "answer")
                 THEN [call EXCEPT ![c] = [at |-> "create_sender",
                                           sid |-> sid, session |-> session]]
                 ELSE call
  BY DEF OnTrackPublished, IInv, Core, objectVars, appVars, roomVars,
         historyVars
<1>2. /\ Len(fromServer) \in Nat \ {0}
      /\ sid = fromServer[1]
      /\ Len(fromServer') = Len(fromServer) - 1
      /\ \A i \in 1..Len(fromServer') : fromServer'[i] = fromServer[i + 1]
  <2>1. fromServer \in Seq(Nat)
    BY <1>1, SeqMonotonic DEF Types, Sids
  <2> QED
    BY <1>1, <2>1, HeadTailProperties, LenProperties, EmptySeq
<1>3. /\ sid \in Sids /\ named[sid] \in Tracks
      /\ c = Nobody \/ (c \in Callers /\ c[1] = named[sid])
  <2>1. sid \in Sids
    BY <1>1, <1>2, Numbers
  <2>2. named[sid] \in Tracks
    BY <1>1, <2>1, Numbers
  <2> QED
    BY <1>1, <2>1, <2>2 DEF Types, PendingOwn
<1>4. /\ sid \notin table \cup detached
      /\ \A d \in Callers : call[d].sid # sid
      /\ \A n \in Batches : sid \notin snapshot[n]
  BY <1>1, <1>2 DEF Core, Fresh
<1>5. \A i \in 1..Len(fromServer') :
        /\ i + 1 \in 1..Len(fromServer)
        /\ fromServer'[i] = fromServer[i + 1]
        /\ fromServer'[i] # sid
  BY <1>1, <1>2 DEF Core, Fresh
<1>6. CASE c # Nobody /\ At(c, "answer")
  <2>1. c \in Callers /\ c[1] = named[sid]
    BY <1>3, <1>6
  <2>2. /\ call'[c].at = "create_sender" /\ call'[c].sid = sid
        /\ OnlyCall(c)
    BY <1>1, <1>3, <1>6, <2>1, CallAnswered DEF Sids
  <2> HIDE DEF sid, c
  <2> USE DEF At, OnlyCall
  <2>3. SidOfCall'
    BY <1>1, <1>3, <2>1, <2>2 DEF Core, SidOfCall, Sids
  <2>4. Fresh'
    <3>1. \A i, j \in 1..Len(fromServer') :
            fromServer'[i] = fromServer'[j] => i = j
      BY <1>1, <1>2, <1>5 DEF Core, Fresh
    <3>2. ASSUME NEW i \in 1..Len(fromServer')
          PROVE  /\ fromServer'[i] \notin table \cup detached
                 /\ \A d \in Callers : call'[d].sid # fromServer'[i]
                 /\ \A n \in Batches : fromServer'[i] \notin snapshot[n]
      BY <1>1, <1>5, <2>1, <2>2 DEF Core, Fresh
    <3> QED
      BY <1>1, <3>1, <3>2 DEF Fresh
  <2>5. Alone'
    BY <1>1, <1>6, <2>1, <2>2 DEF Core, Alone
  <2>6. OnePublication'
    BY <1>1 DEF Core, OnePublication
  <2>7. Busy'
    BY <1>1, <1>4, <1>6, <2>1, <2>2 DEF Core, Busy
  <2>8. OneTurn'
    BY <1>1, <1>6, <2>1, <2>2 DEF Core, OneTurn
  <2> QED
    BY <2>3, <2>4, <2>5, <2>6, <2>7, <2>8 DEF Core
<1>7. CASE ~(c # Nobody /\ At(c, "answer"))
  <2>1. UNCHANGED call
    BY <1>1, <1>7
  <2> HIDE DEF sid, c
  <2> USE DEF At
  <2>2. Fresh'
    <3>1. \A i, j \in 1..Len(fromServer') :
            fromServer'[i] = fromServer'[j] => i = j
      BY <1>1, <1>2, <1>5 DEF Core, Fresh
    <3>2. ASSUME NEW i \in 1..Len(fromServer')
          PROVE  /\ fromServer'[i] \notin table \cup detached
                 /\ \A d \in Callers : call[d].sid # fromServer'[i]
                 /\ \A n \in Batches : fromServer'[i] \notin snapshot[n]
      BY <1>1, <1>5 DEF Core, Fresh
    <3> QED
      BY <1>1, <2>1, <3>1, <3>2 DEF Fresh
  <2>3. SidOfCall'
    BY <1>1, <2>1 DEF Core, SidOfCall, Sids
  <2>4. Alone' /\ OnePublication' /\ Busy' /\ OneTurn'
    BY <1>1, <2>1 DEF Core, Alone, OnePublication, Busy, OneTurn
  <2> QED
    BY <2>2, <2>3, <2>4 DEF Core
<1> QED
  BY <1>6, <1>7

LEMMA CoreHandleRestarted ==
  ASSUME IInv, HandleRestarted
  PROVE  Core'
<1>1. /\ Types /\ Core
      /\ UNCHANGED <<named, fromServer, table, detached, transceiver, call,
                     owns>>
      /\ snapshot' = [snapshot EXCEPT ![session] = table]
      /\ raced' = raced \cup {named[s] : s \in {s \in table :
                     ToRepublish(named[s]) \/ Republishing(named[s])}}
  BY DEF HandleRestarted, IInv, Core, serverVars, objectVars, appVars
<1>2. \A n \in Batches :
        snapshot'[n] = IF n = session THEN table ELSE snapshot[n]
  BY <1>1 DEF Types
<1>3. raced \subseteq raced'
  BY <1>1
<1>4. ASSUME NEW s \in table, named[s] \notin raced'
      PROVE  /\ \A c \in Callers : c[1] = named[s] => At(c, "idle")
             /\ \A n \in Batches : \A u \in snapshot[n] : named[u] # named[s]
  <2>1. ~ToRepublish(named[s]) /\ ~Republishing(named[s])
    BY <1>1, <1>4
  <2>2. \A n \in Batches : \A u \in snapshot[n] : named[u] # named[s]
    BY <2>1 DEF ToRepublish
  <2>3. ASSUME NEW c \in Callers, c[1] = named[s] PROVE At(c, "idle")
    <3>1. CASE c[2] = App
      BY <1>1, <1>3, <1>4, <2>3, <3>1, PublishedIsIdle
    <3>2. CASE c[2] \in Batches
      BY <2>1, <2>3, <3>2, CallersOfTracks DEF Republishing
    <3> QED
      BY <3>1, <3>2, CallersOfTracks
  <2> QED
    BY <2>2, <2>3
<1> USE DEF At
<1>5. SidOfCall'
  BY <1>1 DEF Core, SidOfCall, Sids
<1>6. Fresh'
  BY <1>1, <1>2 DEF Core, Fresh
<1>7. Alone' /\ OnePublication' /\ Busy'
  BY <1>1, <1>3 DEF Core, Alone, OnePublication, Busy
<1>8. OneTurn'
  <2> SUFFICES ASSUME NEW n \in Batches, NEW s \in snapshot'[n],
                      named[s] \notin raced'
               PROVE  /\ s \in table
                      /\ \A c \in Callers : c[1] = named[s] => At(c, "idle")
                      /\ \A m \in Batches : \A u \in snapshot'[m] :
                           named[u] = named[s] => m = n
    BY <1>1 DEF OneTurn
  <2>1. CASE n = session
    BY <1>2, <1>4, <2>1
  <2>2. CASE n # session
    <3>1. s \in snapshot[n] /\ s \in table
      BY <1>1, <1>2, <1>3, <2>2 DEF Core, OneTurn
    <3> QED
      BY <1>4, <3>1
  <2> QED
    BY <2>1, <2>2
<1> QED
  BY <1>5, <1>6, <1>7, <1>8 DEF Core

LEMMA CoreSpawnRepublish ==
  ASSUME IInv, NEW n \in Batches, SpawnRepublish(n)
  PROVE  Core'
<1>1. PICK sid \in snapshot[n] :
        /\ At(<<named[sid], n>>, "idle")
        /\ \/ snapshot' = [snapshot EXCEPT ![n] = {}] /\ UNCHANGED call
           \/ /\ call' = [call EXCEPT ![<<named[sid], n>>] =
                            Working("unpublish", sid)]
              /\ snapshot' = [snapshot EXCEPT ![n] = @ \ {sid}]
  BY DEF SpawnRepublish
<1> DEFINE c == <<named[sid], n>>
<1>2. /\ Types /\ Core
      /\ UNCHANGED <<named, fromServer, table, detached, transceiver, owns,
                     raced>>
  BY DEF SpawnRepublish, IInv, Core, serverVars, objectVars, appVars,
         historyVars
<1>3. /\ sid \in Sids /\ sid # NoSid
      /\ c \in Callers /\ c[1] = named[sid] /\ c[2] = n /\ n # App
  <2>1. sid \in Sids /\ sid # NoSid /\ named[sid] \in Tracks
    BY <1>1, <1>2, Numbers DEF Types
  <2> QED
    BY <2>1, CallersOfTracks
<1>4. \A i \in 1..Len(fromServer) : fromServer[i] # sid
  BY <1>1, <1>2 DEF Core, Fresh
<1>5. named[sid] \notin raced =>
        /\ sid \in table
        /\ named[sid] \in owns
        /\ \A d \in Callers : d[1] = named[sid] => At(d, "idle")
        /\ \A s \in table : named[s] = named[sid] => s = sid
        /\ \A m \in Batches : \A u \in snapshot[m] :
             named[u] = named[sid] => u = sid /\ m = n
  BY <1>1, <1>2 DEF Core, OneTurn, OnePublication
<1> HIDE DEF c
<1>6. ASSUME NEW rest, snapshot' = [snapshot EXCEPT ![n] = rest],
             rest \subseteq snapshot[n]
      PROVE  \A m \in Batches : snapshot'[m] \subseteq snapshot[m]
  BY <1>2, <1>6 DEF Types
<1> USE DEF At, OnlyCall
<1>7. CASE snapshot' = [snapshot EXCEPT ![n] = {}] /\ UNCHANGED call
  <2>1. \A m \in Batches : snapshot'[m] \subseteq snapshot[m]
    BY <1>6, <1>7
  <2>2. SidOfCall' /\ Fresh'
    BY <1>2, <1>7, <2>1 DEF Core, SidOfCall, Fresh, Sids
  <2>3. Alone' /\ OnePublication' /\ Busy'
    BY <1>2, <1>7 DEF Core, Alone, OnePublication, Busy
  <2>4. OneTurn'
    BY <1>2, <1>7, <2>1 DEF Core, OneTurn
  <2> QED
    BY <2>2, <2>3, <2>4 DEF Core
<1>8. CASE /\ call' = [call EXCEPT ![c] = Working("unpublish", sid)]
           /\ snapshot' = [snapshot EXCEPT ![n] = @ \ {sid}]
  <2>1. \A m \in Batches : snapshot'[m] \subseteq snapshot[m]
    BY <1>6, <1>8
  <2>2. sid \notin snapshot'[n]
    BY <1>2, <1>8 DEF Types
  <2>3. call'[c].at = "unpublish" /\ call'[c].sid = sid /\ OnlyCall(c)
    BY <1>2, <1>3, <1>8, CallStarts DEF Sids, Places
  <2>4. SidOfCall'
    BY <1>2, <1>3, <2>3 DEF Core, SidOfCall, Sids
  <2>5. Fresh'
    BY <1>2, <1>4, <2>1, <2>3 DEF Core, Fresh
  <2>6. Alone'
    BY <1>2, <1>3, <1>5, <2>3 DEF Core, Alone
  <2>7. OnePublication'
    BY <1>2 DEF Core, OnePublication
  <2>8. Busy'
    BY <1>2, <1>3, <1>5, <2>3 DEF Core, Busy
  <2>9. OneTurn'
    <3>1. ASSUME NEW m \in Batches, NEW s \in snapshot'[m],
                 named[s] \notin raced
          PROVE  named[s] # named[sid]
      BY <1>5, <2>1, <2>2, <3>1
    <3> QED
      BY <1>2, <1>3, <2>1, <2>3, <3>1 DEF Core, OneTurn
  <2> QED
    BY <2>4, <2>5, <2>6, <2>7, <2>8, <2>9 DEF Core
<1> QED
  BY <1>1, <1>7, <1>8 DEF c

LEMMA NextInv == IInv /\ [Next]_vars => IInv'
<1> SUFFICES ASSUME IInv, [Next]_vars PROVE IInv'
  OBVIOUS
<1>0. Types /\ Core /\ SidOfCall /\ PendingOwn
  BY DEF IInv, Core
<1>1. Types' /\ PendingOwn'
  BY <1>0, NextTypes, NextPendingOwn
<1> SUFFICES Core'
  BY <1>1 DEF Core, IInv
<1> USE DEF engineVars, sessionVars, serverVars, objectVars, appVars,
            roomVars, historyVars, coreVars
<1>2. ASSUME NEW t \in Tracks, PublishTrack(t) \/ UnpublishTrack(t)
      PROVE  Core'
  BY <1>2, CorePublishTrack, CoreUnpublishTrack
<1>3. ASSUME NEW c \in Callers, AddTrack(c) PROVE Core'
  BY <1>0, <1>3, CoreGoesOn, CoreReturns DEF AddTrack, Places
<1>4. ASSUME NEW c \in Callers, CreateSender(c) PROVE Core'
  BY <1>0, <1>4, CoreGoesOn, CoreReturns DEF CreateSender, Places
<1>5. ASSUME NEW c \in Callers,
             TrackTimeout(c) \/ EngineClosed(c) \/ Cancel(c)
      PROVE  Core'
  BY <1>0, <1>5, CoreReturns DEF TrackTimeout, EngineClosed, Cancel
<1>6. ASSUME NEW c \in Callers,
             AddPublication(c) \/ Republish(c) \/ RemoveTrack(c)
      PROVE  Core'
  BY <1>6, CoreAddPublication, CoreRepublish, CoreRemoveTrack
<1>7. CASE ServerAddsTrack \/ OnTrackPublished
  BY <1>7, CoreServerAddsTrack, CoreOnTrackPublished
<1>8. CASE LoseConnection \/ Restart
  BY <1>0, <1>8, CoreLoses DEF LoseConnection, Restart
<1>9. CASE HandleRestarted
  BY <1>9, CoreHandleRestarted
<1>10. ASSUME NEW n \in Batches, SpawnRepublish(n) PROVE Core'
  BY <1>10, CoreSpawnRepublish
<1>11. CASE Negotiate \/ ReconnectionNeeded \/ ReconnectTask \/ Resume
            \/ ReleaseLock \/ EngineClose
            \/ \E n \in Batches : Reconnected(n)
  BY <1>0, <1>11, CoreUntouched
     DEF Negotiate, ReconnectionNeeded, ReconnectTask, Resume, ReleaseLock,
         EngineClose, Reconnected
<1>12. CASE UNCHANGED vars
  BY <1>0, <1>12, CoreUntouched DEF vars
<1> QED
  BY <1>2, <1>3, <1>4, <1>5, <1>6, <1>7, <1>8, <1>9, <1>10, <1>11, <1>12
     DEF Next, Progress, CallStep, EngineStep, RoomStep

THEOREM SpecIInv == Spec => []IInv
  BY InitInv, NextInv, PTL DEF Spec

\* Whoever takes a publication out of track_publications finds its track and
\* its transceiver, which unpublish_track unwraps, for any number of tracks,
\* sessions, calls and faults, unless the track was raced for.
THEOREM TransceiversInPlace == Spec => []TransceiverInPlace
<1>1. IInv => TransceiverInPlace
  <2> SUFFICES ASSUME IInv PROVE TransceiverInPlace
    OBVIOUS
  <2>1. \A s \in table :
          named[s] \in raced \/ (s \notin detached /\ transceiver[named[s]] = s)
    BY DEF IInv, OnePublication
  <2>2. \A c \in Callers :
          At(c, "remove_track") => c[1] \in raced \/ transceiver[c[1]] # NoSid
    BY DEF IInv, Busy, At
  <2> QED
    BY <2>1, <2>2 DEF TransceiverInPlace
<1> QED
  BY <1>1, SpecIInv, PTL

\* A track that was not raced for has at most one publication in the room.
THEOREM PublishedOnce ==
  Spec => [](\A s, u \in table :
               named[s] = named[u] /\ named[s] \notin raced => s = u)
<1>1. IInv => \A s, u \in table :
                named[s] = named[u] /\ named[s] \notin raced => s = u
  BY DEF IInv, OnePublication
<1> QED
  BY <1>1, SpecIInv, PTL

-----------------------------------------------------------------------------
(***************************************************************************)
(* PendingIsAwaited                                                        *)
(***************************************************************************)

\* The republishing task of a session is spawned once, after its restart.
BatchInv ==
  /\ session \in Nat
  /\ batch \in [Batches -> {"none", "running", "done", "panicked"}]
  /\ \A n \in Batches :
       n > session \/ (n = session /\ room = "acknowledged")
       => batch[n] = "none"

LEMMA NextBatchInv == BatchInv /\ [Next]_vars => BatchInv'
<1> SUFFICES ASSUME BatchInv, [Next]_vars PROVE BatchInv'
  OBVIOUS
<1> USE DEF engineVars, roomVars
<1>0. \A n \in Batches : n \in Nat
  <2>1. MaxSessions \in Nat
    BY LocalMediaAssumption
  <2> QED
    BY <2>1 DEF Batches
<1>1. CASE UNCHANGED <<session, batch, room>>
  BY <1>1 DEF BatchInv
<1>2. CASE Restart
  BY <1>0, <1>2 DEF Restart, BatchInv
<1>3. CASE HandleRestarted
  <2>1. /\ batch' = [batch EXCEPT ![session] = "running"]
        /\ room' = "idle" /\ session' = session
    BY <1>3 DEF HandleRestarted
  <2>2. /\ session \in Nat
        /\ batch' \in [Batches -> {"none", "running", "done", "panicked"}]
    BY <2>1 DEF BatchInv
  <2>3. \A n \in Batches : n # session => batch'[n] = batch[n]
    BY <2>1 DEF BatchInv
  <2>4. \A n \in Batches : n > session => batch'[n] = "none"
    BY <1>0, <2>2, <2>3 DEF BatchInv
  <2> QED
    BY <1>0, <2>1, <2>2, <2>4 DEF BatchInv
<1>4. ASSUME NEW n \in Batches, SpawnRepublish(n) PROVE BatchInv'
  BY <1>0, <1>4 DEF SpawnRepublish, BatchInv
<1>5. ASSUME NEW n \in Batches, Reconnected(n) PROVE BatchInv'
  BY <1>0, <1>5 DEF Reconnected, BatchInv
<1>6. ASSUME NEW c \in Callers, CallStep(c) \/ Cancel(c) PROVE BatchInv'
  BY <1>1, <1>6
     DEF CallStep, AddTrack, TrackTimeout, CreateSender, AddPublication,
         EngineClosed, Republish, RemoveTrack, Cancel
<1>7. CASE ServerAddsTrack \/ OnTrackPublished \/ Negotiate \/ LoseConnection
  BY <1>1, <1>7
     DEF ServerAddsTrack, OnTrackPublished, Negotiate, LoseConnection
<1>8. CASE ReconnectionNeeded \/ ReconnectTask \/ Resume \/ ReleaseLock
           \/ EngineClose
  BY <1>1, <1>8
     DEF ReconnectionNeeded, ReconnectTask, Resume, ReleaseLock, EngineClose
<1>9. ASSUME NEW t \in Tracks, PublishTrack(t) \/ UnpublishTrack(t)
      PROVE  BatchInv'
  BY <1>1, <1>9 DEF PublishTrack, UnpublishTrack
<1>10. CASE UNCHANGED vars
  BY <1>1, <1>10 DEF vars
<1> QED
  BY <1>2, <1>3, <1>4, <1>5, <1>6, <1>7, <1>8, <1>9, <1>10
     DEF Next, Progress, EngineStep, RoomStep

\* A panic is remembered, and what a behaviour allows does not change.
LEMMA PanicStays ==
  BatchInv /\ [Next]_vars => (Panicked => Panicked') /\ UNCHANGED faults
<1> SUFFICES ASSUME BatchInv, [Next]_vars
             PROVE  (Panicked => Panicked') /\ UNCHANGED faults
  OBVIOUS
<1> USE DEF engineVars, roomVars, Panicked
<1>1. CASE UNCHANGED <<batch, faults>>
  BY <1>1
<1>2. CASE HandleRestarted
  BY <1>2 DEF HandleRestarted, BatchInv
<1>3. ASSUME NEW n \in Batches, SpawnRepublish(n) \/ Reconnected(n)
      PROVE  (Panicked => Panicked') /\ UNCHANGED faults
  BY <1>3 DEF SpawnRepublish, Reconnected, BatchInv
<1>4. ASSUME NEW c \in Callers, CallStep(c) \/ Cancel(c)
      PROVE  UNCHANGED <<batch, faults>>
  BY <1>4
     DEF CallStep, AddTrack, TrackTimeout, CreateSender, AddPublication,
         EngineClosed, Republish, RemoveTrack, Cancel
<1>5. CASE ServerAddsTrack \/ OnTrackPublished \/ Negotiate \/ LoseConnection
  BY <1>1, <1>5
     DEF ServerAddsTrack, OnTrackPublished, Negotiate, LoseConnection
<1>6. CASE EngineStep
  BY <1>1, <1>6
     DEF EngineStep, ReconnectionNeeded, ReconnectTask, Resume, Restart,
         ReleaseLock, EngineClose
<1>7. ASSUME NEW t \in Tracks, PublishTrack(t) \/ UnpublishTrack(t)
      PROVE  UNCHANGED <<batch, faults>>
  BY <1>7 DEF PublishTrack, UnpublishTrack
<1>8. CASE UNCHANGED vars
  BY <1>1, <1>8 DEF vars
<1> QED
  BY <1>1, <1>2, <1>3, <1>4, <1>5, <1>6, <1>7, <1>8
     DEF Next, Progress, RoomStep

\* The entries of pending_tracks that stay are those of calls that stay.
LEMMA AwaitedStill ==
  ASSUME PendingIsAwaited, Panicked => Panicked', UNCHANGED faults,
         \A t \in Tracks : \/ pending'[t] = Nobody
                           \/ /\ pending'[t] = pending[t]
                              /\ At(pending[t], "answer") =>
                                   call'[pending[t]].at = "answer"
  PROVE  PendingIsAwaited'
  BY DEF PendingIsAwaited, At

\* ... unless calls are dropped.
LEMMA AwaitedDropped ==
  ASSUME UNCHANGED faults, Panicked => Panicked',
         "cancel" \in faults \/ Panicked
  PROVE  PendingIsAwaited'
  BY DEF PendingIsAwaited

AwaitedInv == IInv /\ BatchInv /\ PendingIsAwaited

LEMMA NextAwaited == AwaitedInv /\ [Next]_vars => PendingIsAwaited'
<1> SUFFICES ASSUME IInv, BatchInv, PendingIsAwaited, [Next]_vars
             PROVE  PendingIsAwaited'
  BY DEF AwaitedInv
<1> USE DEF engineVars, sessionVars, roomVars
<1>0. /\ Types /\ PendingOwn
      /\ pending \in [Tracks -> {Nobody} \cup Callers]
      /\ (Panicked => Panicked') /\ UNCHANGED faults
  BY PanicStays DEF IInv, Types
\* A call c that does not wait, and its entry, if it gets one.
<1>1. ASSUME NEW c \in Callers, ~At(c, "answer"), OnlyCall(c),
             UNCHANGED pending
      PROVE  PendingIsAwaited'
  <2>1. \A t \in Tracks :
          At(pending[t], "answer") /\ pending[t] # Nobody =>
            call'[pending[t]].at = "answer"
    BY <1>0, <1>1 DEF OnlyCall, At
  <2>2. ASSUME NEW t \in Tracks
        PROVE  \/ pending'[t] = Nobody
               \/ /\ pending'[t] = pending[t]
                  /\ At(pending[t], "answer") =>
                       call'[pending[t]].at = "answer"
    BY <1>1, <2>1
  <2> QED
    BY <1>0, <2>2, AwaitedStill
\* A call c that ends, with the entry of its track.
<1>2. ASSUME NEW c \in Callers, OnlyCall(c), Forget(c[1])
      PROVE  PendingIsAwaited'
  <2>1. ASSUME NEW t \in Tracks
        PROVE  \/ pending'[t] = Nobody
               \/ /\ pending'[t] = pending[t]
                  /\ At(pending[t], "answer") =>
                       call'[pending[t]].at = "answer"
    <3>1. CASE t = c[1]
      BY <1>0, <1>2, <3>1 DEF Forget
    <3>2. CASE t # c[1] /\ pending[t] # Nobody
      <4>1. pending[t] \in Callers /\ pending[t] # c
        BY <1>0, <3>2 DEF PendingOwn
      <4> QED
        BY <1>0, <1>2, <3>2, <4>1 DEF Forget, OnlyCall, At
    <3>3. CASE t # c[1] /\ pending[t] = Nobody
      BY <1>0, <1>2, <3>3 DEF Forget
    <3> QED
      BY <3>1, <3>2, <3>3
  <2> QED
    BY <1>0, <2>1, AwaitedStill
<1>3. CASE UNCHANGED <<pending, call>>
  BY <1>0, <1>3, AwaitedStill DEF At
<1>4. ASSUME NEW c \in Callers, AddTrack(c) PROVE PendingIsAwaited'
  <2>1. OnlyCall(c) /\ ~At(c, "answer")
    BY <1>0, <1>4, CallGoes, CallReturns DEF AddTrack, serverVars, Places, Sids, At
  <2>2. CASE UNCHANGED pending
    BY <1>1, <2>1, <2>2
  <2>3. CASE /\ pending' = [pending EXCEPT ![c[1]] = c]
             /\ Goto(c, "answer")
    <3>1. call'[c].at = "answer"
      BY <1>0, <1>4, <2>3, CallGoes DEF AddTrack, Places, Sids
    <3>2. \A t \in Tracks : t # c[1] => pending'[t] = pending[t]
      BY <1>0, <2>3
    <3>3. pending'[c[1]] = c
      BY <1>0, <2>3, CallersOfTracks
    <3>4. \A t \in Tracks : pending[t] # Nobody /\ At(pending[t], "answer") =>
                              call'[pending[t]].at = "answer"
      BY <1>0, <2>1 DEF OnlyCall, At
    <3> QED
      BY <1>0, <3>1, <3>2, <3>3, <3>4 DEF PendingIsAwaited, At
  <2> QED
    BY <1>4, <2>2, <2>3 DEF AddTrack
<1>5. ASSUME NEW c \in Callers, TrackTimeout(c) \/ RemoveTrack(c)
      PROVE  PendingIsAwaited'
  <2>1. Return(c) \/ Goto(c, "add_track")
    BY <1>5 DEF TrackTimeout, RemoveTrack, Unpublished
  <2>2. OnlyCall(c)
    BY <1>0, <1>5, <2>1, CallReturns, CallGoes
       DEF TrackTimeout, RemoveTrack, serverVars, Places, Sids
  <2>3. Forget(c[1]) \/ (UNCHANGED pending /\ ~At(c, "answer"))
    BY <1>5 DEF TrackTimeout, RemoveTrack, At
  <2> QED
    BY <1>1, <1>2, <2>2, <2>3
<1>6. ASSUME NEW c \in Callers,
             CreateSender(c) \/ AddPublication(c) \/ EngineClosed(c)
               \/ Republish(c)
      PROVE  PendingIsAwaited'
  <2>1. /\ ~At(c, "answer") /\ UNCHANGED <<pending, named>>
        /\ \/ Return(c)
           \/ Goto(c, "add_publication")
           \/ Goto(c, "remove_track")
           \/ Goto(c, "add_track")
    BY <1>6 DEF CreateSender, AddPublication, EngineClosed, Republish,
                serverVars, At
  <2>2. OnlyCall(c)
    BY <1>0, <2>1, CallReturns, CallGoes DEF Places, Sids
  <2> QED
    BY <1>1, <2>1, <2>2
<1>7. ASSUME NEW c \in Callers, Cancel(c) PROVE PendingIsAwaited'
  <2>1. "cancel" \in faults \/ Panicked
    BY <1>7, CallersOfTracks DEF Cancel, Panicked
  <2> QED
    BY <1>0, <2>1, AwaitedDropped
<1>8. ASSUME NEW t \in Tracks, PublishTrack(t) PROVE PendingIsAwaited'
  <2>1. /\ <<t, App>> \in Callers /\ ~At(<<t, App>>, "answer")
        /\ UNCHANGED <<pending, named>> /\ Goto(<<t, App>>, "add_track")
    BY <1>8, CallersOfTracks DEF PublishTrack, serverVars, At
  <2> QED
    BY <1>0, <1>1, <2>1, CallGoes DEF Places, Sids
<1>9. ASSUME NEW t \in Tracks, UnpublishTrack(t) PROVE PendingIsAwaited'
  <2>1. PICK sid \in table : call' = [call EXCEPT ![<<t, App>>] =
                                        Working("remove_track", sid)]
    BY <1>9 DEF UnpublishTrack
  <2>2. /\ <<t, App>> \in Callers /\ ~At(<<t, App>>, "answer")
        /\ UNCHANGED <<pending, named>> /\ sid \in Sids
    BY <1>0, <1>9, <2>1, CallersOfTracks
       DEF UnpublishTrack, serverVars, Types, At
  <2> QED
    BY <1>0, <1>1, <2>1, <2>2, CallStarts DEF Places, Sids
<1>10. CASE OnTrackPublished
  <2> DEFINE sid == Head(fromServer)
             c == pending[named[sid]]
  <2>1. /\ UNCHANGED named /\ Forget(named[sid])
        /\ call' = IF c # Nobody /\ At(c, "answer")
                   THEN [call EXCEPT ![c] = [at |-> "create_sender",
                                             sid |-> sid, session |-> session]]
                   ELSE call
        /\ fromServer # <<>>
    BY <1>10 DEF OnTrackPublished
  <2>2. sid \in Sids /\ named[sid] \in Tracks
    BY <1>0, <2>1, SequenceTypes, Numbers DEF Types
  <2>3. CASE c # Nobody /\ At(c, "answer")
    <3>1. c \in Callers /\ c[1] = named[sid]
      BY <1>0, <2>2, <2>3 DEF PendingOwn
    <3>2. OnlyCall(c)
      BY <1>0, <2>1, <2>2, <2>3, <3>1, CallAnswered DEF Sids
    <3> QED
      BY <1>2, <2>1, <3>1, <3>2
  <2>4. CASE ~(c # Nobody /\ At(c, "answer"))
    <3>1. UNCHANGED call
      BY <2>1, <2>4
    <3> HIDE DEF sid, c
    <3>2. \A t \in Tracks : pending'[t] \in {Nobody, pending[t]}
      BY <1>0, <2>1 DEF Forget
    <3> QED
      BY <1>0, <3>1, <3>2, AwaitedStill DEF At
  <2> QED
    BY <2>3, <2>4
<1>11. ASSUME NEW n \in Batches, SpawnRepublish(n) PROVE PendingIsAwaited'
  <2>1. PICK sid \in snapshot[n] :
          /\ At(<<named[sid], n>>, "idle")
          /\ \/ UNCHANGED call
             \/ call' = [call EXCEPT ![<<named[sid], n>>] =
                           Working("unpublish", sid)]
    BY <1>11 DEF SpawnRepublish
  <2>2. UNCHANGED <<pending, named>>
    BY <1>11 DEF SpawnRepublish, serverVars
  <2>3. sid \in Sids /\ <<named[sid], n>> \in Callers
    BY <1>0, <2>1, Numbers, CallersOfTracks DEF Types
  <2>4. CASE UNCHANGED call
    BY <1>3, <2>2, <2>4
  <2>5. CASE call' = [call EXCEPT ![<<named[sid], n>>] =
                        Working("unpublish", sid)]
    <3>1. OnlyCall(<<named[sid], n>>)
      BY <1>0, <2>2, <2>3, <2>5, CallStarts DEF Places, Sids
    <3> QED
      BY <1>1, <2>1, <2>2, <2>3, <3>1 DEF At
  <2> QED
    BY <2>1, <2>4, <2>5
<1>12. CASE Restart
  <2>1. \A t \in Tracks : pending'[t] = Nobody
    BY <1>12 DEF Restart
  <2> QED
    BY <2>1 DEF PendingIsAwaited
<1>13. CASE ReconnectionNeeded \/ ReconnectTask \/ Resume \/ ReleaseLock
            \/ EngineClose \/ HandleRestarted
            \/ \E n \in Batches : Reconnected(n)
  BY <1>3, <1>13
     DEF ReconnectionNeeded, ReconnectTask, Resume, ReleaseLock, EngineClose,
         HandleRestarted, Reconnected
<1>14. CASE ServerAddsTrack \/ Negotiate \/ LoseConnection
  BY <1>3, <1>14 DEF ServerAddsTrack, Negotiate, LoseConnection
<1>15. CASE UNCHANGED vars
  BY <1>3, <1>15 DEF vars
<1> QED
  BY <1>4, <1>5, <1>6, <1>7, <1>8, <1>9, <1>10, <1>11, <1>12, <1>13, <1>14,
     <1>15
     DEF Next, Progress, CallStep, EngineStep, RoomStep

\* An entry of pending_tracks, with which add_track answers "track already
\* published", has a call that waits for its answer, as long as no future is
\* dropped: a timeout, a restart and an unpublication leave none behind.
THEOREM EntriesAwaited == Spec => []PendingIsAwaited
<1>1. Init => AwaitedInv
  <2> SUFFICES ASSUME Init PROVE AwaitedInv
    OBVIOUS
  <2>1. BatchInv
    BY DEF Init, BatchInv
  <2>2. PendingIsAwaited
    BY DEF Init, PendingIsAwaited
  <2> QED
    BY <2>1, <2>2, InitInv DEF AwaitedInv
<1>2. AwaitedInv /\ [Next]_vars => AwaitedInv'
  BY NextInv, NextBatchInv, NextAwaited DEF AwaitedInv
<1>3. AwaitedInv => PendingIsAwaited
  BY DEF AwaitedInv
<1> QED
  BY <1>1, <1>2, <1>3, PTL DEF Spec

-----------------------------------------------------------------------------
(***************************************************************************)
(* ServerAgrees: what holds of the server and the room while something is  *)
(* under way.                                                              *)
(***************************************************************************)

\* Of a regular track every publication the server has is accounted for.
Regular(t) == t \notin raced \cup unanswered /\ ~Panicked

\* s is the server's newest publication of its track in this session.
Newest(s) ==
  s \in added /\ \A u \in added : named[u] = named[s] => u <= s

NothingAdded(t) == \A u \in added : named[u] # t

ServerTypes ==
  /\ senders \subseteq Sids
  /\ added \subseteq Sids
  /\ streaming \subseteq Sids
  /\ negotiate \in BOOLEAN
  /\ session \in Nat \ {0}

\* A call knows the session that answered it, a track its own transceiver; a
\* republishing task that is not running has no turns left.
OwnSessions ==
  \A c \in Callers : At(c, "create_sender") \/ At(c, "add_publication") =>
    call[c].session <= session

OwnTransceivers ==
  /\ \A c \in Callers : c[1] \notin raced /\ At(c, "remove_track") =>
       transceiver[c[1]] = call[c].sid
  /\ \A t \in Tracks : transceiver[t] # NoSid => named[transceiver[t]] = t

OwnTurns ==
  /\ \A n \in Batches : batch[n] # "running" => snapshot[n] = {}
  /\ room = "acknowledged" => session \in Batches

\* A call waits for the request or the answer that is on its way, and there is
\* only one.
Waiting(t) == pending[t] # Nobody /\ At(pending[t], "answer")

Waits(t) ==
  /\ \A i \in 1..Len(toServer) : toServer[i] = t =>
       /\ Waiting(t)
       /\ \A j \in 1..Len(toServer) : toServer[j] = t => j = i
  /\ \A i \in 1..Len(fromServer) : named[fromServer[i]] = t =>
       /\ Waiting(t)
       /\ \A j \in 1..Len(toServer) : toServer[j] # t
       /\ \A j \in 1..Len(fromServer) : named[fromServer[j]] = t => j = i
       /\ Newest(fromServer[i])
       /\ fromServer[i] \notin streaming

\* The publication a call was given has no media section yet, and is the
\* newest unless it is one of an older session, ...
Answered(t) ==
  \A c \in Callers : c[1] = t =>
    /\ At(c, "create_sender") =>
         /\ call[c].sid \notin streaming
         /\ IF call[c].session = session THEN Newest(call[c].sid)
                                         ELSE NothingAdded(t)
    /\ At(c, "add_publication") /\ call[c].session = session =>
         call[c].sid \in senders \cap added

\* ... a transceiver that sends is one of a publication in the table, or of a
\* call that is about to put it there or has just removed it, ...
Sends(t) ==
  \A x \in senders : named[x] = t =>
    /\ \/ x \in table
       \/ \E c \in Callers : /\ c[1] = t
                             /\ call[c].sid = x
                             /\ At(c, "add_publication") \/ At(c, "remove_track")
    /\ IF x \in added THEN Newest(x) ELSE NothingAdded(t)

\* ... a media section is one of such a transceiver, and a publication with its
\* transceiver has one, as soon as it was negotiated, ...
Streams(t) ==
  /\ \A s \in streaming : named[s] = t => negotiate \/ s \in senders
  /\ \A s \in table : named[s] = t /\ s \in senders \cap added =>
       negotiate \/ s \in streaming

\* The republishing task of this session is still to take s.
Due(s) ==
  \/ room = "acknowledged"
  \/ session \in Batches /\ s \in snapshot[session]
  \/ \E c \in Callers : c[1] = named[s] /\ At(c, "unpublish")

\* ... and a publication of this session has its transceiver.
Restored(t) ==
  \A s \in table : named[s] = t /\ s \notin straddled =>
    s \in senders \cap added \/ Due(s)

ServerTrack(t) ==
  Waits(t) /\ Answered(t) /\ Sends(t) /\ Streams(t) /\ Restored(t)

ServerInv ==
  /\ ServerTypes
  /\ OwnSessions
  /\ OwnTransceivers
  /\ OwnTurns
  /\ \A t \in Tracks : Regular(t) => ServerTrack(t)

-----------------------------------------------------------------------------
(***************************************************************************)
(* What a step has to leave alone for the parts to stay true of a track.   *)
(***************************************************************************)
NamesStay(t) ==
  /\ \A s \in Sids : s \in Sids' /\ named'[s] = named[s]
  /\ \A s \in Sids' : named'[s] = t => s \in Sids

PublicationsStay(t) ==
  \A s \in Sids : named[s] = t =>
    (s \in added' <=> s \in added) /\ (s \in streaming' <=> s \in streaming)

SendersStay(t) ==
  \A s \in Sids : named[s] = t => (s \in senders' <=> s \in senders)

TableStays(t) ==
  \A s \in Sids : named[s] = t => (s \in table' <=> s \in table)

\* The messages of the track are those there were, one place on or not.
MessagesStay(t) ==
  /\ \E k \in {0, 1} : \A i \in 1..Len(toServer') : toServer'[i] = t =>
       i + k \in 1..Len(toServer) /\ toServer[i + k] = t
  /\ \E m \in {0, 1} : \A i \in 1..Len(fromServer') :
       named'[fromServer'[i]] = t =>
         i + m \in 1..Len(fromServer) /\ fromServer'[i] = fromServer[i + m]

\* A call stays, or goes on from a place that no part speaks of.
CallGoesOn(c) ==
  \/ call'[c] = call[c]
  \/ /\ call[c].at \in {"idle", "add_track", "create_sender", "unpublish"}
     /\ call'[c].at \notin {"create_sender", "add_publication"}

CallsGoOn(t) == \A c \in Callers : c[1] = t => CallGoesOn(c)

DuesStay(t) ==
  \A s \in table' : named[s] = t /\ s \in table /\ Due(s) => Due(s)'

LEMMA NewestStays ==
  ASSUME ServerTypes, ServerTypes', NEW t \in Tracks, NamesStay(t),
         PublicationsStay(t)
  PROVE  /\ NothingAdded(t) => NothingAdded(t)'
         /\ \A s \in Sids : named[s] = t /\ Newest(s) => Newest(s)'
<1>1. added \subseteq Sids /\ added' \subseteq Sids'
  BY DEF ServerTypes
<1>2. \A u \in added' : named'[u] = t => u \in added /\ named[u] = t
  BY <1>1 DEF NamesStay, PublicationsStay
<1>3. NothingAdded(t) => NothingAdded(t)'
  BY <1>2 DEF NothingAdded
<1>4. ASSUME NEW s \in Sids, named[s] = t, Newest(s) PROVE Newest(s)'
  <2>1. s \in added' /\ named'[s] = t
    BY <1>4 DEF NamesStay, PublicationsStay, Newest
  <2> QED
    BY <1>2, <1>4, <2>1 DEF Newest
<1> QED
  BY <1>3, <1>4

LEMMA WaitsStay ==
  ASSUME Types, Types', ServerTypes, ServerTypes', PendingOwn,
         NEW t \in Tracks, Waits(t),
         NamesStay(t), PublicationsStay(t), MessagesStay(t), CallsGoOn(t),
         pending'[t] = pending[t]
  PROVE  Waits(t)'
<1>1. PICK k \in {0, 1} : \A i \in 1..Len(toServer') : toServer'[i] = t =>
        i + k \in 1..Len(toServer) /\ toServer[i + k] = t
  BY DEF MessagesStay
<1>2. PICK m \in {0, 1} : \A i \in 1..Len(fromServer') :
        named'[fromServer'[i]] = t =>
          i + m \in 1..Len(fromServer) /\ fromServer'[i] = fromServer[i + m]
  BY DEF MessagesStay
<1>3. \A i \in 1..Len(fromServer') : named'[fromServer'[i]] = t =>
        /\ fromServer'[i] \in Sids
        /\ named[fromServer'[i]] = t
        /\ named[fromServer[i + m]] = t
  <2> SUFFICES ASSUME NEW i \in 1..Len(fromServer'),
                      named'[fromServer'[i]] = t
               PROVE  fromServer'[i] \in Sids /\ named[fromServer'[i]] = t
    BY <1>2
  <2>1. fromServer[i + m] \in Sids
    BY <1>2, Numbers
  <2> QED
    BY <1>2, <2>1 DEF NamesStay
<1>4. Waiting(t) => Waiting(t)'
  <2> SUFFICES ASSUME Waiting(t) PROVE Waiting(t)'
    OBVIOUS
  <2>1. pending[t] \in Callers /\ pending[t][1] = t
    BY DEF Waiting, Types, PendingOwn
  <2>2. call'[pending[t]] = call[pending[t]]
    BY <2>1 DEF CallsGoOn, CallGoesOn, Waiting, At
  <2> QED
    BY <2>2 DEF Waiting, At
<1>5. ASSUME NEW i \in 1..Len(toServer'), toServer'[i] = t
      PROVE  /\ Waiting(t)'
             /\ \A j \in 1..Len(toServer') : toServer'[j] = t => j = i
  <2>1. i + k \in 1..Len(toServer) /\ toServer[i + k] = t
    BY <1>1, <1>5
  <2>2. Waiting(t) /\ \A j \in 1..Len(toServer) : toServer[j] = t => j = i + k
    BY <2>1 DEF Waits
  <2>3. ASSUME NEW j \in 1..Len(toServer'), toServer'[j] = t PROVE j = i
    <3>1. j + k \in 1..Len(toServer) /\ toServer[j + k] = t
      BY <1>1, <2>3
    <3>2. j + k = i + k
      BY <2>2, <3>1
    <3> QED
      BY <3>2
  <2> QED
    BY <1>4, <2>2, <2>3
<1>6. ASSUME NEW i \in 1..Len(fromServer'), named'[fromServer'[i]] = t
      PROVE  /\ Waiting(t)'
             /\ \A j \in 1..Len(toServer') : toServer'[j] # t
             /\ \A j \in 1..Len(fromServer') :
                  named'[fromServer'[j]] = t => j = i
             /\ Newest(fromServer[i])'
             /\ fromServer'[i] \notin streaming'
  <2>1. /\ i + m \in 1..Len(fromServer) /\ named[fromServer[i + m]] = t
        /\ fromServer'[i] = fromServer[i + m]
        /\ fromServer'[i] \in Sids /\ named[fromServer'[i]] = t
    BY <1>2, <1>3, <1>6
  <2>2. /\ Waiting(t)
        /\ \A j \in 1..Len(toServer) : toServer[j] # t
        /\ \A j \in 1..Len(fromServer) :
             named[fromServer[j]] = t => j = i + m
        /\ Newest(fromServer[i + m])
        /\ fromServer[i + m] \notin streaming
    BY <2>1 DEF Waits
  <2>3. \A j \in 1..Len(toServer') : toServer'[j] # t
    BY <1>1, <2>2
  <2>4. ASSUME NEW j \in 1..Len(fromServer'), named'[fromServer'[j]] = t
        PROVE  j = i
    <3>1. j + m \in 1..Len(fromServer) /\ named[fromServer[j + m]] = t
      BY <1>2, <1>3, <2>4
    <3>2. j + m = i + m
      BY <2>2, <3>1
    <3> QED
      BY <3>2
  <2>5. fromServer'[i] \notin streaming'
    BY <2>1, <2>2 DEF PublicationsStay
  <2>6. Newest(fromServer[i])'
    <3>1. PICK s : s = fromServer'[i]
      OBVIOUS
    <3>2. Newest(s)'
      BY <2>1, <2>2, <3>1, NewestStays
    <3> QED
      BY <3>1, <3>2 DEF Newest
  <2> QED
    BY <1>4, <2>2, <2>3, <2>4, <2>5, <2>6
<1> QED
  BY <1>5, <1>6 DEF Waits

LEMMA AnsweredStays ==
  ASSUME SidOfCall, ServerTypes, ServerTypes', NEW t \in Tracks, Answered(t),
         NamesStay(t), PublicationsStay(t), CallsGoOn(t), SendersStay(t),
         session' = session
  PROVE  Answered(t)'
<1> SUFFICES ASSUME NEW c \in Callers, c[1] = t,
                    call'[c].at \in {"create_sender", "add_publication"}
             PROVE  /\ call'[c].at = "create_sender" =>
                         /\ call'[c].sid \notin streaming'
                         /\ IF call'[c].session = session
                            THEN Newest(call[c].sid)'
                            ELSE NothingAdded(t)'
                    /\ call'[c].at = "add_publication"
                         /\ call'[c].session = session =>
                         call'[c].sid \in senders' \cap added'
  BY DEF Answered, At
<1>1. PICK s : s = call[c].sid
  OBVIOUS
<1>2. call'[c] = call[c]
  BY DEF CallsGoOn, CallGoesOn
<1>3. s \in Sids /\ named[s] = t
  BY <1>1, <1>2 DEF SidOfCall, At
<1>4. Newest(s)' => Newest(call[c].sid)'
  BY <1>1, <1>2 DEF Newest
<1>5. (Newest(s) => Newest(s)') /\ (NothingAdded(t) => NothingAdded(t)')
  BY <1>3, NewestStays
<1>6. CASE call[c].at = "create_sender"
  <2>1. /\ s \notin streaming
        /\ IF call[c].session = session THEN Newest(s) ELSE NothingAdded(t)
    BY <1>1, <1>6 DEF Answered, At
  <2>2. s \notin streaming'
    BY <1>3, <2>1 DEF PublicationsStay
  <2> QED
    BY <1>1, <1>2, <1>4, <1>5, <1>6, <2>1, <2>2
<1>7. CASE call[c].at = "add_publication"
  BY <1>1, <1>2, <1>3, <1>7
     DEF Answered, At, PublicationsStay, SendersStay
<1> QED
  BY <1>2, <1>6, <1>7

LEMMA SendsStay ==
  ASSUME ServerTypes, ServerTypes', NEW t \in Tracks, Sends(t),
         NamesStay(t), PublicationsStay(t), CallsGoOn(t), SendersStay(t),
         TableStays(t)
  PROVE  Sends(t)'
<1> SUFFICES ASSUME NEW x \in senders', named'[x] = t
             PROVE  /\ \/ x \in table'
                       \/ \E c \in Callers :
                            /\ c[1] = t
                            /\ call'[c].sid = x
                            /\ \/ call'[c].at = "add_publication"
                               \/ call'[c].at = "remove_track"
                    /\ IF x \in added' THEN Newest(x)' ELSE NothingAdded(t)'
  BY DEF Sends, At
<1>1. x \in Sids /\ named[x] = t
  BY DEF NamesStay, ServerTypes
<1>2. x \in senders /\ (x \in added' <=> x \in added)
  BY <1>1 DEF SendersStay, PublicationsStay
<1>3. IF x \in added' THEN Newest(x)' ELSE NothingAdded(t)'
  BY <1>1, <1>2, NewestStays DEF Sends
<1>4. CASE x \in table
  BY <1>1, <1>3, <1>4 DEF TableStays
<1>5. ASSUME NEW c \in Callers, c[1] = t, call[c].sid = x,
             At(c, "add_publication") \/ At(c, "remove_track")
      PROVE  /\ call'[c].sid = x
             /\ \/ call'[c].at = "add_publication"
                \/ call'[c].at = "remove_track"
  BY <1>5 DEF CallsGoOn, CallGoesOn, At
<1> QED
  BY <1>1, <1>2, <1>3, <1>4, <1>5 DEF Sends

LEMMA StreamsStay ==
  ASSUME Types', ServerTypes', NEW t \in Tracks, Streams(t),
         NamesStay(t), PublicationsStay(t), SendersStay(t),
         \A s \in Sids : named[s] = t /\ s \in table' => s \in table,
         negotiate => negotiate'
  PROVE  Streams(t)'
<1>1. \A s \in streaming' \cup table' : named'[s] = t =>
        s \in Sids /\ named[s] = t
  BY DEF NamesStay, ServerTypes, Types
<1>2. \A s \in streaming' : named'[s] = t => negotiate' \/ s \in senders'
  BY <1>1 DEF Streams, PublicationsStay, SendersStay
<1>3. \A s \in table' : named'[s] = t /\ s \in senders' \cap added' =>
        negotiate' \/ s \in streaming'
  BY <1>1 DEF Streams, PublicationsStay, SendersStay
<1> QED
  BY <1>2, <1>3 DEF Streams

LEMMA RestoredStays ==
  ASSUME Types', NEW t \in Tracks, Restored(t),
         NamesStay(t), PublicationsStay(t), SendersStay(t), DuesStay(t),
         \A s \in Sids : named[s] = t /\ s \in table' => s \in table,
         straddled \subseteq straddled'
  PROVE  Restored(t)'
<1> SUFFICES ASSUME NEW s \in table', named'[s] = t, s \notin straddled'
             PROVE  s \in senders' \cap added' \/ Due(s)'
  BY DEF Restored
<1>1. s \in Sids /\ named[s] = t /\ s \in table
  BY DEF NamesStay, Types
<1> QED
  BY <1>1 DEF Restored, PublicationsStay, SendersStay, DuesStay

\* What is known when a step is taken and the track is regular after it.
Step(t) ==
  /\ IInv /\ BatchInv
  /\ Types'
  /\ ServerTypes /\ ServerTypes'
  /\ OwnSessions /\ OwnTransceivers /\ OwnTurns
  /\ Regular(t) /\ Regular(t)'
  /\ ServerTrack(t)

LEMMA TrackStays ==
  ASSUME NEW t \in Tracks, Step(t),
         NamesStay(t), PublicationsStay(t), SendersStay(t), TableStays(t),
         MessagesStay(t), CallsGoOn(t), DuesStay(t),
         pending'[t] = pending[t], session' = session,
         negotiate => negotiate', straddled \subseteq straddled'
  PROVE  ServerTrack(t)'
<1>1. /\ Types /\ Types' /\ ServerTypes /\ ServerTypes' /\ PendingOwn
      /\ SidOfCall
      /\ Waits(t) /\ Answered(t) /\ Sends(t) /\ Streams(t) /\ Restored(t)
  BY DEF Step, IInv, ServerTrack
<1>2. \A s \in Sids : named[s] = t /\ s \in table' => s \in table
  BY DEF TableStays
<1>3. Waits(t)' /\ Answered(t)' /\ Sends(t)'
  BY <1>1, WaitsStay, AnsweredStays, SendsStay
<1>4. Streams(t)' /\ Restored(t)'
  BY <1>1, <1>2, StreamsStay, RestoredStays
<1> QED
  BY <1>3, <1>4 DEF ServerTrack

\* Steps of one call: what they leave alone of each track.
LEMMA OneCallGoesOn ==
  ASSUME Types, NEW c \in Callers, OnlyCall(c), NEW t \in Tracks,
         t # c[1] \/ CallGoesOn(c),
         UNCHANGED <<named, added, streaming>>
  PROVE  NamesStay(t) /\ PublicationsStay(t) /\ CallsGoOn(t)
<1>1. NamesStay(t) /\ PublicationsStay(t)
  BY DEF NamesStay, PublicationsStay, Sids
<1>2. CallsGoOn(t)
  BY DEF CallsGoOn, CallGoesOn, OnlyCall
<1> QED
  BY <1>1, <1>2

LEMMA OneCallDues ==
  ASSUME NEW c \in Callers, OnlyCall(c), NEW t \in Tracks,
         t # c[1] \/ ~At(c, "unpublish"),
         UNCHANGED <<named, room, session, snapshot>>
  PROVE  DuesStay(t)
<1> SUFFICES ASSUME NEW s, named[s] = t, Due(s) PROVE Due(s)'
  BY DEF DuesStay
<1>1. ASSUME NEW d \in Callers, d[1] = t, At(d, "unpublish")
      PROVE  call'[d].at = "unpublish"
  BY <1>1 DEF OnlyCall, At
<1> QED
  BY <1>1 DEF Due, At

LEMMA MessagesUntouched ==
  ASSUME NEW t, UNCHANGED named, toServer' \in {toServer, <<>>},
         fromServer' \in {fromServer, <<>>}
  PROVE  MessagesStay(t)
<1>1. \A i \in 1..Len(toServer') : toServer'[i] = t =>
        i + 0 \in 1..Len(toServer) /\ toServer[i + 0] = t
  <2>1. CASE toServer' = toServer
    BY <2>1
  <2>2. CASE toServer' = <<>>
    BY <2>2
  <2> QED
    BY <2>1, <2>2
<1>2. \A i \in 1..Len(fromServer') : named'[fromServer'[i]] = t =>
        i + 0 \in 1..Len(fromServer) /\ fromServer'[i] = fromServer[i + 0]
  <2>1. CASE fromServer' = fromServer
    BY <2>1
  <2>2. CASE fromServer' = <<>>
    BY <2>2
  <2> QED
    BY <2>1, <2>2
<1> QED
  BY <1>1, <1>2 DEF MessagesStay

\* A call at work for a regular track is the only one, and before it has a
\* transceiver the track has neither a publication nor a transceiver.
LEMMA AtWork ==
  ASSUME NEW t \in Tracks, Step(t), NEW c \in Callers, c[1] = t,
         ~At(c, "idle")
  PROVE  /\ \A d \in Callers : d[1] = t /\ d # c => At(d, "idle")
         /\ ~At(c, "unpublish") => \A s \in table : named[s] # t
         /\ ~(\E p \in {"unpublish", "add_publication", "remove_track"} :
                At(c, p)) =>
              \A x \in senders : named[x] # t
         /\ \A x \in senders : named[x] = t /\ ~At(c, "unpublish") =>
              x = call[c].sid
<1>1. t \notin raced /\ Alone /\ Busy /\ Sends(t)
  BY DEF Step, Regular, IInv, ServerTrack
<1>2. \A d \in Callers : d[1] = t /\ d # c => At(d, "idle")
  BY <1>1 DEF Alone
<1>3. ~At(c, "unpublish") => \A s \in table : named[s] # t
  BY <1>1 DEF Busy
<1>4. ASSUME NEW x \in senders, named[x] = t, ~At(c, "unpublish")
      PROVE  /\ At(c, "add_publication") \/ At(c, "remove_track")
             /\ x = call[c].sid
  <2>1. PICK d \in Callers : /\ d[1] = t /\ call[d].sid = x
                             /\ At(d, "add_publication") \/ At(d, "remove_track")
    BY <1>1, <1>3, <1>4 DEF Sends
  <2>2. d = c
    BY <1>2, <2>1 DEF At
  <2> QED
    BY <2>1, <2>2
<1> QED
  BY <1>2, <1>3, <1>4

\* What only waits for the answer has no message, unless it waits.
LEMMA NoMessages ==
  ASSUME NEW t \in Tracks, Step(t), ~Waiting(t)
  PROVE  /\ \A i \in 1..Len(toServer) : toServer[i] # t
         /\ \A i \in 1..Len(fromServer) : named[fromServer[i]] # t
  BY DEF Step, ServerTrack, Waits

LEMMA WaitingIsOwn ==
  ASSUME NEW t \in Tracks, Step(t), Waiting(t)
  PROVE  /\ pending[t] \in Callers
         /\ pending[t][1] = t
         /\ At(pending[t], "answer")
  BY DEF Step, IInv, Types, PendingOwn, Waiting

-----------------------------------------------------------------------------
(***************************************************************************)
(* Each step, for a track that is regular after it                         *)
(***************************************************************************)

\* A step that changes no more than a call, which goes on.
LEMMA TrackCallGoesOn ==
  ASSUME NEW t \in Tracks, Step(t), NEW c \in Callers, OnlyCall(c),
         t # c[1] \/ (CallGoesOn(c) /\ ~At(c, "unpublish")),
         UNCHANGED <<named, added, streaming, room, session, snapshot,
                     fromServer, toServer, senders, table, negotiate,
                     straddled>>,
         pending'[t] = pending[t]
  PROVE  ServerTrack(t)'
<1>1. NamesStay(t) /\ PublicationsStay(t) /\ CallsGoOn(t)
  BY OneCallGoesOn DEF Step, IInv
<1>2. DuesStay(t)
  BY OneCallDues
<1>3. MessagesStay(t)
  BY MessagesUntouched
<1>4. SendersStay(t) /\ TableStays(t)
  BY DEF SendersStay, TableStays
<1> QED
  BY <1>1, <1>2, <1>3, <1>4, TrackStays

\* A step that changes nothing of the track.
LEMMA TrackUntouched ==
  ASSUME NEW t \in Tracks, Step(t),
         UNCHANGED <<named, added, streaming, call, room, session, snapshot,
                     senders, table, pending, negotiate, straddled>>,
         toServer' \in {toServer, <<>>}, fromServer' \in {fromServer, <<>>}
  PROVE  ServerTrack(t)'
<1>1. NamesStay(t) /\ PublicationsStay(t) /\ SendersStay(t) /\ TableStays(t)
  BY DEF NamesStay, PublicationsStay, SendersStay, TableStays, Sids
<1>2. CallsGoOn(t) /\ DuesStay(t)
  BY DEF CallsGoOn, CallGoesOn, DuesStay, Due, At
<1>3. MessagesStay(t)
  BY MessagesUntouched
<1> QED
  BY <1>1, <1>2, <1>3, TrackStays

LEMMA TrackPublish ==
  ASSUME NEW t \in Tracks, Step(t), NEW u \in Tracks, PublishTrack(u)
  PROVE  ServerTrack(t)'
<1>1. PICK c \in Callers : c = <<u, App>>
  BY CallersOfTracks
<1>2. /\ At(c, "idle") /\ Goto(c, "add_track") /\ Types
      /\ UNCHANGED <<named, added, streaming, room, session, snapshot,
                     fromServer, toServer, senders, table, negotiate,
                     straddled, pending>>
  BY <1>1 DEF PublishTrack, Step, IInv, engineVars, sessionVars, serverVars,
              objectVars, roomVars, historyVars
<1>3. call'[c].at = "add_track" /\ OnlyCall(c)
  BY <1>2, CallGoes DEF Sids, Places
<1>4. CallGoesOn(c) /\ ~At(c, "unpublish")
  BY <1>2, <1>3 DEF CallGoesOn, At
<1> QED
  BY <1>2, <1>3, <1>4, TrackCallGoesOn

\* The request of a call that found no entry is the only one of its track.
LEMMA TrackAddTrack ==
  ASSUME NEW t \in Tracks, Step(t), NEW c \in Callers, AddTrack(c)
  PROVE  ServerTrack(t)'
<1>1. /\ Types /\ At(c, "add_track") /\ c[1] \in Tracks
      /\ pending \in [Tracks -> {Nobody} \cup Callers]
      /\ UNCHANGED <<named, added, streaming, room, session, snapshot,
                     fromServer, senders, table, negotiate, straddled>>
  BY CallersOfTracks
     DEF AddTrack, Step, IInv, Types, engineVars, objectVars, roomVars,
         historyVars
<1>2. OnlyCall(c) /\ call'[c].at \in {"idle", "answer"}
  BY <1>1, CallGoes, CallReturns DEF AddTrack, Sids, Places
<1>3. CallGoesOn(c) /\ ~At(c, "unpublish")
  BY <1>1, <1>2 DEF CallGoesOn, At
<1>4. CASE UNCHANGED <<pending, toServer>>
  BY <1>1, <1>2, <1>3, <1>4, TrackCallGoesOn
<1>5. CASE /\ pending[c[1]] = Nobody
           /\ pending' = [pending EXCEPT ![c[1]] = c]
           /\ toServer' = IF Alive THEN Append(toServer, c[1]) ELSE toServer
           /\ Goto(c, "answer")
  <2>1. call'[c].at = "answer"
    BY <1>1, <1>5, CallGoes DEF Sids, Places
  <2>2. toServer \in Seq(Tracks) /\ Len(toServer) \in Nat
    BY <1>1, LenProperties DEF Types
  <2>3. \A i \in 1..Len(toServer') :
          \/ i \in 1..Len(toServer) /\ toServer'[i] = toServer[i]
          \/ i = Len(toServer) + 1 /\ toServer'[i] = c[1]
    <3>1. CASE Alive
      BY <1>1, <1>5, <2>2, <3>1, AppendProperties
    <3>2. CASE ~Alive
      BY <1>5, <3>2
    <3> QED
      BY <3>1, <3>2
  <2>4. /\ NamesStay(t) /\ PublicationsStay(t) /\ CallsGoOn(t)
        /\ DuesStay(t) /\ SendersStay(t) /\ TableStays(t)
    BY <1>1, <1>2, <1>3, OneCallGoesOn, OneCallDues
       DEF SendersStay, TableStays
  <2>5. CASE t # c[1]
    <3>1. pending'[t] = pending[t]
      BY <1>1, <1>5, <2>5
    <3>2. MessagesStay(t)
      <4>1. \A i \in 1..Len(toServer') : toServer'[i] = t =>
              i + 0 \in 1..Len(toServer) /\ toServer[i + 0] = t
        BY <2>2, <2>3, <2>5
      <4>2. \A i \in 1..Len(fromServer') : named'[fromServer'[i]] = t =>
              i + 0 \in 1..Len(fromServer) /\ fromServer'[i] = fromServer[i + 0]
        BY <1>1
      <4> QED
        BY <4>1, <4>2 DEF MessagesStay
    <3> QED
      BY <1>1, <2>4, <3>1, <3>2, TrackStays
  <2>6. CASE t = c[1]
    <3>1. /\ \A i \in 1..Len(toServer) : toServer[i] # t
          /\ \A i \in 1..Len(fromServer) : named[fromServer[i]] # t
      BY <1>5, <2>6, NoMessages DEF Waiting
    <3>2. Waiting(t)'
      <4>1. pending'[t] = c
        BY <1>1, <1>5, <2>6
      <4>2. c # Nobody
        BY CallersOfTracks DEF Nobody
      <4> QED
        BY <2>1, <4>1, <4>2 DEF Waiting, At
    <3>3. Waits(t)'
      BY <1>1, <2>3, <3>1, <3>2 DEF Waits
    <3>4. /\ ServerTypes /\ ServerTypes' /\ Types' /\ SidOfCall
          /\ Answered(t) /\ Sends(t) /\ Streams(t) /\ Restored(t)
      BY DEF Step, IInv, ServerTrack
    <3>5. \A s \in Sids : named[s] = t /\ s \in table' => s \in table
      BY <1>1
    <3>6. Answered(t)' /\ Sends(t)'
      BY <1>1, <2>4, <3>4, AnsweredStays, SendsStay
    <3>7. Streams(t)' /\ Restored(t)'
      BY <1>1, <2>4, <3>4, <3>5, StreamsStay, RestoredStays
    <3> QED
      BY <3>3, <3>6, <3>7 DEF ServerTrack
  <2> QED
    BY <2>5, <2>6
<1> QED
  BY <1>4, <1>5 DEF AddTrack

LEMMA TimesOut ==
  ASSUME NEW c \in Callers, TrackTimeout(c)
  PROVE  /\ At(c, "answer") /\ Return(c) /\ Forget(c[1]) /\ GiveUp(c)
         /\ UNCHANGED <<engineVars, senders, negotiate, serverVars,
                        objectVars, appVars, roomVars, faults, straddled,
                        raced>>
         /\ UNCHANGED <<session, senders, negotiate, toServer, fromServer,
                        named, added, streaming, table, detached, transceiver,
                        room, batch, snapshot, straddled, raced>>
<1>1. /\ At(c, "answer") /\ Return(c) /\ Forget(c[1]) /\ GiveUp(c)
      /\ UNCHANGED <<engineVars, senders, negotiate, serverVars,
                     objectVars, appVars, roomVars, faults, straddled,
                     raced>>
  BY Zenon DEF TrackTimeout
<1> QED
  BY <1>1 DEF engineVars, serverVars, objectVars, roomVars

\* A call that gives up leaves its track irregular.
LEMMA TrackTimesOut ==
  ASSUME NEW t \in Tracks, Step(t), NEW c \in Callers, TrackTimeout(c)
  PROVE  ServerTrack(t)'
<1>0. Types /\ pending \in [Tracks -> {Nobody} \cup Callers]
  BY DEF Step, IInv, Types
<1>1. /\ Return(c) /\ Forget(c[1]) /\ GiveUp(c)
      /\ UNCHANGED <<named, added, streaming, room, session, snapshot,
                     fromServer, toServer, senders, table, negotiate,
                     straddled>>
  BY TimesOut
<1>2. OnlyCall(c)
  BY <1>0, <1>1, CallReturns DEF Sids
<1>3. t # c[1]
  BY <1>1 DEF Step, Regular, GiveUp
<1>4. pending'[t] = pending[t]
  BY <1>0, <1>1, <1>3 DEF Forget
<1> QED
  BY <1>1, <1>2, <1>3, <1>4, TrackCallGoesOn

LEMMA TrackCancels ==
  ASSUME NEW t \in Tracks, Step(t), NEW c \in Callers, Cancel(c)
  PROVE  ServerTrack(t)'
<1>1. /\ Types /\ Return(c)
      /\ UNCHANGED <<named, added, streaming, room, session, snapshot,
                     fromServer, toServer, senders, table, negotiate,
                     straddled, pending>>
  BY DEF Cancel, Step, IInv, engineVars, sessionVars, serverVars, objectVars,
         roomVars
<1>2. OnlyCall(c) /\ call'[c].at = "idle"
  BY <1>1, CallReturns DEF Sids
<1>3. t # c[1] \/ At(c, "add_track") \/ At(c, "create_sender")
  <2> SUFFICES ASSUME t = c[1], At(c, "answer") \/ At(c, "unpublish")
               PROVE  FALSE
    BY DEF Cancel
  <2>1. CASE At(c, "answer")
    BY <2>1 DEF Cancel, GiveUp, At, Step, Regular
  <2>2. CASE At(c, "unpublish")
    <3>1. c[2] = App
      BY CallersOfTracks DEF Cancel, Step, Regular, Panicked
    <3>2. t \notin raced /\ Busy /\ OnePublication /\ SidOfCall
      BY DEF Step, Regular, IInv
    <3>3. call[c].sid \in table /\ named[call[c].sid] = t /\ t \notin owns
      BY <2>2, <3>1, <3>2 DEF Busy, SidOfCall, At
    <3> QED
      BY <3>2, <3>3 DEF OnePublication
  <2> QED
    BY <2>1, <2>2
<1>4. t # c[1] \/ (CallGoesOn(c) /\ ~At(c, "unpublish"))
  BY <1>2, <1>3 DEF CallGoesOn, At
<1> QED
  BY <1>1, <1>2, <1>4, TrackCallGoesOn

LEMMA TrackEngineClosed ==
  ASSUME NEW t \in Tracks, Step(t), NEW c \in Callers, EngineClosed(c)
  PROVE  ServerTrack(t)'
<1>1. /\ Types /\ Return(c)
      /\ At(c, "add_track") \/ At(c, "create_sender")
      /\ UNCHANGED <<named, added, streaming, room, session, snapshot,
                     fromServer, toServer, senders, table, negotiate,
                     straddled, pending>>
  BY DEF EngineClosed, Step, IInv, engineVars, sessionVars, serverVars,
         objectVars, roomVars, historyVars
<1>2. OnlyCall(c) /\ call'[c].at = "idle"
  BY <1>1, CallReturns DEF Sids
<1>3. CallGoesOn(c) /\ ~At(c, "unpublish")
  BY <1>1, <1>2 DEF CallGoesOn, At
<1> QED
  BY <1>1, <1>2, <1>3, TrackCallGoesOn

\* A call that got its answer makes the transceiver of its track.
LEMMA TrackCreateSender ==
  ASSUME NEW t \in Tracks, Step(t), NEW c \in Callers, CreateSender(c)
  PROVE  ServerTrack(t)'
<1>1. /\ Types /\ SidOfCall /\ At(c, "create_sender")
      /\ UNCHANGED <<named, added, streaming, room, session, snapshot,
                     fromServer, toServer, table, negotiate, straddled,
                     pending>>
  BY DEF CreateSender, Step, IInv, engineVars, serverVars, objectVars,
         roomVars, historyVars
<1>2. CASE Return(c) /\ UNCHANGED senders
  <2>1. OnlyCall(c) /\ call'[c].at = "idle"
    BY <1>1, <1>2, CallReturns DEF Sids
  <2>2. CallGoesOn(c) /\ ~At(c, "unpublish")
    BY <1>1, <2>1 DEF CallGoesOn, At
  <2> QED
    BY <1>1, <1>2, <2>1, <2>2, TrackCallGoesOn
<1>3. CASE senders' = senders \cup {call[c].sid} /\ Goto(c, "add_publication")
  <2>1. /\ OnlyCall(c) /\ call'[c].at = "add_publication"
        /\ call'[c].sid = call[c].sid
    BY <1>1, <1>3, CallGoes DEF Sids, Places
  <2>2. call'[c].session = call[c].session
    BY <1>1, <1>3 DEF Goto, Types, CallType
  <2>3. PICK sid \in Sids : sid = call[c].sid /\ named[sid] = c[1]
    BY <1>1 DEF SidOfCall
  <2>4. DuesStay(t)
    BY <1>1, <2>1, OneCallDues DEF At
  <2>5. MessagesStay(t)
    BY <1>1, MessagesUntouched
  <2>6. CASE t # c[1]
    <3>1. NamesStay(t) /\ PublicationsStay(t) /\ CallsGoOn(t)
      BY <1>1, <2>1, <2>6, OneCallGoesOn
    <3>2. SendersStay(t) /\ TableStays(t)
      BY <1>1, <1>3, <2>3, <2>6 DEF SendersStay, TableStays
    <3> QED
      BY <1>1, <2>4, <2>5, <3>1, <3>2, TrackStays
  <2>7. CASE t = c[1]
    <3>1. /\ \A d \in Callers : d[1] = t /\ d # c => At(d, "idle")
          /\ \A s \in table : named[s] # t
          /\ \A x \in senders : named[x] # t
      BY <1>1, <2>7, AtWork DEF At
    <3>2. ~Waiting(t)
      BY <1>1, <3>1, WaitingIsOwn DEF At
    <3>3. Waits(t)'
      BY <1>1, <3>2, NoMessages DEF Waits
    <3>4. /\ sid \notin streaming
          /\ IF call[c].session = session THEN Newest(sid) ELSE NothingAdded(t)
      BY <1>1, <2>3, <2>7 DEF Step, ServerTrack, Answered
    <3>5. Answered(t)'
      BY <1>1, <1>3, <2>1, <2>2, <2>3, <3>1, <3>4
         DEF Answered, OnlyCall, At, Newest
    <3>6. IF sid \in added THEN Newest(sid)' ELSE NothingAdded(t)'
      BY <1>1, <2>3, <2>7, <3>4 DEF Newest, NothingAdded
    <3>7. Sends(t)'
      <4> SUFFICES ASSUME NEW x \in senders', named[x] = t
                   PROVE  x = sid
        BY <1>1, <2>1, <2>3, <2>7, <3>6 DEF Sends, At
      <4> QED
        BY <1>3, <2>3, <3>1
    <3>8. Streams(t)'
      BY <1>1, <1>3, <3>1 DEF Step, ServerTrack, Streams
    <3>9. Restored(t)'
      BY <1>1, <3>1 DEF Restored
    <3> QED
      BY <3>3, <3>5, <3>7, <3>8, <3>9 DEF ServerTrack
  <2> QED
    BY <2>6, <2>7
<1> QED
  BY <1>2, <1>3 DEF CreateSender

LEMMA TrackAddPublication ==
  ASSUME NEW t \in Tracks, Step(t), NEW c \in Callers, AddPublication(c)
  PROVE  ServerTrack(t)'
<1>1. PICK sid : sid = call[c].sid
  OBVIOUS
<1>2. /\ Types /\ SidOfCall /\ At(c, "add_publication") /\ Return(c)
      /\ UNCHANGED <<named, added, streaming, room, session, snapshot,
                     fromServer, toServer, senders, pending>>
      /\ negotiate' = TRUE
      /\ table' = table \cup {sid}
      /\ straddled' = IF call[c].session = session THEN straddled
                                                   ELSE straddled \cup {sid}
  BY <1>1 DEF AddPublication, Step, IInv, engineVars, serverVars, roomVars
<1>3. OnlyCall(c) /\ call'[c].at = "idle"
  BY <1>2, CallReturns DEF Sids
<1>4. sid \in Sids /\ named[sid] = c[1]
  BY <1>1, <1>2 DEF SidOfCall
<1>5. MessagesStay(t)
  BY <1>2, MessagesUntouched
<1>6. CASE t # c[1]
  <2>1. NamesStay(t) /\ PublicationsStay(t) /\ CallsGoOn(t) /\ DuesStay(t)
    BY <1>2, <1>3, <1>6, OneCallGoesOn, OneCallDues
  <2>2. SendersStay(t) /\ TableStays(t)
    BY <1>2, <1>4, <1>6 DEF SendersStay, TableStays
  <2>3. negotiate' /\ straddled \subseteq straddled'
    BY <1>2
  <2> QED
    BY <1>2, <1>5, <2>1, <2>2, <2>3, TrackStays
<1>7. CASE t = c[1]
  <2>1. /\ \A d \in Callers : d[1] = t /\ d # c => At(d, "idle")
        /\ \A s \in table : named[s] # t
        /\ \A x \in senders : named[x] = t => x = sid
    BY <1>1, <1>2, <1>7, AtWork DEF At
  <2>2. ~Waiting(t)
    BY <1>2, <2>1, WaitingIsOwn DEF At
  <2>3. Waits(t)'
    BY <1>2, <2>2, NoMessages DEF Waits
  <2>4. Answered(t)'
    BY <1>3, <2>1 DEF Answered, OnlyCall, At
  <2>5. Sends(t)'
    <3>1. \A x \in senders : named[x] = t => x \in table'
      BY <1>2, <2>1
    <3>2. \A x \in senders : named[x] = t =>
            IF x \in added THEN Newest(x) ELSE NothingAdded(t)
      BY DEF Step, ServerTrack, Sends
    <3>3. ASSUME NEW x \in senders, named[x] = t
          PROVE  IF x \in added THEN Newest(x)' ELSE NothingAdded(t)'
      BY <1>2, <3>2, <3>3 DEF Newest, NothingAdded
    <3> QED
      BY <1>2, <3>1, <3>3 DEF Sends
  <2>6. Streams(t)'
    BY <1>2 DEF Streams
  <2>7. Restored(t)'
    <3> SUFFICES ASSUME NEW s \in table', named[s] = t, s \notin straddled'
                 PROVE  s \in senders \cap added
      BY <1>2 DEF Restored
    <3>1. s = sid /\ call[c].session = session
      BY <1>2, <2>1
    <3> QED
      BY <1>1, <1>2, <1>7, <3>1 DEF Step, ServerTrack, Answered
  <2> QED
    BY <2>3, <2>4, <2>5, <2>6, <2>7 DEF ServerTrack
<1> QED
  BY <1>6, <1>7

\* A publication leaves the table with a call that is to remove its
\* transceiver.
LEMMA TrackRemoved ==
  ASSUME NEW t \in Tracks, Step(t), NEW c \in Callers, NEW sid \in table,
         named[sid] = c[1],
         At(c, "idle") \/ At(c, "unpublish"),
         OnlyCall(c), call'[c].at = "remove_track", call'[c].sid = sid,
         table' = table \ {sid},
         UNCHANGED <<named, added, streaming, room, session, snapshot,
                     fromServer, toServer, senders, pending, negotiate,
                     straddled>>
  PROVE  ServerTrack(t)'
<1>0. /\ Types /\ Types' /\ ServerTypes /\ ServerTypes' /\ PendingOwn
      /\ SidOfCall /\ OnePublication /\ t \notin raced
      /\ Waits(t) /\ Answered(t) /\ Sends(t) /\ Streams(t) /\ Restored(t)
  BY DEF Step, IInv, ServerTrack, Regular
<1>1. CallGoesOn(c)
  BY DEF CallGoesOn, At
<1>2. NamesStay(t) /\ PublicationsStay(t) /\ CallsGoOn(t)
  BY <1>0, <1>1, OneCallGoesOn
<1>3. MessagesStay(t)
  BY MessagesUntouched
<1>4. SendersStay(t)
  BY DEF SendersStay
<1>5. CASE t # c[1]
  <2>1. TableStays(t) /\ DuesStay(t)
    BY <1>5, OneCallDues DEF TableStays
  <2> QED
    BY <1>2, <1>3, <1>4, <2>1, TrackStays
<1>6. CASE t = c[1]
  <2>1. \A s \in table : named[s] = t => s = sid
    BY <1>0, <1>6 DEF OnePublication
  <2>2. Waits(t)' /\ Answered(t)' /\ Streams(t)'
    BY <1>0, <1>2, <1>3, <1>4, WaitsStay, AnsweredStays, StreamsStay
  <2>3. Sends(t)'
    <3>1. ASSUME NEW x \in senders, named[x] = t
          PROVE  \E d \in Callers :
                   /\ d[1] = t /\ call'[d].sid = x
                   /\ \/ call'[d].at = "add_publication"
                      \/ call'[d].at = "remove_track"
      <4>1. CASE x \in table
        BY <1>6, <2>1, <3>1, <4>1
      <4>2. CASE x \notin table
        <5>1. PICK d \in Callers : /\ d[1] = t /\ call[d].sid = x
                                   /\ \/ At(d, "add_publication")
                                      \/ At(d, "remove_track")
          BY <1>0, <3>1, <4>2 DEF Sends
        <5>2. d # c
          BY <5>1 DEF At
        <5> QED
          BY <5>1, <5>2 DEF OnlyCall, At
      <4> QED
        BY <4>1, <4>2
    <3>2. \A x \in senders : named[x] = t =>
            IF x \in added THEN Newest(x)' ELSE NothingAdded(t)'
      BY <1>0 DEF Sends, Newest, NothingAdded
    <3> QED
      BY <3>1, <3>2 DEF Sends, At
  <2>4. Restored(t)'
    BY <2>1 DEF Restored
  <2> QED
    BY <2>2, <2>3, <2>4 DEF ServerTrack
<1> QED
  BY <1>5, <1>6

LEMMA TrackUnpublish ==
  ASSUME NEW t \in Tracks, Step(t), NEW u \in Tracks, UnpublishTrack(u)
  PROVE  ServerTrack(t)'
<1>1. PICK c \in Callers : c = <<u, App>> /\ c[1] = u
  BY CallersOfTracks
<1>2. PICK sid \in table :
        /\ named[sid] = u
        /\ table' = table \ {sid}
        /\ call' = [call EXCEPT ![c] = Working("remove_track", sid)]
  BY <1>1 DEF UnpublishTrack, RemovePublication
<1>3. /\ Types /\ At(c, "idle") /\ sid \in Sids
      /\ UNCHANGED <<named, added, streaming, room, session, snapshot,
                     fromServer, toServer, senders, pending, negotiate,
                     straddled>>
  BY <1>1, <1>2 DEF UnpublishTrack, Step, IInv, Types, engineVars, sessionVars,
                    serverVars, roomVars
<1>4. /\ OnlyCall(c) /\ call'[c].at = "remove_track" /\ call'[c].sid = sid
  BY <1>2, <1>3, CallStarts DEF Sids, Places
<1> QED
  BY <1>1, <1>2, <1>3, <1>4, TrackRemoved

LEMMA TrackRepublish ==
  ASSUME NEW t \in Tracks, Step(t), NEW c \in Callers, Republish(c)
  PROVE  ServerTrack(t)'
<1>1. /\ Types /\ SidOfCall /\ Busy /\ At(c, "unpublish")
      /\ UNCHANGED <<named, added, streaming, room, session, snapshot,
                     fromServer, toServer, senders, pending, negotiate,
                     straddled>>
  BY DEF Republish, Step, IInv, engineVars, sessionVars, serverVars, roomVars,
         historyVars
<1>2. CASE RemovePublication(call[c].sid) /\ Goto(c, "remove_track")
  <2>1. PICK sid \in table : sid = call[c].sid
    BY <1>2 DEF RemovePublication
  <2>2. named[sid] = c[1] /\ table' = table \ {sid}
    BY <1>1, <1>2, <2>1 DEF RemovePublication, SidOfCall
  <2>3. OnlyCall(c) /\ call'[c].at = "remove_track" /\ call'[c].sid = sid
    BY <1>1, <1>2, <2>1, CallGoes DEF Sids, Places
  <2> QED
    BY <1>1, <2>1, <2>2, <2>3, TrackRemoved
<1>3. CASE /\ call[c].sid \notin table
           /\ Goto(c, "add_track")
           /\ UNCHANGED table
  <2>1. OnlyCall(c)
    BY <1>1, <1>3, CallGoes DEF Sids, Places
  <2>2. t # c[1]
    BY <1>1, <1>3 DEF Busy, Step, Regular, At
  <2> QED
    BY <1>1, <1>3, <2>1, <2>2, TrackCallGoesOn
<1> QED
  BY <1>1, <1>2, <1>3 DEF Republish

LEMMA TrackRemoveTrack ==
  ASSUME NEW t \in Tracks, Step(t), NEW c \in Callers, RemoveTrack(c)
  PROVE  ServerTrack(t)'
<1>1. /\ Types /\ Busy /\ OwnTransceivers /\ At(c, "remove_track")
      /\ c[1] \in Tracks
      /\ pending \in [Tracks -> {Nobody} \cup Callers]
      /\ UNCHANGED <<named, added, streaming, room, session, snapshot,
                     fromServer, toServer, table, straddled>>
  BY CallersOfTracks
     DEF RemoveTrack, Step, IInv, Types, engineVars, serverVars, roomVars,
         historyVars
<1>2. OnlyCall(c) /\ call'[c].at \in {"idle", "add_track"}
  <2>1. Return(c) \/ Goto(c, "add_track")
    BY DEF RemoveTrack, Unpublished
  <2> QED
    BY <1>1, <2>1, CallReturns, CallGoes DEF Sids, Places
<1>3. MessagesStay(t)
  BY <1>1, MessagesUntouched
<1>4. CASE transceiver[c[1]] = NoSid /\ UNCHANGED sessionVars
  <2>1. t # c[1]
    BY <1>1, <1>4 DEF Busy, Step, Regular, At
  <2> QED
    BY <1>1, <1>2, <1>4, <2>1, TrackCallGoesOn DEF sessionVars
<1>5. CASE /\ transceiver[c[1]] # NoSid
           /\ Forget(c[1])
           /\ RemoveSender(c[1])
           /\ \/ negotiate' = TRUE
              \/ transceiver[c[1]] \notin senders /\ UNCHANGED negotiate
  <2>1. PICK x : x = transceiver[c[1]] /\ senders' = senders \ {x}
    BY <1>5 DEF RemoveSender
  <2>2. named[x] = c[1]
    BY <1>1, <1>5, <2>1 DEF OwnTransceivers
  <2>3. negotiate => negotiate'
    BY <1>5
  <2>4. CASE t # c[1]
    <3>1. NamesStay(t) /\ PublicationsStay(t) /\ CallsGoOn(t) /\ DuesStay(t)
      BY <1>1, <1>2, <2>4, OneCallGoesOn, OneCallDues
    <3>2. SendersStay(t) /\ TableStays(t)
      BY <1>1, <2>1, <2>2, <2>4 DEF SendersStay, TableStays
    <3>3. pending'[t] = pending[t]
      BY <1>1, <1>5, <2>4 DEF Forget
    <3> QED
      BY <1>1, <1>3, <2>3, <3>1, <3>2, <3>3, TrackStays
  <2>5. CASE t = c[1]
    <3>1. /\ \A d \in Callers : d[1] = t /\ d # c => At(d, "idle")
          /\ \A s \in table : named[s] # t
          /\ \A y \in senders : named[y] = t => y = call[c].sid
      BY <1>1, <2>5, AtWork DEF At
    <3>2. x = call[c].sid
      BY <1>1, <2>1, <2>5 DEF OwnTransceivers, Step, Regular
    <3>3. \A y \in senders' : named[y] # t
      BY <2>1, <3>1, <3>2
    <3>4. ~Waiting(t)
      BY <1>1, <3>1, WaitingIsOwn DEF At
    <3>5. Waits(t)'
      BY <1>1, <3>4, NoMessages DEF Waits
    <3>6. Answered(t)'
      BY <1>2, <3>1 DEF Answered, OnlyCall, At
    <3>7. Sends(t)'
      BY <1>1, <3>3 DEF Sends
    <3>8. Streams(t)'
      <4>1. negotiate' \/ (senders' = senders /\ negotiate' = negotiate)
        BY <1>5, <2>1
      <4> QED
        BY <1>1, <3>1, <4>1 DEF Streams, Step, ServerTrack
    <3>9. Restored(t)'
      BY <1>1, <3>1 DEF Restored
    <3> QED
      BY <3>5, <3>6, <3>7, <3>8, <3>9 DEF ServerTrack
  <2> QED
    BY <2>4, <2>5
<1> QED
  BY <1>4, <1>5 DEF RemoveTrack

LEMMA TrackServerAdds ==
  ASSUME NEW t \in Tracks, Step(t), ServerAddsTrack
  PROVE  ServerTrack(t)'
<1>1. PICK new, u : new = Len(named) + 1 /\ u = Head(toServer)
  OBVIOUS
<1>2. /\ Types /\ toServer # <<>> /\ toServer' = Tail(toServer)
      /\ named' = Append(named, u)
      /\ added' = added \cup {Len(named')}
      /\ fromServer' = Append(fromServer, Len(named'))
      /\ UNCHANGED <<streaming, call, room, session, snapshot, senders, table,
                     pending, negotiate, straddled>>
  BY <1>1 DEF ServerAddsTrack, Step, IInv, engineVars, sessionVars, objectVars,
              roomVars, historyVars
<1>3. /\ Len(named') = new /\ new \in Nat /\ new \notin Sids
      /\ u \in Tracks
      /\ named'[new] = u
      /\ \A s \in Sids : s \in Sids' /\ named'[s] = named[s] /\ s <= new
      /\ \A s \in Sids' : s \in Sids \/ s = new
  <2>1. named \in Seq(Tracks) /\ u \in Tracks
    BY <1>1, <1>2, SequenceTypes DEF Types
  <2>2. Len(named) \in Nat
    BY <2>1, LenProperties
  <2>3. /\ Len(named') = new /\ named'[new] = u
        /\ \A s \in Sids : named'[s] = named[s]
    BY <1>1, <1>2, <2>1, AppendProperties DEF Sids
  <2> QED
    BY <1>1, <2>1, <2>2, <2>3 DEF Sids
<1>4. /\ Len(toServer) \in Nat \ {0}
      /\ toServer[1] = u
      /\ Len(toServer') = Len(toServer) - 1
      /\ \A i \in 1..Len(toServer') : toServer'[i] = toServer[i + 1]
  <2>1. toServer \in Seq(Tracks)
    BY <1>2 DEF Types
  <2> QED
    BY <1>1, <1>2, <2>1, HeadTailProperties, LenProperties, EmptySeq
<1>5. /\ Len(fromServer) \in Nat
      /\ \A i \in 1..Len(fromServer') :
           \/ i \in 1..Len(fromServer) /\ fromServer'[i] = fromServer[i]
           \/ i = Len(fromServer) + 1 /\ fromServer'[i] = new
  <2>1. fromServer \in Seq(Nat)
    BY <1>2, SeqMonotonic DEF Types, Sids
  <2> QED
    BY <1>2, <1>3, <2>1, AppendProperties, LenProperties
<1>6. \A i \in 1..Len(fromServer) : fromServer[i] \in Sids
  BY <1>2, Numbers
<1>7. CASE t # u
  <2>1. NamesStay(t) /\ PublicationsStay(t) /\ SendersStay(t) /\ TableStays(t)
    BY <1>2, <1>3, <1>7
       DEF NamesStay, PublicationsStay, SendersStay, TableStays
  <2>2. CallsGoOn(t)
    BY <1>2 DEF CallsGoOn, CallGoesOn
  <2>3. DuesStay(t)
    <3>1. table \subseteq Sids
      BY <1>2 DEF Types
    <3> QED
      BY <1>2, <1>3, <3>1 DEF DuesStay, Due, At
  <2>4. MessagesStay(t)
    <3>1. \A i \in 1..Len(toServer') : toServer'[i] = t =>
            i + 1 \in 1..Len(toServer) /\ toServer[i + 1] = t
      BY <1>4
    <3>2. \A i \in 1..Len(fromServer') : named'[fromServer'[i]] = t =>
            i + 0 \in 1..Len(fromServer) /\ fromServer'[i] = fromServer[i + 0]
      BY <1>3, <1>5, <1>7
    <3> QED
      BY <3>1, <3>2 DEF MessagesStay
  <2> QED
    BY <1>2, <2>1, <2>2, <2>3, <2>4, TrackStays
<1>8. CASE t = u
  <2>1. /\ Waiting(t)
        /\ \A j \in 1..Len(toServer) : toServer[j] = t => j = 1
        /\ \A i \in 1..Len(fromServer) : named[fromServer[i]] # t
    BY <1>4, <1>8 DEF Step, ServerTrack, Waits
  <2>2. PICK c \in Callers : c[1] = t /\ At(c, "answer")
    BY <2>1, WaitingIsOwn
  <2>3. /\ \A d \in Callers : d[1] = t /\ d # c => At(d, "idle")
        /\ \A s \in table : named[s] # t
        /\ \A x \in senders : named[x] # t
    BY <2>2, AtWork DEF At
  <2>4. table \subseteq Sids /\ senders \subseteq Sids /\ added \subseteq Sids
        /\ streaming \subseteq Sids
    BY DEF Step, ServerTypes, IInv, Types
  <2>5. Waits(t)'
    <3>1. \A i \in 1..Len(toServer') : toServer'[i] # t
      BY <1>4, <2>1
    <3>2. Waiting(t)'
      BY <1>2, <2>1 DEF Waiting, At
    <3>3. \A i \in 1..Len(fromServer') : named'[fromServer'[i]] = t =>
            i = Len(fromServer) + 1 /\ fromServer'[i] = new
      BY <1>3, <1>5, <1>6, <2>1
    <3>4. Newest(new)'
      BY <1>2, <1>3, <2>4 DEF Newest
    <3>5. \A i \in 1..Len(fromServer') : fromServer'[i] = new =>
            Newest(fromServer[i])'
      BY <1>3, <3>4 DEF Newest
    <3>6. new \notin streaming'
      BY <1>2, <1>3, <2>4
    <3> QED
      BY <3>1, <3>2, <3>3, <3>5, <3>6 DEF Waits
  <2>6. Answered(t)'
    BY <1>2, <2>2, <2>3 DEF Answered, At
  <2>7. Sends(t)'
    BY <1>2, <1>3, <2>3, <2>4 DEF Sends
  <2>8. Streams(t)'
    <3>1. \A s \in streaming : named[s] = t => negotiate \/ s \in senders
      BY DEF Step, ServerTrack, Streams
    <3> QED
      BY <1>2, <1>3, <2>3, <2>4, <3>1 DEF Streams
  <2>9. Restored(t)'
    BY <1>2, <1>3, <2>3, <2>4 DEF Restored
  <2> QED
    BY <2>5, <2>6, <2>7, <2>8, <2>9 DEF ServerTrack
<1> QED
  BY <1>7, <1>8

LEMMA TrackAnswered ==
  ASSUME NEW t \in Tracks, Step(t), OnTrackPublished
  PROVE  ServerTrack(t)'
<1>1. PICK sid : sid = Head(fromServer)
  OBVIOUS
<1>2. PICK c : c = pending[named[sid]]
  OBVIOUS
<1>3. /\ Types /\ PendingOwn /\ fromServer # <<>>
      /\ fromServer' = Tail(fromServer)
      /\ Forget(named[sid])
      /\ call' = IF c # Nobody /\ At(c, "answer")
                 THEN [call EXCEPT ![c] = [at |-> "create_sender",
                                           sid |-> sid, session |-> session]]
                 ELSE call
      /\ UNCHANGED <<named, added, streaming, room, session, snapshot,
                     toServer, senders, table, negotiate, straddled>>
  BY <1>1, <1>2 DEF OnTrackPublished, Step, IInv, engineVars, objectVars,
                    roomVars, historyVars
<1>4. /\ Len(fromServer) \in Nat \ {0}
      /\ sid = fromServer[1]
      /\ Len(fromServer') = Len(fromServer) - 1
      /\ \A i \in 1..Len(fromServer') : fromServer'[i] = fromServer[i + 1]
  <2>1. fromServer \in Seq(Nat)
    BY <1>3, SeqMonotonic DEF Types, Sids
  <2> QED
    BY <1>1, <1>3, <2>1, HeadTailProperties, LenProperties, EmptySeq
<1>5. /\ sid \in Sids /\ named[sid] \in Tracks
      /\ c = Nobody \/ (c \in Callers /\ c[1] = named[sid])
  <2>1. sid \in Sids /\ named[sid] \in Tracks
    BY <1>3, <1>4, Numbers
  <2> QED
    BY <1>2, <1>3, <2>1 DEF Types, PendingOwn
<1>6. MessagesStay(t)
  <2>1. \A i \in 1..Len(toServer') : toServer'[i] = t =>
          i + 0 \in 1..Len(toServer) /\ toServer[i + 0] = t
    BY <1>3
  <2>2. \A i \in 1..Len(fromServer') : named'[fromServer'[i]] = t =>
          i + 1 \in 1..Len(fromServer) /\ fromServer'[i] = fromServer[i + 1]
    BY <1>4
  <2> QED
    BY <2>1, <2>2 DEF MessagesStay
<1>7. c # Nobody /\ At(c, "answer") =>
        /\ call'[c].at = "create_sender" /\ call'[c].sid = sid
        /\ call'[c].session = session
        /\ OnlyCall(c)
  BY <1>3, <1>5, CallAnswered DEF Sids, Types, CallType
<1>8. CASE t # named[sid]
  <2>1. \A d \in Callers : d[1] = t => call'[d] = call[d]
    <3>1. CASE c # Nobody /\ At(c, "answer")
      BY <1>5, <1>7, <1>8, <3>1 DEF OnlyCall
    <3>2. CASE ~(c # Nobody /\ At(c, "answer"))
      BY <1>3, <3>2
    <3> QED
      BY <3>1, <3>2
  <2>2. /\ NamesStay(t) /\ PublicationsStay(t) /\ SendersStay(t)
        /\ TableStays(t) /\ CallsGoOn(t)
    BY <1>3, <2>1
       DEF NamesStay, PublicationsStay, SendersStay, TableStays, CallsGoOn,
           CallGoesOn, Sids
  <2>3. DuesStay(t)
    BY <1>3, <2>1 DEF DuesStay, Due, At
  <2>4. pending'[t] = pending[t]
    BY <1>3, <1>8 DEF Forget, Types
  <2> QED
    BY <1>3, <1>6, <2>2, <2>3, <2>4, TrackStays
<1>9. CASE t = named[sid]
  <2>1. /\ Waiting(t)
        /\ \A j \in 1..Len(toServer) : toServer[j] # t
        /\ \A j \in 1..Len(fromServer) : named[fromServer[j]] = t => j = 1
        /\ Newest(sid)
        /\ sid \notin streaming
    BY <1>4, <1>9 DEF Step, ServerTrack, Waits
  <2>2. c \in Callers /\ c[1] = t /\ At(c, "answer") /\ c # Nobody
    BY <1>2, <1>9, <2>1, WaitingIsOwn DEF Waiting
  <2>3. /\ \A d \in Callers : d[1] = t /\ d # c => At(d, "idle")
        /\ \A s \in table : named[s] # t
        /\ \A x \in senders : named[x] # t
    BY <2>2, AtWork DEF At
  <2>4. Waits(t)'
    BY <1>3, <1>4, <2>1 DEF Waits
  <2>5. Answered(t)'
    <3>1. Newest(sid)'
      BY <1>3, <2>1 DEF Newest
    <3>2. \A d \in Callers : d[1] = t /\ d # c => call'[d].at = "idle"
      BY <1>7, <2>2, <2>3 DEF OnlyCall, At
    <3>3. Newest(call[c].sid)'
      BY <1>7, <2>2, <3>1 DEF Newest
    <3> QED
      BY <1>3, <1>7, <2>1, <2>2, <3>2, <3>3 DEF Answered, At
  <2>6. Sends(t)'
    BY <1>3, <2>3 DEF Sends
  <2>7. Streams(t)'
    BY <1>3 DEF Step, ServerTrack, Streams
  <2>8. Restored(t)'
    BY <1>3, <2>3 DEF Restored
  <2> QED
    BY <2>4, <2>5, <2>6, <2>7, <2>8 DEF ServerTrack
<1> QED
  BY <1>8, <1>9

\* The media sections are those of the transceivers that send; only a
\* publication that is not the newest, or whose transceiver is gone, stops.
LEMMA TrackNegotiate ==
  ASSUME NEW t \in Tracks, Step(t), Negotiate
  PROVE  ServerTrack(t)'
<1>1. /\ negotiate' = FALSE
      /\ streaming' = UNION {Latest(named[x]) : x \in senders}
      /\ added' = added \ (streaming \ streaming')
      /\ UNCHANGED <<named, call, room, session, snapshot, senders, table,
                     pending, toServer, fromServer, straddled>>
  BY DEF Negotiate, engineVars, objectVars, roomVars, historyVars
<1>2. /\ added \subseteq Sids /\ senders \subseteq Sids /\ Types /\ SidOfCall
      /\ Waits(t) /\ Answered(t) /\ Sends(t) /\ Streams(t) /\ Restored(t)
  BY DEF Step, ServerTypes, ServerTrack, IInv
<1>3. added' \subseteq added
  BY <1>1
<1>4. \A s \in streaming' : \E x \in senders :
        /\ named[s] = named[x] /\ s \in added
        /\ \A u \in added : named[u] = named[x] => u <= s
  BY <1>1 DEF Latest
<1>5. (\A x \in senders : named[x] # t) => \A s \in streaming' : named[s] # t
  BY <1>4
<1>6. \A x \in senders \cap added : named[x] = t =>
        Newest(x) /\ x \in streaming' /\ x \in added'
  <2> SUFFICES ASSUME NEW x \in senders \cap added, named[x] = t
               PROVE  Newest(x) /\ x \in streaming'
    BY <1>1
  <2>1. Newest(x)
    BY <1>2 DEF Sends
  <2>2. x \in Latest(named[x])
    BY <2>1 DEF Newest, Latest
  <2> QED
    BY <1>1, <2>1, <2>2
<1>7. NothingAdded(t) => NothingAdded(t)'
  BY <1>1, <1>3 DEF NothingAdded
<1>8. \A s \in added' : Newest(s) => Newest(s)'
  BY <1>1, <1>3 DEF Newest
<1>9. ASSUME NEW c \in Callers, c[1] = t,
             At(c, "answer") \/ At(c, "create_sender")
      PROVE  \A s \in streaming' : named[s] # t
  BY <1>5, <1>9, AtWork DEF At
<1>10. Waits(t)'
  <2>1. Waiting(t)' <=> Waiting(t)
    BY <1>1 DEF Waiting, At
  <2>2. ASSUME NEW i \in 1..Len(fromServer), named[fromServer[i]] = t
        PROVE  Newest(fromServer[i])' /\ fromServer[i] \notin streaming'
    <3>1. PICK s : s = fromServer[i]
      OBVIOUS
    <3>2. Waiting(t) /\ Newest(s) /\ s \notin streaming /\ named[s] = t
      BY <1>2, <2>2, <3>1 DEF Waits
    <3>3. s \notin streaming'
      BY <1>9, <3>2, WaitingIsOwn
    <3>4. s \in added'
      BY <1>1, <3>2 DEF Newest
    <3>5. Newest(s)'
      BY <1>8, <3>2, <3>4
    <3> QED
      BY <1>1, <3>1, <3>3, <3>5 DEF Newest
  <2> QED
    BY <1>1, <1>2, <2>1, <2>2 DEF Waits
<1>11. Answered(t)'
  <2>1. ASSUME NEW c \in Callers, c[1] = t, At(c, "create_sender")
        PROVE  /\ call[c].sid \notin streaming'
               /\ IF call[c].session = session THEN Newest(call[c].sid)'
                                               ELSE NothingAdded(t)'
    <3>1. PICK s : s = call[c].sid
      OBVIOUS
    <3>2. /\ s \notin streaming /\ named[s] = t
          /\ IF call[c].session = session THEN Newest(s) ELSE NothingAdded(t)
      BY <1>2, <2>1, <3>1 DEF Answered, SidOfCall
    <3>3. s \notin streaming'
      BY <1>9, <2>1, <3>2
    <3>4. Newest(s) => s \in added'
      BY <1>1, <3>2 DEF Newest
    <3>5. Newest(s)' => Newest(call[c].sid)'
      BY <1>1, <3>1 DEF Newest
    <3> QED
      BY <1>7, <1>8, <3>1, <3>2, <3>3, <3>4, <3>5
  <2>2. ASSUME NEW c \in Callers, c[1] = t, At(c, "add_publication"),
               call[c].session = session
        PROVE  call[c].sid \in senders \cap added'
    BY <1>2, <1>6, <2>2 DEF Answered, SidOfCall
  <2> QED
    BY <1>1, <2>1, <2>2 DEF Answered, At
<1>12. Sends(t)'
  <2>1. ASSUME NEW x \in senders, named[x] = t
        PROVE  IF x \in added' THEN Newest(x)' ELSE NothingAdded(t)'
    BY <1>2, <1>3, <1>6, <1>7, <1>8, <2>1 DEF Sends
  <2> QED
    BY <1>1, <1>2, <2>1 DEF Sends, At
<1>13. Streams(t)'
  <2>1. ASSUME NEW s \in streaming', named[s] = t PROVE s \in senders
    <3>1. PICK x \in senders : /\ named[x] = t /\ s \in added
                               /\ \A u \in added : named[u] = t => u <= s
      BY <1>4, <2>1
    <3>2. x \in added /\ Newest(x)
      BY <1>2, <2>1, <3>1 DEF Sends, NothingAdded
    <3>3. x <= s /\ s <= x /\ x \in Nat /\ s \in Nat
      BY <1>2, <2>1, <3>1, <3>2 DEF Newest, Sids
    <3> QED
      BY <3>1, <3>3
  <2>2. ASSUME NEW s \in table, named[s] = t, s \in senders \cap added'
        PROVE  s \in streaming'
    BY <1>3, <1>6, <2>2
  <2> QED
    BY <1>1, <2>1, <2>2 DEF Streams
<1>14. Restored(t)'
  <2>1. \A s : Due(s) => Due(s)'
    BY <1>1 DEF Due, At
  <2> QED
    BY <1>1, <1>2, <1>6, <2>1 DEF Restored
<1> QED
  BY <1>10, <1>11, <1>12, <1>13, <1>14 DEF ServerTrack

\* In a new session nothing is left of a track, and what is in the table is
\* still to be republished.
LEMMA TrackRestart ==
  ASSUME Types, OwnSessions, NEW t \in Tracks, Restart
  PROVE  ServerTrack(t)'
<1>1. /\ session' = session + 1 /\ session \in Nat
      /\ senders' = {} /\ toServer' = <<>> /\ fromServer' = <<>>
      /\ added' = {} /\ streaming' = {} /\ room' = "acknowledged"
      /\ UNCHANGED <<named, call, table>>
  BY DEF Restart, Types, objectVars
<1>2. Waits(t)' /\ Sends(t)' /\ Streams(t)' /\ Restored(t)'
  BY <1>1 DEF Waits, Sends, Streams, Restored, Due
<1>3. Answered(t)'
  <2>1. \A c \in Callers : At(c, "create_sender") \/ At(c, "add_publication") =>
          call[c].session # session'
    BY <1>1 DEF OwnSessions, Types, CallType
  <2>2. NothingAdded(t)'
    BY <1>1 DEF NothingAdded
  <2> QED
    BY <1>1, <2>1, <2>2 DEF Answered, At
<1> QED
  BY <1>2, <1>3 DEF ServerTrack

LEMMA TrackHandleRestarted ==
  ASSUME NEW t \in Tracks, Step(t), HandleRestarted
  PROVE  ServerTrack(t)'
<1>1. /\ Types /\ session \in Batches
      /\ snapshot' = [snapshot EXCEPT ![session] = table]
      /\ UNCHANGED <<named, added, streaming, call, session, senders, table,
                     pending, negotiate, straddled, toServer, fromServer>>
  BY DEF HandleRestarted, Step, IInv, OwnTurns, engineVars, sessionVars,
         serverVars, objectVars
<1>2. NamesStay(t) /\ PublicationsStay(t) /\ SendersStay(t) /\ TableStays(t)
  BY <1>1 DEF NamesStay, PublicationsStay, SendersStay, TableStays, Sids
<1>3. CallsGoOn(t)
  BY <1>1 DEF CallsGoOn, CallGoesOn
<1>4. MessagesStay(t)
  BY <1>1, MessagesUntouched
<1>5. DuesStay(t)
  <2>1. snapshot'[session] = table
    BY <1>1 DEF Types
  <2> QED
    BY <1>1, <2>1 DEF DuesStay, Due
<1> QED
  BY <1>1, <1>2, <1>3, <1>4, <1>5, TrackStays

LEMMA TrackSpawnRepublish ==
  ASSUME NEW t \in Tracks, Step(t), NEW n \in Batches, SpawnRepublish(n)
  PROVE  ServerTrack(t)'
<1>1. /\ Types
      /\ batch' # [batch EXCEPT ![n] = "panicked"]
      /\ UNCHANGED <<named, added, streaming, room, session, senders, table,
                     pending, negotiate, straddled, toServer, fromServer>>
  <2>1. batch' # [batch EXCEPT ![n] = "panicked"]
    <3> SUFFICES ASSUME batch' = [batch EXCEPT ![n] = "panicked"]
                 PROVE  FALSE
      OBVIOUS
    <3>1. ~Panicked' /\ batch'[n] = "panicked"
      BY DEF Step, Regular, BatchInv
    <3> QED
      BY <3>1 DEF Panicked
  <2> QED
    BY <2>1 DEF SpawnRepublish, Step, IInv, engineVars, sessionVars, serverVars,
                objectVars, historyVars
<1>2. PICK sid \in snapshot[n] :
        /\ At(<<named[sid], n>>, "idle")
        /\ call' = [call EXCEPT ![<<named[sid], n>>] =
                      Working("unpublish", sid)]
        /\ snapshot' = [snapshot EXCEPT ![n] = @ \ {sid}]
  BY <1>1 DEF SpawnRepublish
<1>3. PICK c \in Callers : c = <<named[sid], n>> /\ c[1] = named[sid]
  BY <1>1, <1>2, Numbers, CallersOfTracks DEF Types
<1>4. sid \in Sids
  BY <1>1, <1>2 DEF Types
<1>5. call'[c].at = "unpublish" /\ OnlyCall(c) /\ At(c, "idle")
  BY <1>1, <1>2, <1>3, <1>4, CallStarts DEF Sids, Places
<1>6. CallGoesOn(c)
  BY <1>5 DEF CallGoesOn, At
<1>7. /\ NamesStay(t) /\ PublicationsStay(t) /\ CallsGoOn(t)
      /\ SendersStay(t) /\ TableStays(t) /\ MessagesStay(t)
  BY <1>1, <1>5, <1>6, OneCallGoesOn, MessagesUntouched
     DEF SendersStay, TableStays
<1>8. DuesStay(t)
  <2> SUFFICES ASSUME NEW s, Due(s) PROVE Due(s)'
    BY DEF DuesStay
  <2>1. CASE room = "acknowledged"
    BY <1>1, <2>1 DEF Due
  <2>2. CASE s = sid
    BY <1>1, <1>3, <1>5, <2>2 DEF Due, At
  <2>3. CASE session \in Batches /\ s \in snapshot[session] /\ s # sid
    <3>1. s \in snapshot'[session]
      BY <1>1, <1>2, <2>3 DEF Types
    <3> QED
      BY <1>1, <2>3, <3>1 DEF Due
  <2>4. ASSUME NEW d \in Callers, d[1] = named[s], At(d, "unpublish")
        PROVE  Due(s)'
    <3>1. call'[d].at = "unpublish"
      BY <1>5, <2>4 DEF OnlyCall, At
    <3> QED
      BY <1>1, <2>4, <3>1 DEF Due, At
  <2> QED
    BY <2>1, <2>2, <2>3, <2>4 DEF Due
<1> QED
  BY <1>1, <1>7, <1>8, TrackStays

-----------------------------------------------------------------------------
(***************************************************************************)
(* The invariant of the server and the room                                *)
(***************************************************************************)

\* What each step leaves of the histories and the session.
LEMMA NextHistory ==
  ASSUME session \in Nat, [Next]_vars
  PROVE  /\ raced \subseteq raced'
         /\ session <= session'
         /\ Restart \/ (unanswered \subseteq unanswered' /\ session' = session)
<1> USE DEF engineVars, historyVars
<1>1. CASE UNCHANGED <<session, raced, unanswered>>
  BY <1>1
<1>2. ASSUME NEW c \in Callers, TrackTimeout(c)
      PROVE  UNCHANGED <<session, raced>> /\ unanswered \subseteq unanswered'
  <2>1. GiveUp(c) /\ UNCHANGED <<engineVars, raced>>
    BY <1>2, TimesOut
  <2> QED
    BY <2>1 DEF GiveUp
<1>3. ASSUME NEW c \in Callers, Cancel(c)
      PROVE  UNCHANGED <<session, raced>> /\ unanswered \subseteq unanswered'
  BY <1>3 DEF Cancel, GiveUp
<1>4. ASSUME NEW c \in Callers,
             AddTrack(c) \/ CreateSender(c) \/ AddPublication(c)
               \/ EngineClosed(c) \/ Republish(c) \/ RemoveTrack(c)
      PROVE  UNCHANGED <<session, raced, unanswered>>
  BY <1>4 DEF AddTrack, CreateSender, AddPublication, EngineClosed, Republish,
              RemoveTrack
<1>5. ASSUME NEW t \in Tracks, PublishTrack(t) \/ UnpublishTrack(t)
      PROVE  raced \subseteq raced' /\ UNCHANGED <<session, unanswered>>
  BY <1>5 DEF PublishTrack, UnpublishTrack
<1>6. CASE ServerAddsTrack \/ OnTrackPublished \/ Negotiate \/ LoseConnection
  BY <1>1, <1>6 DEF ServerAddsTrack, OnTrackPublished, Negotiate, LoseConnection
<1>7. CASE ReconnectionNeeded \/ ReconnectTask \/ Resume \/ ReleaseLock
           \/ EngineClose
  BY <1>1, <1>7
     DEF ReconnectionNeeded, ReconnectTask, Resume, ReleaseLock, EngineClose
<1>8. CASE Restart
  BY <1>8 DEF Restart
<1>9. CASE RoomStep
  <2>1. raced \subseteq raced' /\ UNCHANGED <<session, unanswered>>
    BY <1>9 DEF RoomStep, HandleRestarted, SpawnRepublish, Reconnected
  <2> QED
    BY <2>1
<1>10. CASE UNCHANGED vars
  BY <1>1, <1>10 DEF vars
<1> QED
  BY <1>2, <1>3, <1>4, <1>5, <1>6, <1>7, <1>8, <1>9, <1>10
     DEF Next, Progress, CallStep, EngineStep

LEMMA NextServerTypes ==
  ASSUME IInv, Types', ServerTypes, [Next]_vars
  PROVE  ServerTypes'
<1> USE DEF engineVars, sessionVars, serverVars
<1>0. Types /\ SidOfCall
  BY DEF IInv
<1>1. CASE UNCHANGED <<senders, added, streaming, negotiate, named, session>>
  BY <1>1 DEF ServerTypes, Sids
<1>2. ASSUME NEW c \in Callers, CreateSender(c) PROVE ServerTypes'
  <2>1. call[c].sid \in Sids
    BY <1>0, <1>2 DEF CreateSender, SidOfCall
  <2> QED
    BY <1>2, <2>1 DEF CreateSender, ServerTypes, Sids
<1>3. ASSUME NEW c \in Callers, AddPublication(c) \/ RemoveTrack(c)
      PROVE  ServerTypes'
  BY <1>3 DEF AddPublication, RemoveTrack, RemoveSender, ServerTypes, Sids
<1>4. CASE ServerAddsTrack
  <2>1. Len(named') = Len(named) + 1 /\ Len(named) \in Nat
    BY <1>0, <1>4, AppendProperties, LenProperties, SequenceTypes
       DEF ServerAddsTrack, Types
  <2>2. Sids \subseteq Sids' /\ Len(named') \in Sids'
    BY <2>1 DEF Sids
  <2>3. /\ UNCHANGED <<senders, streaming, negotiate, session>>
        /\ added' = added \cup {Len(named')}
    BY <1>4 DEF ServerAddsTrack
  <2> QED
    BY <2>2, <2>3 DEF ServerTypes
<1>5. CASE Negotiate
  BY <1>5 DEF Negotiate, Latest, ServerTypes, Sids
<1>6. CASE Restart
  BY <1>0, <1>6 DEF Restart, ServerTypes, Types
<1>7. ASSUME NEW c \in Callers, TrackTimeout(c) PROVE ServerTypes'
  BY <1>1, <1>7, TimesOut
<1>8. ASSUME NEW c \in Callers,
             AddTrack(c) \/ EngineClosed(c) \/ Republish(c) \/ Cancel(c)
      PROVE  ServerTypes'
  BY <1>1, <1>8 DEF AddTrack, EngineClosed, Republish, Cancel
<1>9. ASSUME NEW t \in Tracks, PublishTrack(t) \/ UnpublishTrack(t)
      PROVE  ServerTypes'
  BY <1>1, <1>9 DEF PublishTrack, UnpublishTrack
<1>10. CASE OnTrackPublished \/ LoseConnection \/ RoomStep
  BY <1>1, <1>10
     DEF OnTrackPublished, LoseConnection, RoomStep, HandleRestarted,
         SpawnRepublish, Reconnected
<1>11. CASE ReconnectionNeeded \/ ReconnectTask \/ Resume \/ ReleaseLock
            \/ EngineClose
  BY <1>1, <1>11
     DEF ReconnectionNeeded, ReconnectTask, Resume, ReleaseLock, EngineClose
<1>12. CASE UNCHANGED vars
  BY <1>1, <1>12 DEF vars
<1> QED
  BY <1>2, <1>3, <1>4, <1>5, <1>6, <1>7, <1>8, <1>9, <1>10, <1>11, <1>12
     DEF Next, Progress, CallStep, EngineStep

LEMMA NextOwnTurns ==
  ASSUME BatchInv, Types, ServerTypes, OwnTurns, [Next]_vars
  PROVE  OwnTurns'
<1> USE DEF engineVars, roomVars
<1>0. MaxSessions \in Nat /\ session \in Nat \ {0}
  <2>1. MaxSessions \in Nat
    BY LocalMediaAssumption
  <2> QED
    BY <2>1 DEF ServerTypes
<1>1. CASE UNCHANGED <<batch, snapshot, room, session>>
  BY <1>1 DEF OwnTurns
<1>2. CASE Restart
  <2>1. session' \in Batches
    BY <1>0, <1>2 DEF Restart, Batches
  <2> QED
    BY <1>2, <2>1 DEF Restart, OwnTurns
<1>3. CASE HandleRestarted
  <2>1. \A n \in Batches : n # session =>
          batch'[n] = batch[n] /\ snapshot'[n] = snapshot[n]
    BY <1>3 DEF HandleRestarted, BatchInv, Types
  <2>2. session \in Batches => batch'[session] = "running"
    BY <1>3 DEF HandleRestarted, BatchInv
  <2> QED
    BY <1>3, <2>1, <2>2 DEF HandleRestarted, OwnTurns
<1>4. ASSUME NEW n \in Batches, SpawnRepublish(n) PROVE OwnTurns'
  <2>1. /\ batch[n] = "running" /\ UNCHANGED <<room, session>>
        /\ \/ /\ batch' = [batch EXCEPT ![n] = "panicked"]
              /\ snapshot' = [snapshot EXCEPT ![n] = {}]
           \/ /\ \E sid : snapshot' = [snapshot EXCEPT ![n] = @ \ {sid}]
              /\ UNCHANGED batch
    BY <1>4 DEF SpawnRepublish
  <2> QED
    BY <2>1 DEF OwnTurns, BatchInv, Types
<1>5. ASSUME NEW n \in Batches, Reconnected(n) PROVE OwnTurns'
  BY <1>5 DEF Reconnected, AllRepublished, OwnTurns, BatchInv
<1>6. ASSUME NEW c \in Callers, TrackTimeout(c) PROVE OwnTurns'
  BY <1>1, <1>6, TimesOut
<1>7. ASSUME NEW c \in Callers,
             AddTrack(c) \/ CreateSender(c) \/ AddPublication(c)
               \/ EngineClosed(c) \/ Republish(c) \/ RemoveTrack(c)
               \/ Cancel(c)
      PROVE  OwnTurns'
  BY <1>1, <1>7
     DEF AddTrack, CreateSender, AddPublication, EngineClosed, Republish,
         RemoveTrack, Cancel
<1>8. ASSUME NEW t \in Tracks, PublishTrack(t) \/ UnpublishTrack(t)
      PROVE  OwnTurns'
  BY <1>1, <1>8 DEF PublishTrack, UnpublishTrack
<1>9. CASE ServerAddsTrack \/ OnTrackPublished \/ Negotiate \/ LoseConnection
  BY <1>1, <1>9 DEF ServerAddsTrack, OnTrackPublished, Negotiate, LoseConnection
<1>10. CASE ReconnectionNeeded \/ ReconnectTask \/ Resume \/ ReleaseLock
            \/ EngineClose
  BY <1>1, <1>10
     DEF ReconnectionNeeded, ReconnectTask, Resume, ReleaseLock, EngineClose
<1>11. CASE UNCHANGED vars
  BY <1>1, <1>11 DEF vars
<1> QED
  BY <1>2, <1>3, <1>4, <1>5, <1>6, <1>7, <1>8, <1>9, <1>10, <1>11
     DEF Next, Progress, CallStep, EngineStep, RoomStep

\* Calls that do not come to a place that these parts speak of.
LEMMA OwnStays ==
  ASSUME OwnSessions, OwnTransceivers, NEW c \in Callers, OnlyCall(c),
         call'[c].at \notin {"create_sender", "add_publication",
                             "remove_track"},
         UNCHANGED <<transceiver, named, session>>, raced \subseteq raced'
  PROVE  OwnSessions' /\ OwnTransceivers'
<1>1. OwnSessions'
  BY DEF OwnSessions, OnlyCall, At
<1>2. OwnTransceivers'
  BY DEF OwnTransceivers, OnlyCall, At
<1> QED
  BY <1>1, <1>2

LEMMA OwnUntouched ==
  ASSUME OwnSessions, OwnTransceivers, Types, session' \in Nat,
         session <= session', raced \subseteq raced',
         UNCHANGED <<call, transceiver, named>>
  PROVE  OwnSessions' /\ OwnTransceivers'
<1>1. OwnSessions'
  BY DEF OwnSessions, At, Types, CallType
<1>2. OwnTransceivers'
  BY DEF OwnTransceivers, At
<1> QED
  BY <1>1, <1>2

\* A call takes a publication from the table: its transceiver is that of the
\* track.
LEMMA OwnRemoves ==
  ASSUME IInv, OwnSessions, OwnTransceivers, NEW c \in Callers, OnlyCall(c),
         NEW sid \in table, named[sid] = c[1],
         call'[c].at = "remove_track", call'[c].sid = sid,
         UNCHANGED <<transceiver, named, session>>, raced \subseteq raced'
  PROVE  OwnSessions' /\ OwnTransceivers'
<1>1. OwnSessions'
  BY DEF OwnSessions, OnlyCall, At
<1>2. c[1] \notin raced' => transceiver[c[1]] = sid
  BY DEF IInv, OnePublication
<1>3. OwnTransceivers'
  BY <1>2 DEF OwnTransceivers, OnlyCall, At
<1> QED
  BY <1>1, <1>3

LEMMA NextOwn ==
  ASSUME IInv, Types', OwnSessions, OwnTransceivers, [Next]_vars
  PROVE  OwnSessions' /\ OwnTransceivers'
<1> USE DEF engineVars, serverVars, objectVars, Sids, Places
<1>0. /\ Types /\ SidOfCall /\ Alone /\ Busy
      /\ session \in Nat /\ session' \in Nat
      /\ session <= session' /\ raced \subseteq raced'
      /\ transceiver \in [Tracks -> {NoSid} \cup Sids]
  BY NextHistory DEF IInv, Types
<1> DEFINE Goal == OwnSessions' /\ OwnTransceivers'
<1>1. ASSUME NEW t \in Tracks, PublishTrack(t) PROVE Goal
  <2>1. PICK c \in Callers : c = <<t, App>>
    BY CallersOfTracks
  <2>2. /\ Goto(c, "add_track") /\ UNCHANGED <<transceiver, named, session>>
    BY <1>1, <2>1 DEF PublishTrack
  <2> QED
    BY <1>0, <2>2, CallGoes, OwnStays
<1>2. ASSUME NEW t \in Tracks, UnpublishTrack(t) PROVE Goal
  <2>1. PICK c \in Callers : c = <<t, App>> /\ c[1] = t
    BY CallersOfTracks
  <2>2. PICK sid \in table :
          /\ named[sid] = t
          /\ call' = [call EXCEPT ![c] = Working("remove_track", sid)]
    BY <1>2, <2>1 DEF UnpublishTrack
  <2>3. UNCHANGED <<transceiver, named, session>> /\ sid \in Sids
    BY <1>0, <1>2, <2>2 DEF UnpublishTrack, Types
  <2> QED
    BY <1>0, <2>1, <2>2, <2>3, CallStarts, OwnRemoves
<1>3. ASSUME NEW c \in Callers, AddTrack(c) PROVE Goal
  <2>1. /\ Return(c) \/ Goto(c, "answer")
        /\ UNCHANGED <<transceiver, named, session>>
    BY <1>3 DEF AddTrack
  <2> QED
    BY <1>0, <2>1, CallReturns, CallGoes, OwnStays
<1>4. ASSUME NEW c \in Callers,
             TrackTimeout(c) \/ EngineClosed(c) \/ Cancel(c)
      PROVE  Goal
  <2>1. Return(c) /\ UNCHANGED <<transceiver, named, session>>
    BY <1>4, TimesOut DEF EngineClosed, Cancel
  <2> QED
    BY <1>0, <2>1, CallReturns, OwnStays
<1>5. ASSUME NEW c \in Callers, CreateSender(c) PROVE Goal
  <2>1. UNCHANGED <<transceiver, named, session>> /\ At(c, "create_sender")
    BY <1>5 DEF CreateSender
  <2>2. CASE Return(c)
    BY <1>0, <2>1, <2>2, CallReturns, OwnStays
  <2>3. CASE Goto(c, "add_publication")
    <3>1. OnlyCall(c) /\ call'[c].at = "add_publication"
      BY <1>0, <2>1, <2>3, CallGoes
    <3>2. call'[c].session = call[c].session
      BY <1>0, <2>3 DEF Goto, Types, CallType
    <3>3. OwnSessions'
      BY <2>1, <3>1, <3>2 DEF OwnSessions, OnlyCall, At
    <3>4. OwnTransceivers'
      BY <1>0, <2>1, <3>1 DEF OwnTransceivers, OnlyCall, At
    <3> QED
      BY <3>3, <3>4
  <2> QED
    BY <1>5, <2>2, <2>3 DEF CreateSender
<1>6. ASSUME NEW c \in Callers, AddPublication(c) PROVE Goal
  <2>1. /\ Return(c) /\ At(c, "add_publication")
        /\ transceiver' = [transceiver EXCEPT ![c[1]] = call[c].sid]
        /\ UNCHANGED <<named, session, raced>>
    BY <1>6 DEF AddPublication
  <2>2. OnlyCall(c) /\ call'[c].at = "idle"
    BY <1>0, <2>1, CallReturns
  <2>3. named[call[c].sid] = c[1] /\ c[1] \in Tracks
    BY <1>0, <2>1, CallersOfTracks DEF SidOfCall
  <2>4. \A d \in Callers : d # c /\ d[1] = c[1] /\ At(d, "remove_track") =>
          d[1] \in raced
    BY <1>0, <2>1 DEF Alone, At
  <2>5. transceiver'[c[1]] = call[c].sid
        /\ \A t \in Tracks : t # c[1] => transceiver'[t] = transceiver[t]
    BY <1>0, <2>1, <2>3
  <2>6. OwnSessions'
    BY <2>1, <2>2 DEF OwnSessions, OnlyCall, At
  <2>7. OwnTransceivers'
    BY <2>1, <2>2, <2>3, <2>4, <2>5, CallersOfTracks
       DEF OwnTransceivers, OnlyCall, At
  <2> QED
    BY <2>6, <2>7
<1>7. ASSUME NEW c \in Callers, Republish(c) PROVE Goal
  <2>1. /\ At(c, "unpublish") /\ UNCHANGED <<transceiver, named, session>>
        /\ named[call[c].sid] = c[1]
    BY <1>0, <1>7 DEF Republish, SidOfCall
  <2>2. CASE call[c].sid \in table /\ Goto(c, "remove_track")
    BY <1>0, <2>1, <2>2, CallGoes, OwnRemoves
  <2>3. CASE Goto(c, "add_track")
    BY <1>0, <2>1, <2>3, CallGoes, OwnStays
  <2> QED
    BY <1>7, <2>2, <2>3 DEF Republish, RemovePublication
<1>8. ASSUME NEW c \in Callers, RemoveTrack(c) PROVE Goal
  <2>1. /\ Return(c) \/ Goto(c, "add_track")
        /\ At(c, "remove_track")
        /\ transceiver' \in {transceiver, [transceiver EXCEPT ![c[1]] = NoSid]}
        /\ UNCHANGED <<named, session, raced>>
    BY <1>8 DEF RemoveTrack, Unpublished, historyVars
  <2>2. OnlyCall(c) /\ call'[c].at \in {"idle", "add_track"}
    BY <1>0, <2>1, CallReturns, CallGoes
  <2>3. \A d \in Callers : d # c /\ d[1] = c[1] /\ At(d, "remove_track") =>
          d[1] \in raced
    BY <1>0, <2>1 DEF Alone, At
  <2>4. /\ transceiver'[c[1]] \in {NoSid, transceiver[c[1]]}
        /\ \A t \in Tracks : t # c[1] => transceiver'[t] = transceiver[t]
    BY <1>0, <2>1, CallersOfTracks
  <2>5. OwnSessions'
    BY <2>1, <2>2 DEF OwnSessions, OnlyCall, At
  <2>6. OwnTransceivers'
    BY <2>1, <2>2, <2>3, <2>4, CallersOfTracks
       DEF OwnTransceivers, OnlyCall, At
  <2> QED
    BY <2>5, <2>6
<1>9. CASE ServerAddsTrack
  <2>1. /\ UNCHANGED <<call, transceiver, session, raced>>
        /\ named' = Append(named, Head(toServer)) /\ toServer # <<>>
    BY <1>9 DEF ServerAddsTrack, historyVars
  <2>2. \A s \in Sids : named'[s] = named[s]
    BY <1>0, <2>1, AppendProperties, SequenceTypes DEF Types
  <2>3. OwnSessions'
    BY <2>1 DEF OwnSessions, At
  <2>4. OwnTransceivers'
    <3>1. \A t \in Tracks : transceiver[t] # NoSid =>
            named'[transceiver[t]] = t
      BY <1>0, <2>2 DEF OwnTransceivers
    <3> QED
      BY <2>1, <3>1 DEF OwnTransceivers, At
  <2> QED
    BY <2>3, <2>4
<1>10. CASE OnTrackPublished
  <2>1. PICK sid : sid = Head(fromServer)
    OBVIOUS
  <2>2. PICK c : c = pending[named[sid]]
    OBVIOUS
  <2>3. /\ UNCHANGED <<transceiver, named, session, raced>>
        /\ fromServer # <<>>
        /\ call' = IF c # Nobody /\ At(c, "answer")
                   THEN [call EXCEPT ![c] = [at |-> "create_sender",
                                             sid |-> sid, session |-> session]]
                   ELSE call
    BY <1>10, <2>1, <2>2 DEF OnTrackPublished, historyVars
  <2>4. CASE c # Nobody /\ At(c, "answer")
    <3>1. sid \in Sids /\ c \in Callers
      <4>1. sid \in Sids /\ named[sid] \in Tracks
        BY <1>0, <2>1, <2>3, SequenceTypes, Numbers DEF Types
      <4> QED
        BY <1>0, <2>2, <2>4, <4>1 DEF Types
    <3>2. /\ OnlyCall(c) /\ call'[c].at = "create_sender"
          /\ call'[c].session = session
      BY <1>0, <2>3, <2>4, <3>1, CallAnswered DEF Types, CallType
    <3>3. OwnSessions'
      BY <1>0, <2>3, <3>2 DEF OwnSessions, OnlyCall, At
    <3>4. OwnTransceivers'
      BY <2>3, <3>2 DEF OwnTransceivers, OnlyCall, At
    <3> QED
      BY <3>3, <3>4
  <2>5. CASE ~(c # Nobody /\ At(c, "answer"))
    BY <1>0, <2>3, <2>5, OwnUntouched
  <2> QED
    BY <2>4, <2>5
<1>11. ASSUME NEW n \in Batches, SpawnRepublish(n) PROVE Goal
  <2>1. PICK sid \in snapshot[n] :
          \/ UNCHANGED call
          \/ call' = [call EXCEPT ![<<named[sid], n>>] =
                        Working("unpublish", sid)]
    BY <1>11 DEF SpawnRepublish
  <2>2. UNCHANGED <<transceiver, named, session>>
    BY <1>11 DEF SpawnRepublish
  <2>3. sid \in Sids /\ named[sid] \in Tracks
    BY <1>0, <2>1, Numbers DEF Types
  <2>4. PICK c \in Callers : c = <<named[sid], n>>
    BY <2>3, CallersOfTracks
  <2>5. CASE UNCHANGED call
    BY <1>0, <2>2, <2>5, OwnUntouched
  <2>6. CASE call' = [call EXCEPT ![c] = Working("unpublish", sid)]
    BY <1>0, <2>2, <2>3, <2>6, CallStarts, OwnStays
  <2> QED
    BY <2>1, <2>4, <2>5, <2>6
<1>12. CASE Negotiate \/ LoseConnection \/ ReconnectionNeeded \/ ReconnectTask
            \/ Resume \/ Restart \/ ReleaseLock \/ EngineClose
            \/ HandleRestarted \/ \E n \in Batches : Reconnected(n)
  <2>1. UNCHANGED <<call, transceiver, named>>
    BY <1>12
       DEF Negotiate, LoseConnection, ReconnectionNeeded, ReconnectTask,
           Resume, Restart, ReleaseLock, EngineClose, HandleRestarted,
           Reconnected
  <2> QED
    BY <1>0, <2>1, OwnUntouched
<1>13. CASE UNCHANGED vars
  BY <1>0, <1>13, OwnUntouched DEF vars
<1> QED
  BY <1>1, <1>2, <1>3, <1>4, <1>5, <1>6, <1>7, <1>8, <1>9, <1>10, <1>11,
     <1>12, <1>13
     DEF Next, Progress, CallStep, EngineStep, RoomStep

\* A step at the end of which a track is regular found it regular, unless it
\* began a new session.
LEMMA TrackParts ==
  ASSUME IInv, BatchInv, ServerInv, Types', ServerTypes', [Next]_vars,
         NEW t \in Tracks, Regular(t)'
  PROVE  ServerTrack(t)'
<1>0. Types /\ OwnSessions /\ session \in Nat
  BY DEF IInv, Types, ServerInv
<1>1. CASE Restart
  BY <1>0, <1>1, TrackRestart
<1>2. CASE ~Restart
  <2>1. Regular(t)
    <3>1. raced \subseteq raced' /\ unanswered \subseteq unanswered'
      BY <1>0, <1>2, NextHistory
    <3>2. Panicked => Panicked'
      BY PanicStays
    <3> QED
      BY <3>1, <3>2 DEF Regular
  <2>2. Step(t)
    BY <2>1 DEF Step, ServerInv
  <2> USE DEF engineVars, sessionVars, serverVars, objectVars, roomVars,
              historyVars
  <2>3. ASSUME NEW c \in Callers, CallStep(c) \/ Cancel(c)
        PROVE  ServerTrack(t)'
    BY <2>2, <2>3, TrackAddTrack, TrackTimesOut, TrackCreateSender,
       TrackAddPublication, TrackEngineClosed, TrackRepublish,
       TrackRemoveTrack, TrackCancels
       DEF CallStep
  <2>4. ASSUME NEW u \in Tracks, PublishTrack(u) \/ UnpublishTrack(u)
        PROVE  ServerTrack(t)'
    BY <2>2, <2>4, TrackPublish, TrackUnpublish
  <2>5. CASE ServerAddsTrack \/ OnTrackPublished \/ Negotiate
    BY <2>2, <2>5, TrackServerAdds, TrackAnswered, TrackNegotiate
  <2>6. CASE HandleRestarted
    BY <2>2, <2>6, TrackHandleRestarted
  <2>7. ASSUME NEW n \in Batches, SpawnRepublish(n) PROVE ServerTrack(t)'
    BY <2>2, <2>7, TrackSpawnRepublish
  <2>8. CASE LoseConnection \/ ReconnectionNeeded \/ ReconnectTask \/ Resume
             \/ ReleaseLock \/ EngineClose
             \/ \E n \in Batches : Reconnected(n)
    BY <2>2, <2>8, TrackUntouched
       DEF LoseConnection, ReconnectionNeeded, ReconnectTask, Resume,
           ReleaseLock, EngineClose, Reconnected
  <2>9. CASE UNCHANGED vars
    BY <2>2, <2>9, TrackUntouched DEF vars
  <2> QED
    BY <1>2, <2>3, <2>4, <2>5, <2>6, <2>7, <2>8, <2>9
       DEF Next, Progress, EngineStep, RoomStep
<1> QED
  BY <1>1, <1>2

LEMMA NextServer ==
  IInv /\ BatchInv /\ ServerInv /\ [Next]_vars => ServerInv'
<1> SUFFICES ASSUME IInv, BatchInv, ServerInv, [Next]_vars PROVE ServerInv'
  OBVIOUS
<1>1. /\ Types /\ ServerTypes /\ OwnSessions /\ OwnTransceivers /\ OwnTurns
      /\ Types'
  <2>1. IInv'
    BY NextInv
  <2> QED
    BY <2>1 DEF IInv, ServerInv
<1>2. ServerTypes'
  BY <1>1, NextServerTypes
<1>3. OwnSessions' /\ OwnTransceivers' /\ OwnTurns'
  BY <1>1, NextOwn, NextOwnTurns
<1>4. \A t \in Tracks : Regular(t)' => ServerTrack(t)'
  BY <1>1, <1>2, TrackParts
<1> QED
  BY <1>2, <1>3, <1>4 DEF ServerInv

LEMMA InitServer == Init => ServerInv
<1> SUFFICES ASSUME Init PROVE ServerInv
  OBVIOUS
<1>1. \A c \in Callers : At(c, "idle")
  BY DEF Init, At, Idle, Working
<1>2. ServerTypes
  <2>1. session \in Nat \ {0} /\ senders = {} /\ added = {} /\ streaming = {}
    BY DEF Init
  <2>2. negotiate \in BOOLEAN
    BY Zenon DEF Init
  <2> QED
    BY <2>1, <2>2 DEF ServerTypes
<1>3. OwnSessions /\ OwnTransceivers
  BY <1>1 DEF Init, OwnSessions, OwnTransceivers, At
<1>4. OwnTurns
  BY DEF Init, OwnTurns
<1>5. /\ Len(toServer) = 0 /\ Len(fromServer) = 0
      /\ senders = {} /\ streaming = {} /\ table = {}
  BY DEF Init
<1>6. \A t \in Tracks : Waits(t) /\ Answered(t)
  BY <1>1, <1>5 DEF Waits, Answered, At
<1>7. \A t \in Tracks : Sends(t) /\ Streams(t) /\ Restored(t)
  BY <1>5 DEF Sends, Streams, Restored
<1> QED
  BY <1>2, <1>3, <1>4, <1>6, <1>7 DEF ServerInv, ServerTrack

\* When nothing is under way the room has the publications that the server
\* forwards, for any number of tracks, sessions, calls and faults, but for
\* those that ServerAgrees names: what the restart, the republishing task, the
\* negotiation and the answers leave behind is never more.
THEOREM RoomAgreesWithServer == Spec => []ServerAgrees
<1>1. Init => IInv /\ BatchInv /\ ServerInv
  <2> SUFFICES ASSUME Init PROVE BatchInv
    BY InitInv, InitServer
  <2> QED
    BY DEF Init, BatchInv
<1>2. IInv /\ BatchInv /\ ServerInv /\ [Next]_vars
      => IInv' /\ BatchInv' /\ ServerInv'
  BY NextInv, NextBatchInv, NextServer
<1>3. IInv /\ ServerInv => ServerAgrees
  <2> SUFFICES ASSUME IInv, ServerInv, Settled,
                      NEW s \in Sids, s \notin straddled,
                      named[s] \notin raced \cup unanswered, ~Panicked
               PROVE  s \in table <=> s \in streaming
    BY DEF ServerAgrees, Sids
  <2>1. PICK t \in Tracks : t = named[s]
    BY Numbers DEF IInv
  <2>2. Sends(t) /\ Streams(t) /\ Restored(t) /\ OwnTurns
    BY <2>1 DEF ServerInv, ServerTrack, Regular
  <2>3. ~negotiate /\ room = "idle" /\ \A c \in Callers : At(c, "idle")
    BY DEF Settled
  <2>4. ~Due(s)
    <3>1. session \in Batches => snapshot[session] = {}
      BY <2>2 DEF Settled, OwnTurns
    <3> QED
      BY <2>3, <3>1 DEF Due, At
  <2>5. ASSUME s \in table PROVE s \in streaming
    <3>1. s \in senders \cap added
      BY <2>1, <2>2, <2>4, <2>5 DEF Restored
    <3> QED
      BY <2>1, <2>2, <2>3, <2>5, <3>1 DEF Streams
  <2>6. ASSUME s \in streaming PROVE s \in table
    <3>1. s \in senders
      BY <2>1, <2>2, <2>3, <2>6 DEF Streams
    <3> QED
      BY <2>1, <2>2, <2>3, <3>1 DEF Sends, At
  <2> QED
    BY <2>5, <2>6
<1> QED
  BY <1>1, <1>2, <1>3, PTL DEF Spec

-----------------------------------------------------------------------------
(***************************************************************************)
(* TracksRestored                                                          *)
(***************************************************************************)

\* A republishing task's calls are of a session that there was.
BatchCalls ==
  \A c \in Callers : c[2] \in Batches /\ ~At(c, "idle") => c[2] <= session

\* A cycle keeps the lock from the calls until it ends.
NoReaders ==
  conn \in {"held", "restarted"} => \A c \in Callers : ~At(c, "answer")

\* The one connection lost, and the one restart that may follow.
OneLoss ==
  /\ losses \in Nat
  /\ losses <= 1 /\ faults = {} =>
       \/ session = 1 /\ losses = 0 /\ conn = "up"
       \/ session = 1 /\ losses = 1 /\ conn \in {"broken", "queued", "held", "up"}
       \/ session = 2 /\ losses = 1 /\ conn \in {"restarted", "up"}

Calm == losses <= 1 /\ faults = {} /\ ~Panicked

\* In the new session every answer comes, ...
AnswersCome ==
  session = 2 =>
    /\ \A c \in Callers : At(c, "answer") /\ c[1] \notin raced => Awaited(c)
    /\ unanswered \subseteq raced

\* ... and what the application owns is in the table, or at work.
OwnedKept ==
  \A t \in owns \ raced :
    \/ \E s \in table : named[s] = t
    \/ \E c \in Callers : c[1] = t /\ c[2] \in Batches /\ ~At(c, "idle")

RestoreInv ==
  /\ BatchCalls
  /\ NoReaders
  /\ OneLoss
  /\ Calm => AnswersCome /\ OwnedKept

LEMMA NextRestoreTypes ==
  ASSUME IInv, BatchInv, BatchCalls, NoReaders, OneLoss, [Next]_vars
  PROVE  BatchCalls' /\ NoReaders' /\ OneLoss'
<1> USE DEF engineVars, serverVars, Sids, Places
<1> DEFINE Goal == BatchCalls' /\ NoReaders' /\ OneLoss'
<1>0. Types /\ session \in Nat /\ session <= session' /\ faults' = faults
  BY NextHistory, PanicStays DEF IInv, Types
\* A call that does not come to wait, and begins none of its task.
<1>1. ASSUME NEW c \in Callers, OnlyCall(c),
             call'[c].at # "answer" \/ MayRead,
             c[2] = App \/ call'[c].at = "idle" \/ c[2] <= session,
             UNCHANGED <<conn, session, losses>>
      PROVE  Goal
  <2>1. BatchCalls'
    BY <1>1, CallersOfTracks DEF BatchCalls, OnlyCall, At
  <2>2. NoReaders'
    BY <1>1 DEF NoReaders, OnlyCall, At, MayRead
  <2>3. OneLoss'
    BY <1>0, <1>1 DEF OneLoss
  <2> QED
    BY <2>1, <2>2, <2>3
<1>2. ASSUME NEW c \in Callers, ~At(c, "idle"), OnlyCall(c),
             call'[c].at # "answer" \/ MayRead,
             UNCHANGED <<conn, session, losses>>
      PROVE  Goal
  <2>1. c[2] = App \/ c[2] <= session
    BY <1>2, CallersOfTracks DEF BatchCalls
  <2> QED
    BY <1>1, <1>2, <2>1
<1>3. CASE UNCHANGED <<call, conn, session, losses>>
  BY <1>0, <1>3 DEF BatchCalls, NoReaders, OneLoss, At
<1>4. ASSUME NEW c \in Callers, CallStep(c) \/ Cancel(c) PROVE Goal
  <2>1. /\ ~At(c, "idle")
        /\ \/ Return(c)
           \/ \E p \in {"add_publication", "add_track", "remove_track"} :
                Goto(c, p)
           \/ Goto(c, "answer") /\ MayRead
        /\ UNCHANGED <<conn, session, losses, named>>
    BY <1>4, TimesOut
       DEF CallStep, AddTrack, CreateSender, AddPublication, EngineClosed,
           Republish, RemoveTrack, Unpublished, Cancel, At
  <2>2. OnlyCall(c) /\ (call'[c].at # "answer" \/ MayRead)
    BY <1>0, <2>1, CallReturns, CallGoes
  <2> QED
    BY <1>2, <2>1, <2>2
<1>5. ASSUME NEW t \in Tracks, PublishTrack(t) PROVE Goal
  <2>1. PICK c \in Callers : c = <<t, App>> /\ c[2] = App
    BY CallersOfTracks
  <2>2. Goto(c, "add_track") /\ UNCHANGED <<conn, session, losses, named>>
    BY <1>5, <2>1 DEF PublishTrack
  <2>3. OnlyCall(c) /\ call'[c].at = "add_track"
    BY <1>0, <2>2, CallGoes
  <2> QED
    BY <1>1, <2>1, <2>2, <2>3
<1>6. ASSUME NEW t \in Tracks, UnpublishTrack(t) PROVE Goal
  <2>1. PICK c \in Callers : c = <<t, App>> /\ c[2] = App
    BY CallersOfTracks
  <2>2. PICK sid \in table :
          call' = [call EXCEPT ![c] = Working("remove_track", sid)]
    BY <1>6, <2>1 DEF UnpublishTrack
  <2>3. UNCHANGED <<conn, session, losses, named>> /\ sid \in Sids
    BY <1>0, <1>6, <2>2 DEF UnpublishTrack, Types
  <2>4. OnlyCall(c) /\ call'[c].at = "remove_track"
    BY <1>0, <2>2, <2>3, CallStarts
  <2> QED
    BY <1>1, <2>1, <2>3, <2>4
<1>7. ASSUME NEW n \in Batches, SpawnRepublish(n) PROVE Goal
  <2>1. PICK sid \in snapshot[n] :
          \/ UNCHANGED call
          \/ call' = [call EXCEPT ![<<named[sid], n>>] =
                        Working("unpublish", sid)]
    BY <1>7 DEF SpawnRepublish
  <2>2. UNCHANGED <<conn, session, losses, named>> /\ batch[n] = "running"
    BY <1>7 DEF SpawnRepublish
  <2>3. sid \in Sids /\ named[sid] \in Tracks
    BY <1>0, <2>1, Numbers DEF Types
  <2>4. PICK c \in Callers : c = <<named[sid], n>> /\ c[2] = n
    BY <2>3, CallersOfTracks
  <2>5. n <= session
    <3>1. MaxSessions \in Nat
      BY LocalMediaAssumption
    <3>2. n \in Nat
      BY <3>1 DEF Batches
    <3> QED
      BY <1>0, <2>2, <3>2 DEF BatchInv
  <2>6. CASE call' = [call EXCEPT ![c] = Working("unpublish", sid)]
    <3>1. OnlyCall(c) /\ call'[c].at = "unpublish"
      BY <1>0, <2>2, <2>3, <2>6, CallStarts
    <3> QED
      BY <1>1, <2>2, <2>4, <2>5, <3>1
  <2> QED
    BY <1>3, <2>1, <2>2, <2>4, <2>6
<1>8. CASE OnTrackPublished
  <2>1. PICK sid, c : sid = Head(fromServer) /\ c = pending[named[sid]]
    OBVIOUS
  <2>2. /\ UNCHANGED <<conn, session, losses, named>> /\ fromServer # <<>>
        /\ call' = IF c # Nobody /\ At(c, "answer")
                   THEN [call EXCEPT ![c] = [at |-> "create_sender",
                                             sid |-> sid, session |-> session]]
                   ELSE call
    BY <1>8, <2>1 DEF OnTrackPublished
  <2>3. CASE c # Nobody /\ At(c, "answer")
    <3>1. sid \in Sids /\ c \in Callers
      <4>1. sid \in Sids /\ named[sid] \in Tracks
        BY <1>0, <2>1, <2>2, SequenceTypes, Numbers DEF Types
      <4> QED
        BY <1>0, <2>1, <2>3, <4>1 DEF Types
    <3>2. OnlyCall(c) /\ call'[c].at = "create_sender" /\ ~At(c, "idle")
      BY <1>0, <2>2, <2>3, <3>1, CallAnswered DEF At
    <3> QED
      BY <1>2, <2>2, <3>1, <3>2
  <2> QED
    BY <1>3, <2>2, <2>3
<1>9. CASE ServerAddsTrack \/ Negotiate \/ HandleRestarted
           \/ \E n \in Batches : Reconnected(n)
  BY <1>3, <1>9 DEF ServerAddsTrack, Negotiate, HandleRestarted, Reconnected
<1>10. CASE UNCHANGED vars
  BY <1>3, <1>10 DEF vars
\* The engine
<1>11. CASE LoseConnection \/ EngineStep
  <2>1. UNCHANGED call
    BY <1>11
       DEF LoseConnection, EngineStep, ReconnectionNeeded, ReconnectTask,
           Resume, Restart, ReleaseLock, EngineClose
  <2>2. BatchCalls'
    <3>1. \A c \in Callers : c[2] \in Batches => c[2] \in Nat
      <4>1. MaxSessions \in Nat
        BY LocalMediaAssumption
      <4> QED
        BY <4>1 DEF Batches
    <3>2. session' \in Nat
      BY <1>0, NextInv DEF IInv, Types
    <3> QED
      BY <1>0, <2>1, <3>1, <3>2 DEF BatchCalls, At
  <2>3. NoReaders'
    <3>1. conn' \in {"held", "restarted"} =>
            conn \in {"held", "restarted"} \/ Readers = {}
      BY <1>11
         DEF LoseConnection, EngineStep, ReconnectionNeeded, ReconnectTask,
             Resume, Restart, ReleaseLock, EngineClose
    <3> QED
      BY <2>1, <3>1 DEF NoReaders, Readers, At
  <2>4. OneLoss'
    <3>1. CASE LoseConnection
      BY <1>0, <3>1 DEF LoseConnection, OneLoss
    <3>2. CASE ReconnectionNeeded \/ ReconnectTask \/ Resume \/ ReleaseLock
      BY <1>0, <3>2
         DEF ReconnectionNeeded, ReconnectTask, Resume, ReleaseLock, OneLoss
    <3>3. CASE Restart
      BY <1>0, <3>3 DEF Restart, OneLoss
    <3>4. CASE EngineClose
      BY <1>0, <3>4 DEF EngineClose, OneLoss
    <3> QED
      BY <1>11, <3>1, <3>2, <3>3, <3>4 DEF EngineStep
  <2> QED
    BY <2>2, <2>3, <2>4
<1> QED
  BY <1>4, <1>5, <1>6, <1>7, <1>8, <1>9, <1>10, <1>11
     DEF Next, Progress, RoomStep

\* What the parts of RestoreInv and the other invariants say together while
\* only one connection was lost.
Quiet ==
  /\ IInv /\ BatchInv /\ RestoreInv
  /\ PendingIsAwaited
  /\ Calm /\ Calm'

LEMMA QuietFacts ==
  ASSUME Quiet
  PROVE  /\ Types /\ PendingOwn /\ SidOfCall /\ Alone /\ Busy
         /\ AnswersCome /\ OwnedKept
         /\ session = 2 => conn \in {"restarted", "up"}
         /\ conn # "closed"
         /\ \A f : f \notin faults
         /\ \A t \in Tracks : pending[t] = Nobody \/ At(pending[t], "answer")
         /\ \A c \in Callers : c[2] \in Batches /\ ~At(c, "idle") => session = 2
<1>1. /\ Types /\ PendingOwn /\ SidOfCall /\ Alone /\ Busy
      /\ AnswersCome /\ OwnedKept
      /\ losses <= 1 /\ faults = {} /\ ~Panicked
  BY DEF Quiet, IInv, RestoreInv, Calm
<1>2. /\ session = 2 => conn \in {"restarted", "up"}
      /\ conn # "closed"
      /\ session \in {1, 2}
  BY <1>1 DEF Quiet, RestoreInv, OneLoss
<1>3. \A t \in Tracks : pending[t] = Nobody \/ At(pending[t], "answer")
  BY <1>1 DEF Quiet, PendingIsAwaited
<1>4. \A c \in Callers : c[2] \in Batches /\ ~At(c, "idle") => session = 2
  <2>1. \A n \in Batches : n \in Nat /\ n >= 2
    <3>1. MaxSessions \in Nat
      BY LocalMediaAssumption
    <3> QED
      BY <3>1 DEF Batches
  <2> QED
    BY <1>2, <2>1 DEF Quiet, RestoreInv, BatchCalls
<1> QED
  BY <1>1, <1>2, <1>3, <1>4

\* A call that waits goes on waiting.
LEMMA StillAwaited ==
  ASSUME NEW c \in Callers, Awaited(c), pending'[c[1]] = pending[c[1]],
         UNCHANGED <<named, toServer, fromServer>>
  PROVE  Awaited(c)'
  BY DEF Awaited

LEMMA NextAnswersCome ==
  ASSUME Quiet, [Next]_vars, session' = 2,
         NEW c \in Callers, call'[c].at = "answer", c[1] \notin raced'
  PROVE  Awaited(c)'
<1> USE DEF engineVars, sessionVars, serverVars, Sids, Places
<1>0. /\ Types /\ PendingOwn /\ Alone
      /\ (\A f : f \notin faults)
      /\ raced \subseteq raced' /\ c[1] \notin raced /\ c[1] \in Tracks
      /\ session \in Nat
      /\ pending \in [Tracks -> {Nobody} \cup Callers]
      /\ toServer \in Seq(Tracks) /\ Len(toServer) \in Nat
  <2>1. Types /\ PendingOwn /\ Alone /\ \A f : f \notin faults
    BY QuietFacts
  <2>2. session \in Nat /\ toServer \in Seq(Tracks)
        /\ pending \in [Tracks -> {Nobody} \cup Callers]
    BY <2>1 DEF Types
  <2>3. raced \subseteq raced'
    BY <2>2, NextHistory
  <2> QED
    BY <2>1, <2>2, <2>3, CallersOfTracks, LenProperties
<1>1. ASSUME At(c, "answer"), session = 2 PROVE Awaited(c)
  BY <1>0, <1>1, QuietFacts DEF AnswersCome
<1>2. ASSUME NEW d \in Callers, At(c, "answer"), ~At(d, "idle"), d # c
      PROVE  d[1] # c[1]
  BY <1>0, <1>2 DEF Alone, At
\* Only an entry of another track is forgotten.
<1>3. ASSUME At(c, "answer"), session = 2,
             UNCHANGED <<named, toServer, fromServer>>,
             \/ UNCHANGED pending
             \/ \E d \in Callers : ~At(d, "idle") /\ d # c /\ Forget(d[1])
      PROVE  Awaited(c)'
  <2>1. pending'[c[1]] = pending[c[1]]
    BY <1>0, <1>2, <1>3, CallersOfTracks DEF Forget
  <2> QED
    BY <1>1, <1>3, <2>1, StillAwaited
<1>4. ASSUME NEW d \in Callers, CallStep(d) \/ Cancel(d), ~AddTrack(d)
      PROVE  Awaited(c)'
  <2>1. /\ ~At(d, "idle")
        /\ \/ Return(d)
           \/ \E p \in {"add_publication", "add_track", "remove_track"} :
                Goto(d, p)
        /\ UNCHANGED <<session, named, toServer, fromServer>>
        /\ UNCHANGED pending \/ Forget(d[1])
    BY <1>4, TimesOut
       DEF CallStep, CreateSender, AddPublication, EngineClosed,
           Republish, RemoveTrack, Unpublished, Cancel, At
  <2>2. OnlyCall(d) /\ call'[d].at # "answer"
    BY <1>0, <2>1, CallReturns, CallGoes
  <2>3. d # c /\ At(c, "answer")
    BY <2>2 DEF OnlyCall, At
  <2> QED
    BY <1>3, <2>1, <2>3
<1>5. ASSUME NEW d \in Callers, AddTrack(d) PROVE Awaited(c)'
  <2>1. /\ At(d, "add_track") /\ MayRead
        /\ UNCHANGED <<session, named, fromServer>>
        /\ \/ Return(d) /\ UNCHANGED <<pending, toServer>>
           \/ /\ Goto(d, "answer")
              /\ pending' = [pending EXCEPT ![d[1]] = d]
              /\ toServer' = IF Alive THEN Append(toServer, d[1]) ELSE toServer
    BY <1>5 DEF AddTrack
  <2>2. OnlyCall(d) /\ d[1] \in Tracks
    BY <1>0, <2>1, CallReturns, CallGoes, CallersOfTracks
  <2>3. CASE Return(d) /\ UNCHANGED <<pending, toServer>>
    <3>1. call'[d].at = "idle"
      BY <1>0, <2>1, <2>3, CallReturns
    <3>2. At(c, "answer")
      BY <2>2, <3>1 DEF OnlyCall, At
    <3> QED
      BY <1>3, <2>1, <2>3, <3>2
  <2>4. CASE /\ Goto(d, "answer")
             /\ pending' = [pending EXCEPT ![d[1]] = d]
             /\ toServer' = IF Alive THEN Append(toServer, d[1]) ELSE toServer
    <3>1. Alive
      BY <2>1, QuietFacts DEF MayRead, Alive
    <3>2. toServer' = Append(toServer, d[1])
      BY <2>4, <3>1
    <3>3. /\ Len(toServer') = Len(toServer) + 1
          /\ \A i \in 1..Len(toServer) : toServer'[i] = toServer[i]
          /\ toServer'[Len(toServer) + 1] = d[1]
      BY <1>0, <2>2, <3>2, AppendProperties
    <3>4. CASE d = c
      <4>1. pending'[c[1]] = c
        BY <1>0, <2>4, <3>4
      <4> QED
        BY <1>0, <3>3, <3>4, <4>1 DEF Awaited
    <3>5. CASE d # c
      <4>1. At(c, "answer") /\ d[1] # c[1]
        BY <1>2, <2>1, <2>2, <3>5 DEF OnlyCall, At
      <4>2. pending'[c[1]] = pending[c[1]]
        BY <1>0, <2>4, <4>1
      <4>3. Awaited(c)
        BY <1>1, <2>1, <4>1
      <4>4. \A i \in 1..Len(toServer) : i \in 1..Len(toServer')
        BY <1>0, <3>3
      <4> QED
        BY <2>1, <3>3, <4>2, <4>3, <4>4 DEF Awaited
    <3> QED
      BY <3>4, <3>5
  <2> QED
    BY <2>1, <2>3, <2>4
<1>6. ASSUME NEW t \in Tracks, PublishTrack(t) PROVE Awaited(c)'
  <2>1. PICK d \in Callers : d = <<t, App>>
    BY CallersOfTracks
  <2>2. /\ Goto(d, "add_track")
        /\ UNCHANGED <<session, named, toServer, fromServer, pending>>
    BY <1>6, <2>1 DEF PublishTrack
  <2>3. OnlyCall(d) /\ call'[d].at = "add_track"
    BY <1>0, <2>2, CallGoes
  <2>4. At(c, "answer")
    BY <2>3 DEF OnlyCall, At
  <2> QED
    BY <1>3, <2>2, <2>4
<1>7. ASSUME NEW t \in Tracks, UnpublishTrack(t) PROVE Awaited(c)'
  <2>1. PICK d \in Callers : d = <<t, App>>
    BY CallersOfTracks
  <2>2. PICK sid \in table :
          call' = [call EXCEPT ![d] = Working("remove_track", sid)]
    BY <1>7, <2>1 DEF UnpublishTrack
  <2>3. /\ UNCHANGED <<session, named, toServer, fromServer, pending>>
        /\ sid \in Sids
    BY <1>0, <1>7, <2>2 DEF UnpublishTrack, Types
  <2>4. OnlyCall(d) /\ call'[d].at = "remove_track"
    BY <1>0, <2>2, <2>3, CallStarts
  <2>5. At(c, "answer")
    BY <2>4 DEF OnlyCall, At
  <2> QED
    BY <1>3, <2>3, <2>5
<1>8. ASSUME NEW n \in Batches, SpawnRepublish(n) PROVE Awaited(c)'
  <2>1. PICK sid \in snapshot[n] :
          \/ UNCHANGED call
          \/ call' = [call EXCEPT ![<<named[sid], n>>] =
                        Working("unpublish", sid)]
    BY <1>8 DEF SpawnRepublish
  <2>2. UNCHANGED <<session, named, toServer, fromServer, pending>>
    BY <1>8 DEF SpawnRepublish
  <2>3. sid \in Sids /\ named[sid] \in Tracks
    BY <1>0, <2>1, Numbers DEF Types
  <2>4. PICK d \in Callers : d = <<named[sid], n>>
    BY <2>3, CallersOfTracks
  <2>5. call' = [call EXCEPT ![d] = Working("unpublish", sid)] =>
          OnlyCall(d) /\ call'[d].at = "unpublish"
    BY <1>0, <2>2, <2>3, CallStarts
  <2>6. At(c, "answer")
    BY <2>1, <2>4, <2>5 DEF OnlyCall, At
  <2> QED
    BY <1>3, <2>2, <2>6
<1>9. CASE ServerAddsTrack
  <2>1. PICK u : u = Head(toServer)
    OBVIOUS
  <2>2. /\ toServer # <<>> /\ toServer' = Tail(toServer)
        /\ named' = Append(named, u)
        /\ fromServer' = Append(fromServer, Len(named'))
        /\ UNCHANGED <<call, session, pending>>
    BY <1>9, <2>1 DEF ServerAddsTrack
  <2>3. Awaited(c)
    BY <1>1, <2>2 DEF At
  <2>4. /\ toServer[1] = u /\ Len(toServer') = Len(toServer) - 1
        /\ \A i \in 1..Len(toServer') : toServer'[i] = toServer[i + 1]
    BY <1>0, <2>1, <2>2, HeadTailProperties, EmptySeq, LenProperties
  <2>5. /\ u \in Tracks /\ named \in Seq(Tracks)
        /\ Len(named) \in Nat /\ Len(named') = Len(named) + 1
        /\ \A s \in Sids : named'[s] = named[s]
        /\ named'[Len(named')] = u
    BY <1>0, <2>1, <2>2, SequenceTypes, AppendProperties, LenProperties
       DEF Types
  <2>6. /\ Len(fromServer) \in Nat
        /\ Len(fromServer') = Len(fromServer) + 1
        /\ \A i \in 1..Len(fromServer) : fromServer'[i] = fromServer[i]
        /\ fromServer'[Len(fromServer) + 1] = Len(named')
    <3>1. fromServer \in Seq(Nat)
      BY <1>0, SeqMonotonic DEF Types
    <3> QED
      BY <2>2, <2>5, <3>1, AppendProperties, LenProperties
  <2>7. ASSUME NEW i \in 1..Len(toServer), toServer[i] = c[1]
        PROVE  Awaited(c)'
    <3>1. CASE i = 1
      <4>1. /\ Len(fromServer) + 1 \in 1..Len(fromServer')
            /\ named'[fromServer'[Len(fromServer) + 1]] = c[1]
        BY <2>4, <2>5, <2>6, <2>7, <3>1
      <4> QED
        BY <2>2, <2>3, <4>1 DEF Awaited
    <3>2. CASE i # 1
      <4>1. i - 1 \in 1..Len(toServer') /\ toServer'[i - 1] = c[1]
        BY <1>0, <2>4, <2>7, <3>2
      <4> QED
        BY <2>2, <2>3, <4>1 DEF Awaited
    <3> QED
      BY <3>1, <3>2
  <2>8. ASSUME NEW i \in 1..Len(fromServer), named[fromServer[i]] = c[1]
        PROVE  Awaited(c)'
    <3>1. fromServer[i] \in Sids
      BY <1>0, Numbers
    <3>2. i \in 1..Len(fromServer') /\ named'[fromServer'[i]] = c[1]
      BY <2>5, <2>6, <2>8, <3>1
    <3> QED
      BY <2>2, <2>3, <3>2 DEF Awaited
  <2> QED
    BY <2>3, <2>7, <2>8 DEF Awaited
<1>10. CASE OnTrackPublished
  <2>1. PICK sid, d : sid = Head(fromServer) /\ d = pending[named[sid]]
    OBVIOUS
  <2>2. /\ UNCHANGED <<session, named, toServer>> /\ fromServer # <<>>
        /\ fromServer' = Tail(fromServer)
        /\ Forget(named[sid])
        /\ call' = IF d # Nobody /\ At(d, "answer")
                   THEN [call EXCEPT ![d] = [at |-> "create_sender",
                                             sid |-> sid, session |-> session]]
                   ELSE call
    BY <1>10, <2>1 DEF OnTrackPublished
  <2>3. /\ sid \in Sids /\ named[sid] \in Tracks
        /\ d = Nobody \/ (d \in Callers /\ d[1] = named[sid])
    <3>1. sid \in Sids /\ named[sid] \in Tracks
      BY <1>0, <2>1, <2>2, SequenceTypes, Numbers DEF Types
    <3> QED
      BY <1>0, <2>1, <3>1 DEF PendingOwn
  <2>4. d # Nobody /\ At(d, "answer") =>
          OnlyCall(d) /\ call'[d].at = "create_sender"
    BY <1>0, <2>2, <2>3, CallAnswered
  <2>5. At(c, "answer") /\ ~(d = c)
    <3>1. CASE d # Nobody /\ At(d, "answer")
      BY <2>4, <3>1 DEF OnlyCall, At
    <3>2. CASE ~(d # Nobody /\ At(d, "answer"))
      <4>1. At(c, "answer") /\ (d = Nobody \/ ~At(d, "answer"))
        BY <2>2, <3>2 DEF At
      <4> QED
        BY <4>1, CallersOfTracks DEF Nobody
    <3> QED
      BY <3>1, <3>2
  <2>6. Awaited(c)
    BY <1>1, <2>2, <2>5
  <2>7. c[1] # named[sid]
    BY <2>1, <2>5, <2>6 DEF Awaited
  <2>8. pending'[c[1]] = pending[c[1]]
    BY <1>0, <2>2, <2>7 DEF Forget
  <2>9. /\ Len(fromServer) \in Nat /\ sid = fromServer[1]
        /\ Len(fromServer') = Len(fromServer) - 1
        /\ \A i \in 1..Len(fromServer') : fromServer'[i] = fromServer[i + 1]
    <3>1. fromServer \in Seq(Nat)
      BY <1>0, SeqMonotonic DEF Types
    <3> QED
      BY <2>1, <2>2, <3>1, HeadTailProperties, LenProperties, EmptySeq
  <2>10. ASSUME NEW i \in 1..Len(fromServer), named[fromServer[i]] = c[1]
         PROVE  i - 1 \in 1..Len(fromServer')
                /\ named[fromServer'[i - 1]] = c[1]
    <3>1. i # 1
      BY <2>7, <2>9, <2>10
    <3> QED
      BY <2>9, <2>10, <3>1
  <2>11. Awaited(c) => pending'[c[1]] = c
    BY <2>8 DEF Awaited
  <2> QED
    BY <2>2, <2>6, <2>10, <2>11 DEF Awaited
<1>11. CASE LoseConnection
  <2>1. session = 2 /\ conn = "up" /\ losses' = losses + 1
    BY <1>11 DEF LoseConnection
  <2> QED
    BY <2>1 DEF Quiet, Calm, RestoreInv, OneLoss
<1>12. CASE Restart
  BY <1>12 DEF Restart, Quiet, RestoreInv, NoReaders, At
<1>13. CASE Negotiate \/ ReconnectionNeeded \/ ReconnectTask \/ Resume
            \/ ReleaseLock \/ EngineClose \/ HandleRestarted
            \/ \E n \in Batches : Reconnected(n)
  <2>1. UNCHANGED <<call, session, named, toServer, fromServer, pending>>
    BY <1>13
       DEF Negotiate, ReconnectionNeeded, ReconnectTask, Resume, ReleaseLock,
           EngineClose, HandleRestarted, Reconnected
  <2> QED
    BY <1>3, <2>1 DEF At
<1>14. CASE UNCHANGED vars
  BY <1>3, <1>14 DEF vars, At
<1> QED
  BY <1>4, <1>5, <1>6, <1>7, <1>8, <1>9, <1>10, <1>11, <1>12, <1>13, <1>14
     DEF Next, Progress, EngineStep, RoomStep, CallStep

LEMMA NextUnanswered ==
  ASSUME Quiet, [Next]_vars, session' = 2
  PROVE  unanswered' \subseteq raced'
<1> USE DEF engineVars, historyVars
<1>0. /\ session \in Nat /\ (\A f : f \notin faults) /\ ~Panicked
      /\ AnswersCome
  BY QuietFacts DEF Types, Quiet, Calm
<1>1. /\ raced \subseteq raced'
      /\ Restart \/ session' = session
  BY <1>0, NextHistory
<1>2. CASE Restart
  BY <1>2 DEF Restart
<1>3. CASE session = 2 /\ unanswered' = unanswered
  BY <1>0, <1>1, <1>3 DEF AnswersCome
<1>4. ASSUME session = 2, NEW c \in Callers,
             TrackTimeout(c) \/ (Cancel(c) /\ At(c, "answer"))
      PROVE  unanswered' \subseteq raced'
  <2>1. CASE TrackTimeout(c)
    <3>1. At(c, "answer") /\ ~Awaited(c) /\ GiveUp(c)
      BY <1>0, <2>1, Zenon DEF TrackTimeout
    <3>2. c[1] \in raced
      BY <1>0, <1>4, <3>1 DEF AnswersCome
    <3> QED
      BY <1>0, <1>1, <1>4, <3>1, <3>2 DEF GiveUp, AnswersCome
  <2>2. CASE Cancel(c)
    <3>1. FALSE
      BY <1>0, <2>2, CallersOfTracks DEF Cancel, Panicked
    <3> QED
      BY <3>1
  <2> QED
    BY <1>4, <2>1, <2>2
<1>5. ASSUME NEW c \in Callers, Cancel(c)
      PROVE  At(c, "answer") \/ unanswered' = unanswered
  BY <1>5 DEF Cancel
<1>6. ASSUME NEW c \in Callers,
             AddTrack(c) \/ CreateSender(c) \/ AddPublication(c)
               \/ EngineClosed(c) \/ Republish(c) \/ RemoveTrack(c)
      PROVE  unanswered' = unanswered
  BY <1>6 DEF AddTrack, CreateSender, AddPublication, EngineClosed, Republish,
              RemoveTrack
<1>7. ASSUME NEW t \in Tracks, PublishTrack(t) \/ UnpublishTrack(t)
      PROVE  unanswered' = unanswered
  BY <1>7 DEF PublishTrack, UnpublishTrack
<1>8. CASE ServerAddsTrack \/ OnTrackPublished \/ Negotiate \/ LoseConnection
           \/ ReconnectionNeeded \/ ReconnectTask \/ Resume \/ ReleaseLock
           \/ EngineClose \/ RoomStep
  <2>1. unanswered' = unanswered
    BY <1>8
       DEF ServerAddsTrack, OnTrackPublished, Negotiate, LoseConnection,
           ReconnectionNeeded, ReconnectTask, Resume, ReleaseLock, EngineClose,
           RoomStep, HandleRestarted, SpawnRepublish, Reconnected
  <2> QED
    BY <1>1, <1>2, <1>3, <2>1
<1>9. CASE UNCHANGED vars
  BY <1>1, <1>2, <1>3, <1>9 DEF vars
<1> QED
  BY <1>1, <1>2, <1>3, <1>4, <1>5, <1>6, <1>7, <1>8, <1>9
     DEF Next, Progress, CallStep, EngineStep

\* A track is in the table, or a republishing task is at work for it.
InHand(t) ==
  \/ \E s \in table : named[s] = t
  \/ \E c \in Callers : c[1] = t /\ c[2] \in Batches /\ ~At(c, "idle")

LEMMA NextOwnedKept ==
  ASSUME Quiet, [Next]_vars, NEW t \in owns', t \notin raced'
  PROVE  InHand(t)'
<1> USE DEF engineVars, serverVars, appVars, objectVars, Sids, Places
<1>0. /\ Types /\ SidOfCall /\ Alone /\ Busy /\ OnePublication /\ PendingOwn
      /\ (\A f : f \notin faults)
      /\ ~Panicked
      /\ t \notin raced
      /\ table \subseteq Sids
  <2>1. /\ Types /\ SidOfCall /\ Alone /\ Busy /\ PendingOwn
        /\ \A f : f \notin faults
    BY QuietFacts
  <2>2. OnePublication /\ ~Panicked
    BY DEF Quiet, IInv, Calm
  <2>3. raced \subseteq raced' /\ table \subseteq Sids
    BY <2>1, NextHistory DEF Types
  <2> QED
    BY <2>1, <2>2, <2>3
<1>1. t \in owns => InHand(t)
  BY <1>0, QuietFacts DEF OwnedKept, InHand
<1>2. ASSUME t \in owns,
             \A s \in Sids : named'[s] = named[s],
             \A s \in table : named[s] = t => s \in table',
             \A c \in Callers : c[1] = t /\ c[2] \in Batches /\ ~At(c, "idle")
               => call'[c].at # "idle"
      PROVE  InHand(t)'
  BY <1>0, <1>1, <1>2 DEF InHand, At
\* A step of a call that goes on, or is one of the application.
<1>3. ASSUME NEW c \in Callers, OnlyCall(c),
             c[1] = t /\ c[2] \in Batches => call'[c].at # "idle",
             UNCHANGED <<named, table, owns>>
      PROVE  InHand(t)'
  <2>1. \A d \in Callers : d[1] = t /\ d[2] \in Batches /\ ~At(d, "idle") =>
          call'[d].at # "idle"
    BY <1>3 DEF OnlyCall, At
  <2> QED
    BY <1>2, <1>3, <2>1
<1>4. ASSUME NEW c \in Callers, AddTrack(c) PROVE InHand(t)'
  <2>1. /\ At(c, "add_track") /\ UNCHANGED <<named, table, owns>>
        /\ \/ Return(c) /\ pending[c[1]] # Nobody
           \/ Goto(c, "answer")
    BY <1>4 DEF AddTrack
  <2>2. OnlyCall(c)
    BY <1>0, <2>1, CallReturns, CallGoes
  <2>3. CASE Return(c) /\ pending[c[1]] # Nobody
    <3>1. /\ At(pending[c[1]], "answer") /\ pending[c[1]] \in Callers
          /\ pending[c[1]][1] = c[1]
      BY <1>0, <2>3, CallersOfTracks, QuietFacts DEF Types, PendingOwn
    <3>2. c[1] # t
      BY <1>0, <2>1, <3>1 DEF Alone, At
    <3> QED
      BY <1>3, <2>1, <2>2, <3>2
  <2>4. CASE Goto(c, "answer")
    BY <1>0, <1>3, <2>1, <2>2, <2>4, CallGoes
  <2> QED
    BY <2>1, <2>3, <2>4
<1>5. ASSUME NEW c \in Callers, TrackTimeout(c) PROVE InHand(t)'
  <2>1. /\ At(c, "answer") /\ Return(c)
        /\ UNCHANGED <<named, table, owns>>
    BY <1>5, TimesOut
  <2>2. ~Awaited(c)
    BY <1>0, <1>5, Zenon DEF TrackTimeout
  <2>3. c[1] = t => c[2] \notin Batches
    <3>1. c[2] \in Batches => session = 2
      BY <2>1, QuietFacts DEF At
    <3> QED
      BY <1>0, <2>1, <2>2, <3>1, QuietFacts DEF AnswersCome
  <2> QED
    BY <1>0, <1>3, <2>1, <2>3, CallReturns
<1>6. ASSUME NEW c \in Callers, CreateSender(c) PROVE InHand(t)'
  <2>1. /\ UNCHANGED <<named, table, owns>>
        /\ Goto(c, "add_publication")
    BY <1>0, <1>6 DEF CreateSender
  <2> QED
    BY <1>0, <1>3, <2>1, CallGoes
<1>7. ASSUME NEW c \in Callers, AddPublication(c) PROVE InHand(t)'
  <2>1. /\ At(c, "add_publication") /\ Return(c) /\ UNCHANGED named
        /\ table' = table \cup {call[c].sid}
        /\ owns' = IF c[2] = App THEN owns \cup {c[1]} ELSE owns
    BY <1>7 DEF AddPublication
  <2>2. OnlyCall(c) /\ named[call[c].sid] = c[1]
    BY <1>0, <2>1, CallReturns DEF SidOfCall
  <2>3. CASE c[1] = t
    BY <2>1, <2>2, <2>3 DEF InHand
  <2>4. CASE c[1] # t
    <3>1. t \in owns
      BY <2>1, <2>4
    <3>2. \A d \in Callers : d[1] = t => call'[d] = call[d]
      BY <2>2, <2>4 DEF OnlyCall
    <3> QED
      BY <1>2, <2>1, <3>1, <3>2 DEF At
  <2> QED
    BY <2>3, <2>4
<1>8. ASSUME NEW c \in Callers, EngineClosed(c) \/ Cancel(c) PROVE InHand(t)'
  <2>1. /\ Return(c) /\ UNCHANGED <<named, table, owns>>
        /\ c[2] \notin Batches
    BY <1>0, <1>8, QuietFacts, CallersOfTracks
       DEF EngineClosed, Cancel, Panicked
  <2> QED
    BY <1>0, <1>3, <2>1, CallReturns
<1>9. ASSUME NEW c \in Callers, Republish(c) PROVE InHand(t)'
  <2>1. /\ At(c, "unpublish") /\ UNCHANGED <<named, owns>>
        /\ Goto(c, "remove_track") \/ Goto(c, "add_track")
        /\ table' = table \ {call[c].sid} \/ UNCHANGED table
    BY <1>9 DEF Republish, RemovePublication
  <2>2. OnlyCall(c) /\ call'[c].at # "idle" /\ named[call[c].sid] = c[1]
    BY <1>0, <2>1, CallGoes DEF SidOfCall
  <2>3. CASE c[1] = t
    <3>1. call[c].sid \in table /\ t \in owns
      BY <2>1, <1>0, <2>3 DEF Busy, At
    <3>2. c[2] \in Batches
      BY <1>0, <2>1, <2>3, <3>1, CallersOfTracks DEF Busy, At
    <3> QED
      BY <2>2, <2>3, <3>2 DEF InHand, At
  <2>4. CASE c[1] # t
    <3>1. \A s \in table : named[s] = t => s \in table'
      BY <2>1, <2>2, <2>4
    <3>2. \A d \in Callers : d[1] = t => call'[d] = call[d]
      BY <2>2, <2>4 DEF OnlyCall
    <3> QED
      BY <1>2, <2>1, <3>1, <3>2 DEF At
  <2> QED
    BY <2>3, <2>4
<1>10. ASSUME NEW c \in Callers, RemoveTrack(c) PROVE InHand(t)'
  <2>1. /\ At(c, "remove_track") /\ UNCHANGED <<named, table, owns>>
        /\ \/ Return(c) /\ (transceiver[c[1]] = NoSid \/ c[2] = App)
           \/ Goto(c, "add_track")
    BY <1>10 DEF RemoveTrack, Unpublished
  <2>2. OnlyCall(c)
    BY <1>0, <2>1, CallReturns, CallGoes
  <2>3. CASE Return(c) /\ (transceiver[c[1]] = NoSid \/ c[2] = App)
    <3>1. c[1] = t => c[2] \notin Batches
      BY <1>0, <2>1, <2>3, CallersOfTracks DEF Busy, At
    <3> QED
      BY <1>3, <2>1, <2>2, <3>1
  <2>4. CASE Goto(c, "add_track")
    BY <1>0, <1>3, <2>1, <2>2, <2>4, CallGoes
  <2> QED
    BY <2>1, <2>3, <2>4
<1>11. ASSUME NEW u \in Tracks, PublishTrack(u) PROVE InHand(t)'
  <2>1. PICK c \in Callers : c = <<u, App>>
    BY CallersOfTracks
  <2>2. Goto(c, "add_track") /\ UNCHANGED <<named, table, owns>>
    BY <1>11, <2>1 DEF PublishTrack
  <2> QED
    BY <1>0, <1>3, <2>2, CallGoes
<1>12. ASSUME NEW u \in Tracks, UnpublishTrack(u) PROVE InHand(t)'
  <2>1. PICK c \in Callers : c = <<u, App>> /\ c[1] = u
    BY CallersOfTracks
  <2>2. PICK sid \in table :
          /\ named[sid] = u
          /\ table' = table \ {sid}
          /\ call' = [call EXCEPT ![c] = Working("remove_track", sid)]
    BY <1>12, <2>1 DEF UnpublishTrack, RemovePublication
  <2>3. UNCHANGED named /\ owns' = owns \ {u}
    BY <1>12 DEF UnpublishTrack
  <2>4. OnlyCall(c) /\ call'[c].at = "remove_track"
    BY <1>0, <2>2, <2>3, CallStarts
  <2>5. t # u /\ t \in owns
    BY <2>3
  <2>6. \A s \in table : named[s] = t => s \in table'
    BY <2>2, <2>5
  <2>7. \A d \in Callers : d[1] = t => call'[d] = call[d]
    BY <2>1, <2>4, <2>5 DEF OnlyCall
  <2> QED
    BY <1>2, <2>3, <2>5, <2>6, <2>7 DEF At
<1>13. ASSUME NEW n \in Batches, SpawnRepublish(n) PROVE InHand(t)'
  <2>1. PICK sid \in snapshot[n] :
          \/ UNCHANGED call
          \/ call' = [call EXCEPT ![<<named[sid], n>>] =
                        Working("unpublish", sid)]
    BY <1>13 DEF SpawnRepublish
  <2>2. UNCHANGED <<named, table, owns>>
    BY <1>13 DEF SpawnRepublish
  <2>3. sid \in Sids /\ named[sid] \in Tracks
    BY <1>0, <2>1, Numbers DEF Types
  <2>4. PICK c \in Callers : c = <<named[sid], n>>
    BY <2>3, CallersOfTracks
  <2>5. CASE UNCHANGED call
    BY <1>2, <2>2, <2>5 DEF At
  <2>6. CASE call' = [call EXCEPT ![c] = Working("unpublish", sid)]
    BY <1>0, <1>3, <2>2, <2>3, <2>6, CallStarts
  <2> QED
    BY <2>1, <2>4, <2>5, <2>6
<1>14. CASE OnTrackPublished
  <2>1. PICK sid, c : sid = Head(fromServer) /\ c = pending[named[sid]]
    OBVIOUS
  <2>2. /\ UNCHANGED <<named, table, owns>> /\ fromServer # <<>>
        /\ call' = IF c # Nobody /\ At(c, "answer")
                   THEN [call EXCEPT ![c] = [at |-> "create_sender",
                                             sid |-> sid, session |-> session]]
                   ELSE call
    BY <1>14, <2>1 DEF OnTrackPublished
  <2>3. sid \in Sids /\ (c = Nobody \/ c \in Callers)
    <3>1. sid \in Sids /\ named[sid] \in Tracks
      BY <1>0, <2>1, <2>2, SequenceTypes, Numbers DEF Types
    <3> QED
      BY <1>0, <2>1, <3>1 DEF Types
  <2>4. CASE c # Nobody /\ At(c, "answer")
    BY <1>0, <1>3, <2>2, <2>3, <2>4, CallAnswered
  <2>5. CASE ~(c # Nobody /\ At(c, "answer"))
    BY <1>2, <2>2, <2>5 DEF At
  <2> QED
    BY <2>4, <2>5
<1>15. CASE ServerAddsTrack
  <2>1. /\ toServer # <<>> /\ named' = Append(named, Head(toServer))
        /\ UNCHANGED <<table, owns, call>>
    BY <1>15 DEF ServerAddsTrack
  <2>2. \A s \in Sids : named'[s] = named[s]
    BY <1>0, <2>1, SequenceTypes, AppendProperties DEF Types
  <2> QED
    BY <1>2, <2>1, <2>2 DEF At
<1>16. CASE Negotiate \/ LoseConnection \/ EngineStep \/ HandleRestarted
            \/ \E n \in Batches : Reconnected(n)
  <2>1. UNCHANGED <<named, table, owns, call>>
    BY <1>16
       DEF Negotiate, LoseConnection, EngineStep, ReconnectionNeeded,
           ReconnectTask, Resume, Restart, ReleaseLock, EngineClose,
           HandleRestarted, Reconnected
  <2> QED
    BY <1>2, <2>1 DEF At
<1>17. CASE UNCHANGED vars
  BY <1>2, <1>17 DEF vars, At
<1> QED
  BY <1>4, <1>5, <1>6, <1>7, <1>8, <1>9, <1>10, <1>11, <1>12, <1>13, <1>14,
     <1>15, <1>16, <1>17
     DEF Next, Progress, CallStep, RoomStep

LEMMA InitRestore == Init => RestoreInv
<1> SUFFICES ASSUME Init PROVE RestoreInv
  OBVIOUS
<1>1. \A c \in Callers : At(c, "idle")
  BY DEF Init, At, Idle, Working
<1>2. BatchCalls /\ NoReaders
  BY <1>1 DEF BatchCalls, NoReaders, At
<1>3. session = 1 /\ losses = 0 /\ conn = "up" /\ owns = {} /\ unanswered = {}
  BY DEF Init
<1>4. OneLoss /\ AnswersCome /\ OwnedKept
  BY <1>3 DEF OneLoss, AnswersCome, OwnedKept
<1> QED
  BY <1>2, <1>4 DEF RestoreInv

\* A connection that was lost stays counted.
LEMMA LossesStay ==
  ASSUME losses \in Nat, [Next]_vars
  PROVE  losses <= losses'
<1> USE DEF engineVars
<1>1. CASE UNCHANGED losses
  BY <1>1
<1>2. CASE LoseConnection
  BY <1>2 DEF LoseConnection
<1>3. ASSUME NEW c \in Callers, CallStep(c) \/ Cancel(c)
      PROVE  UNCHANGED losses
  BY <1>3
     DEF CallStep, AddTrack, TrackTimeout, CreateSender, AddPublication,
         EngineClosed, Republish, RemoveTrack, Cancel
<1>4. CASE ServerAddsTrack \/ OnTrackPublished \/ Negotiate
  BY <1>1, <1>4 DEF ServerAddsTrack, OnTrackPublished, Negotiate
<1>5. CASE EngineStep
  BY <1>1, <1>5
     DEF EngineStep, ReconnectionNeeded, ReconnectTask, Resume, Restart,
         ReleaseLock, EngineClose
<1>6. CASE RoomStep
  BY <1>1, <1>6 DEF RoomStep, HandleRestarted, SpawnRepublish, Reconnected
<1>7. ASSUME NEW t \in Tracks, PublishTrack(t) \/ UnpublishTrack(t)
      PROVE  UNCHANGED losses
  BY <1>7 DEF PublishTrack, UnpublishTrack
<1>8. CASE UNCHANGED vars
  BY <1>1, <1>8 DEF vars
<1> QED
  BY <1>1, <1>2, <1>3, <1>4, <1>5, <1>6, <1>7, <1>8 DEF Next, Progress

LEMMA NextRestore ==
  IInv /\ BatchInv /\ PendingIsAwaited /\ RestoreInv /\ [Next]_vars
  => RestoreInv'
<1> SUFFICES ASSUME IInv, BatchInv, PendingIsAwaited, RestoreInv, [Next]_vars
             PROVE  RestoreInv'
  OBVIOUS
<1>1. BatchCalls' /\ NoReaders' /\ OneLoss'
  BY NextRestoreTypes DEF RestoreInv
<1>2. ASSUME Calm' PROVE AnswersCome' /\ OwnedKept'
  <2>1. Calm
    <3>1. losses \in Nat /\ losses' \in Nat
      BY <1>1 DEF RestoreInv, OneLoss
    <3>2. losses <= losses'
      BY <3>1, LossesStay
    <3>3. (Panicked => Panicked') /\ faults' = faults
      BY PanicStays
    <3>4. losses' <= 1 /\ faults' = {} /\ ~Panicked'
      BY <1>2 DEF Calm
    <3> QED
      BY <3>1, <3>2, <3>3, <3>4 DEF Calm
  <2>2. Quiet
    BY <1>2, <2>1 DEF Quiet
  <2>3. AnswersCome'
    <3>1. ASSUME session' = 2, NEW c \in Callers, At(c, "answer")',
                 c[1] \notin raced'
          PROVE  Awaited(c)'
      BY <2>2, <3>1, NextAnswersCome DEF At
    <3>2. session' = 2 => unanswered' \subseteq raced'
      BY <2>2, NextUnanswered
    <3> QED
      BY <3>1, <3>2 DEF AnswersCome
  <2>4. OwnedKept'
    <3>1. \A t \in owns' \ raced' : InHand(t)'
      BY <2>2, NextOwnedKept
    <3> QED
      BY <3>1 DEF OwnedKept, InHand
  <2> QED
    BY <2>3, <2>4
<1> QED
  BY <1>1, <1>2 DEF RestoreInv

LEMMA BatchNumbers == \A n \in Batches : n \in Nat /\ n >= 2
<1>1. MaxSessions \in Nat
  BY LocalMediaAssumption
<1> QED
  BY <1>1 DEF Batches

\* Only Reconnected ends a republishing task well.
LEMMA BatchEnds ==
  ASSUME BatchInv, Next, NEW n \in Batches,
         batch[n] = "running", batch'[n] = "done"
  PROVE  Reconnected(n)
<1> USE DEF roomVars
<1>1. batch' # batch
  OBVIOUS
<1>2. CASE HandleRestarted
  BY <1>2 DEF HandleRestarted, BatchInv
<1>3. ASSUME NEW m \in Batches, SpawnRepublish(m) PROVE Reconnected(n)
  BY <1>3 DEF SpawnRepublish, BatchInv
<1>4. ASSUME NEW m \in Batches, Reconnected(m) PROVE Reconnected(n)
  <2>1. m = n
    BY <1>4 DEF Reconnected, BatchInv
  <2> QED
    BY <1>4, <2>1
<1>5. ASSUME NEW c \in Callers, CallStep(c) \/ Cancel(c) PROVE Reconnected(n)
  BY <1>1, <1>5
     DEF CallStep, AddTrack, TrackTimeout, CreateSender, AddPublication,
         EngineClosed, Republish, RemoveTrack, Cancel
<1>6. CASE ServerAddsTrack \/ OnTrackPublished \/ Negotiate \/ LoseConnection
  BY <1>1, <1>6
     DEF ServerAddsTrack, OnTrackPublished, Negotiate, LoseConnection
<1>7. CASE EngineStep
  BY <1>1, <1>7
     DEF EngineStep, ReconnectionNeeded, ReconnectTask, Resume, Restart,
         ReleaseLock, EngineClose
<1>8. ASSUME NEW t \in Tracks, PublishTrack(t) \/ UnpublishTrack(t)
      PROVE  Reconnected(n)
  BY <1>1, <1>8 DEF PublishTrack, UnpublishTrack
<1> QED
  BY <1>2, <1>3, <1>4, <1>5, <1>6, <1>7, <1>8 DEF Next, Progress, RoomStep

\* Reconnected, after a restart, means that the tracks are back: for any number
\* of tracks and calls of the application in between, what it owned and left
\* alone has a publication of the new session, or one of a publish_track that
\* the restart caught half-way.
THEOREM TracksAreRestored == Spec => TracksRestored
<1> DEFINE Inv == IInv /\ BatchInv /\ ServerInv /\ PendingIsAwaited /\ RestoreInv
<1>1. Init => BatchInv
  BY DEF Init, BatchInv
<1>2. IInv /\ BatchInv /\ ServerInv /\ PendingIsAwaited /\ RestoreInv
      /\ [Next]_vars
      => BatchInv' /\ ServerInv' /\ RestoreInv'
  BY NextBatchInv, NextServer, NextRestore
<1>3. Inv /\ [Next]_vars =>
        [\A n \in Batches :
           batch[n] = "running" /\ batch'[n] = "done" /\ losses = 1
             /\ faults = {}
           => \A t \in owns \ raced :
                \E s \in table \cap (added \cup straddled) : named[s] = t]_vars
  <2> SUFFICES ASSUME Inv, Next, NEW n \in Batches,
                      batch[n] = "running", batch'[n] = "done",
                      losses = 1, faults = {}, NEW t \in owns \ raced
               PROVE  \E s \in table \cap (added \cup straddled) : named[s] = t
    OBVIOUS
  <2>1. Reconnected(n)
    BY BatchEnds
  <2>2. n = 2 /\ session = 2 /\ room # "acknowledged"
    <3>1. n \in Nat /\ n >= 2
      BY BatchNumbers
    <3>2. session \in {1, 2}
      BY DEF RestoreInv, OneLoss
    <3> QED
      BY <3>1, <3>2 DEF BatchInv
  <2>3. Calm
    <3>1. \A m \in Batches : m # n => batch[m] = "none"
      BY <2>2, BatchNumbers DEF BatchInv
    <3> QED
      BY <3>1 DEF Calm, Panicked
  <2>4. /\ snapshot[2] = {}
        /\ \A c \in Callers : c[2] \in Batches => At(c, "idle")
    <3>1. snapshot[2] = {} /\ \A u \in Tracks : At(<<u, 2>>, "idle")
      BY <2>1, <2>2 DEF Reconnected, AllRepublished
    <3>2. ASSUME NEW c \in Callers, c[2] \in Batches, ~At(c, "idle")
          PROVE  FALSE
      <4>1. c[2] <= session
        BY <3>2 DEF RestoreInv, BatchCalls
      <4>2. c[2] \in Nat /\ c[2] >= 2
        BY <3>2, BatchNumbers
      <4>3. c[2] = 2
        BY <2>2, <4>1, <4>2
      <4>4. c[1] \in Tracks /\ c = <<c[1], 2>>
        BY <4>3, CallersOfTracks
      <4> QED
        BY <3>1, <3>2, <4>4
    <3> QED
      BY <3>1, <3>2
  <2>5. PICK s \in table : named[s] = t
    BY <2>3, <2>4 DEF RestoreInv, OwnedKept
  <2>6. t \in Tracks /\ s \in Sids
    BY <2>5, Numbers DEF IInv, Types
  <2>7. Restored(t)
    <3>1. unanswered \subseteq raced
      BY <2>2, <2>3 DEF RestoreInv, AnswersCome
    <3>2. Regular(t)
      BY <2>3, <3>1 DEF Regular, Calm
    <3> QED
      BY <2>6, <3>2 DEF ServerInv, ServerTrack
  <2>8. ~Due(s)
    <3>1. ASSUME NEW c \in Callers, c[1] = t, At(c, "unpublish") PROVE FALSE
      <4>1. ~At(c, "idle")
        BY <3>1 DEF At
      <4>2. c[2] = App /\ t \notin owns
        BY <2>4, <3>1, <4>1, CallersOfTracks DEF IInv, Busy
      <4> QED
        BY <4>2
    <3> QED
      BY <2>2, <2>4, <2>5, <3>1 DEF Due
  <2>9. s \in added \cup straddled
    BY <2>5, <2>7, <2>8 DEF Restored
  <2> QED
    BY <2>5, <2>9
<1>4. Spec => []Inv
  BY <1>1, <1>2, InitServer, InitRestore, SpecIInv, EntriesAwaited, PTL DEF Spec
<1> QED
  BY <1>3, <1>4, PTL DEF Spec, TracksRestored

=============================================================================
