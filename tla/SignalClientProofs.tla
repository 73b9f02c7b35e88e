-------------------------- MODULE SignalClientProofs --------------------------
(***************************************************************************)
(* Theorems about SignalClient, for any number of senders, messages,       *)
(* stream failures and restarts.                                           *)
(*                                                                         *)
(* TypeInv splits TypeOK by the variables an action can change and adds    *)
(* what typing an action needs: a sender inside send() has a message       *)
(* (PointsOK), streams are numbered without gaps, and a restart has a      *)
(* number left for its stream (TasksOK).                                   *)
(*                                                                         *)
(* Conserved is inductive with it; AtMostOnce needs OnceInv (what is in    *)
(* hand is nowhere else), SenderOrder needs OrderInv (the queue is in the  *)
(* order of the calls, behind what was written) and WindowInv (when a      *)
(* sender can pass its own queued message), OwnStreamClosed needs          *)
(* TaskOfStream (only the last stream has a task that has not ended).      *)
(***************************************************************************)
EXTENDS SignalClient, TLAPS

SlotOK ==
  /\ stream \in Streams \cup {None}
  /\ alive \in BOOLEAN
  /\ alive => stream # None
  /\ readers \subseteq Callers
  /\ writer \in {Engine, Free}
  /\ writer # Free => readers = {} /\ stream = None

Req == [who : Callers \cup Streams, write : BOOLEAN]

WaitersOK == waiters \in Seq(Req)

QueueOK ==
  /\ queue \in Seq(Message)
  /\ queue_lock \in Callers \cup {Free}

PointsOK ==
  /\ at \in [Callers -> SenderPoints \cup EnginePoints]
  /\ \A p \in Senders : at[p] \in SenderPoints
  /\ at[Engine] \in EnginePoints
  /\ sent \in [Senders -> 0..MaxSends]
  /\ \A p \in Senders : at[p] # "idle" => sent[p] >= 1

\* restart() has not connected yet.
Restarting == {"close", "join", "lock", "connect"}

\* Streams 1 to n have had a signal task; a restart makes stream n + 1.
TasksOK ==
  /\ reconnecting \in BOOLEAN
  /\ signal_task \in [Streams -> {"none", "run", "close", "ended"}]
  /\ \E n \in Streams :
       /\ \A s \in Streams : signal_task[s] # "none" <=> s <= n
       /\ at[Engine] \in Restarting =>
            n <= MaxRestarts

HistoryOK ==
  /\ wire \in Seq([msg : Message, from : {"queue", "send"}])
  /\ lost \subseteq Message
  /\ early \subseteq Message
  /\ faults \in 0..MaxFaults

TypeInv ==
  SlotOK /\ WaitersOK /\ QueueOK /\ PointsOK /\ TasksOK /\ HistoryOK

\* A step that does not take the reconnect task into restart().
Unrestarted == at'[Engine] \notin Restarting \/ at'[Engine] = at[Engine]

USE SignalClientAssumption DEF Callers, None, Restarting

-----------------------------------------------------------------------------
(***************************************************************************)
(* What the shared operators do                                            *)
(***************************************************************************)

\* A request is appended to the waiters of the slot.
LEMMA Requested ==
  ASSUME WaitersOK, NEW who \in Callers \cup Streams, NEW w \in BOOLEAN,
         Request(who, w)
  PROVE  WaitersOK'
<1>1. [who |-> who, write |-> w] \in Req
  BY DEF Req
<1>2. QED
  BY <1>1 DEF WaitersOK, Request

\* A granted request leaves them.
LEMMA Granted ==
  ASSUME WaitersOK, NEW who, ReadGranted(who) \/ WriteGranted(who)
  PROVE  WaitersOK'
  BY DEF WaitersOK, ReadGranted, WriteGranted, IsNext

\* The stream numbered last.
LEMMA LastStreamIs ==
  ASSUME TasksOK
  PROVE  /\ LastStream \in Streams
         /\ \A s \in Streams : signal_task[s] # "none" <=> s <= LastStream
         /\ at[Engine] \in Restarting =>
              LastStream <= MaxRestarts
<1>1. PICK n \in Streams :
        /\ \A s \in Streams : signal_task[s] # "none" <=> s <= n
        /\ at[Engine] \in Restarting =>
             n <= MaxRestarts
  BY DEF TasksOK
<1>2. signal_task[n] # "none"
      /\ \A t \in Streams : signal_task[t] # "none" => t <= n
  BY <1>1 DEF Streams
<1>3. \E s \in Streams :
        /\ signal_task[s] # "none"
        /\ \A t \in Streams : signal_task[t] # "none" => t <= s
  BY <1>2
<1>4. /\ LastStream \in Streams
      /\ signal_task[LastStream] # "none"
      /\ \A t \in Streams : signal_task[t] # "none" => t <= LastStream
  BY <1>3 DEF LastStream
<1>5. LastStream = n
  BY <1>1, <1>2, <1>4 DEF Streams
<1>6. QED
  BY <1>1, <1>4, <1>5

\* The message a sender inside send() has in hand.
LEMMA CurrentTyped ==
  ASSUME PointsOK, NEW p \in Senders, at[p] # "idle"
  PROVE  Current(p) \in Message
  BY DEF PointsOK, Current, Message

\* Writing to the stream, and what can go wrong with it.
LEMMA Output ==
  ASSUME HistoryOK, SlotOK, NEW m \in Message, NEW from \in {"queue", "send"},
         Written(m, from) \/ WriteFails(m)
  PROVE  /\ HistoryOK'
         /\ alive' \in BOOLEAN
         /\ alive' => alive
<1>1. CASE Written(m, from)
  <2>1. [msg |-> m, from |-> from] \in [msg : Message, from : {"queue", "send"}]
    OBVIOUS
  <2>2. QED
    BY <1>1, <2>1 DEF Written, HistoryOK, SlotOK
<1>2. CASE WriteFails(m)
  <2>1. lost' \subseteq Message /\ UNCHANGED early
    BY <1>2 DEF WriteFails, HistoryOK
  <2>2. faults' \in 0..MaxFaults
    BY <1>2 DEF WriteFails, HistoryOK
  <2>3. wire' \in Seq([msg : Message, from : {"queue", "send"}])
    BY <1>2 DEF WriteFails, HistoryOK
  <2>4. alive' = FALSE
    BY <1>2 DEF WriteFails
  <2>5. QED
    BY <2>1, <2>2, <2>3, <2>4 DEF HistoryOK
<1>3. QED
  BY <1>1, <1>2

\* A caller inside send() or flush_queue moves to another point of it.
LEMMA CallerMoves ==
  ASSUME PointsOK, NEW p \in Callers, NEW to \in SenderPoints,
         p = Engine => to \in EnginePoints,
         p \in Senders => at[p] # "idle",
         at' = [at EXCEPT ![p] = to], UNCHANGED sent
  PROVE  PointsOK' /\ Unrestarted
<1>1. at' \in [Callers -> SenderPoints \cup EnginePoints]
  BY DEF PointsOK
<1>2. /\ at'[p] = to
      /\ \A q \in Callers \ {p} : at'[q] = at[q]
  BY DEF PointsOK
<1>3. \A q \in Senders : at'[q] \in SenderPoints
  BY <1>2 DEF PointsOK
<1>4. at'[Engine] \in EnginePoints
  BY <1>2 DEF PointsOK
<1>5. \A q \in Senders : at'[q] # "idle" => sent[q] >= 1
  BY <1>2 DEF PointsOK
<1>6. Unrestarted
  BY <1>2 DEF SenderPoints, Unrestarted
<1>7. QED
  BY <1>1, <1>3, <1>4, <1>5, <1>6 DEF PointsOK

\* The reconnect task moves.
LEMMA EngineMoves ==
  ASSUME PointsOK, NEW to \in EnginePoints, EngineGoes(to), UNCHANGED sent
  PROVE  PointsOK' /\ at'[Engine] = to
<1>1. at' \in [Callers -> SenderPoints \cup EnginePoints]
  BY DEF PointsOK, EngineGoes
<1>2. /\ at'[Engine] = to
      /\ \A q \in Senders : at'[q] = at[q]
  BY DEF PointsOK, EngineGoes
<1>3. QED
  BY <1>1, <1>2 DEF PointsOK

\* Movements that the numbering of the streams does not see.
LEMMA TasksUnchanged ==
  ASSUME TasksOK, UNCHANGED signal_task, reconnecting' \in BOOLEAN,
         at'[Engine] \in Restarting =>
           at[Engine] \in Restarting
  PROVE  TasksOK'
  BY DEF TasksOK

-----------------------------------------------------------------------------
LEMMA InitTypeInv == Init => TypeInv
<1> SUFFICES ASSUME Init PROVE TypeInv
  OBVIOUS
<1>1. SlotOK /\ WaitersOK /\ QueueOK /\ HistoryOK
  BY DEF Init, SlotOK, WaitersOK, QueueOK, HistoryOK, Streams
<1>2. PointsOK
  BY DEF Init, PointsOK, SenderPoints, EnginePoints
<1>3. TasksOK
  <2>1. 1 \in Streams /\ \A s \in Streams : signal_task[s] # "none" <=> s <= 1
    BY DEF Init, Streams
  <2>2. QED
    BY <2>1 DEF Init, TasksOK
<1>4. QED
  BY <1>1, <1>2, <1>3 DEF TypeInv

-----------------------------------------------------------------------------
(***************************************************************************)
(* Each action preserves TypeInv                                           *)
(***************************************************************************)

\* What follows flush_queue.
LEMMA AfterFlushTyped ==
  ASSUME PointsOK, WaitersOK, TasksOK, NEW p \in Callers, AfterFlush(p),
         p \in Senders => at[p] # "idle",
         UNCHANGED <<reconnecting, signal_task, sent>>
  PROVE  PointsOK' /\ WaitersOK' /\ TasksOK'
<1>1. CASE p = Engine
  <2>1. at' = [at EXCEPT ![p] = "idle"] /\ UNCHANGED waiters
    BY <1>1 DEF AfterFlush
  <2>2. "idle" \in SenderPoints /\ "idle" \in EnginePoints
    BY DEF SenderPoints, EnginePoints
  <2>3. PointsOK' /\ Unrestarted
    BY <2>1, <2>2, CallerMoves
  <2>4. TasksOK'
    BY <2>3, TasksUnchanged DEF TasksOK, Unrestarted
  <2>5. QED
    BY <2>1, <2>3, <2>4 DEF WaitersOK
<1>2. CASE p # Engine
  <2>1. at' = [at EXCEPT ![p] = "read"] /\ Request(p, FALSE)
    BY <1>2 DEF AfterFlush
  <2>2. "read" \in SenderPoints
    BY DEF SenderPoints
  <2>3. PointsOK' /\ Unrestarted
    BY <1>2, <2>1, <2>2, CallerMoves
  <2>4. TasksOK'
    BY <2>3, TasksUnchanged DEF TasksOK, Unrestarted
  <2>5. WaitersOK'
    BY <2>1, Requested
  <2>6. QED
    BY <2>3, <2>4, <2>5
<1>3. QED
  BY <1>1, <1>2

LEMMA FlushLockTyped ==
  ASSUME TypeInv, NEW p \in Callers, FlushLock(p)
  PROVE  TypeInv'
<1> USE DEF TypeInv
<1>1. SlotOK' /\ HistoryOK'
  BY DEF FlushLock, SlotOK, HistoryOK, historyVars
<1>2. UNCHANGED <<reconnecting, signal_task, sent, queue>> /\ at[p] # "idle"
  BY DEF FlushLock
<1>3. CASE AfterFlush(p) /\ UNCHANGED queue_lock
  <2>1. PointsOK' /\ WaitersOK' /\ TasksOK'
    BY <1>2, <1>3, AfterFlushTyped
  <2>2. QueueOK'
    BY <1>2, <1>3 DEF QueueOK
  <2>3. QED
    BY <1>1, <2>1, <2>2
<1>4. CASE queue_lock' = p /\ at' = [at EXCEPT ![p] = "flush_read"]
           /\ Request(p, FALSE)
  <2>1. "flush_read" \in SenderPoints /\ "flush_read" \in EnginePoints
    BY DEF SenderPoints, EnginePoints
  <2>2. PointsOK' /\ Unrestarted
    BY <1>2, <1>4, <2>1, CallerMoves
  <2>3. TasksOK'
    BY <1>2, <2>2, TasksUnchanged DEF TasksOK, Unrestarted
  <2>4. WaitersOK'
    BY <1>4, Requested
  <2>5. QueueOK'
    BY <1>2, <1>4 DEF QueueOK
  <2>6. QED
    BY <1>1, <2>2, <2>3, <2>4, <2>5
<1>5. QED
  BY <1>3, <1>4 DEF FlushLock

LEMMA FlushReadTyped ==
  ASSUME TypeInv, NEW p \in Callers, FlushRead(p)
  PROVE  TypeInv'
<1> USE DEF TypeInv
<1>1. /\ UNCHANGED <<reconnecting, signal_task, sent, queue, queue_lock, stream,
                    alive, writer, wire, lost, early, faults>>
      /\ at[p] # "idle"
      /\ at' = [at EXCEPT ![p] = "flushing"]
      /\ ReadGranted(p)
  BY DEF FlushRead, queueVars, historyVars
<1>2. SlotOK'
  BY <1>1 DEF FlushRead, SlotOK, ReadGranted
<1>3. "flushing" \in SenderPoints /\ "flushing" \in EnginePoints
  BY DEF SenderPoints, EnginePoints
<1>4. PointsOK' /\ Unrestarted
  BY <1>1, <1>3, CallerMoves
<1>5. TasksOK'
  BY <1>1, <1>4, TasksUnchanged DEF TasksOK, Unrestarted
<1>6. WaitersOK'
  BY <1>1, Granted
<1>7. QueueOK' /\ HistoryOK'
  BY <1>1 DEF QueueOK, HistoryOK
<1>8. QED
  BY <1>2, <1>4, <1>5, <1>6, <1>7

LEMMA FlushOneTyped ==
  ASSUME TypeInv, NEW p \in Callers, FlushOne(p)
  PROVE  TypeInv'
<1> USE DEF TypeInv
<1>1. Head(queue) \in Message /\ Tail(queue) \in Seq(Message)
  BY DEF FlushOne, QueueOK
<1>2. QueueOK'
  BY <1>1 DEF FlushOne, Drained, QueueOK
<1>3. HistoryOK' /\ alive' \in BOOLEAN /\ (alive' => alive)
  <2>1. CASE Written(Head(queue), "queue") \/ WriteFails(Head(queue))
    BY <1>1, <2>1, Output
  <2>2. CASE SendError /\ lost' = lost \cup {Head(queue)}
    <3>1. lost' \subseteq Message
      BY <1>1, <2>2 DEF HistoryOK
    <3>2. UNCHANGED <<alive, wire, early, faults>>
      BY <2>2 DEF SendError
    <3>3. QED
      BY <3>1, <3>2 DEF HistoryOK, SlotOK
  <2>3. QED
    BY <2>1, <2>2 DEF FlushOne
<1>4. SlotOK'
  BY <1>3 DEF FlushOne, SlotOK
<1>5. WaitersOK' /\ PointsOK' /\ TasksOK'
  BY DEF FlushOne, WaitersOK, PointsOK, TasksOK
<1>6. QED
  BY <1>2, <1>3, <1>4, <1>5

LEMMA FlushEndTyped ==
  ASSUME TypeInv, NEW p \in Callers, FlushEnd(p)
  PROVE  TypeInv'
<1> USE DEF TypeInv
<1>1. /\ UNCHANGED <<reconnecting, signal_task, sent, queue, stream, alive,
                    writer, wire, lost, early, faults>>
      /\ at[p] # "idle"
      /\ readers' = readers \ {p}
      /\ queue_lock' = Free
      /\ AfterFlush(p)
  BY DEF FlushEnd, historyVars
<1>2. SlotOK'
  BY <1>1 DEF SlotOK
<1>3. PointsOK' /\ WaitersOK' /\ TasksOK'
  BY <1>1, AfterFlushTyped
<1>4. QueueOK' /\ HistoryOK'
  BY <1>1 DEF QueueOK, HistoryOK
<1>5. QED
  BY <1>2, <1>3, <1>4

\* send() returns: the sender is idle and holds no guard.
LEMMA ReturnTyped ==
  ASSUME SlotOK, PointsOK, TasksOK, NEW p \in Senders, at[p] # "idle",
         SendReturn(p), alive' \in BOOLEAN, alive' => alive,
         UNCHANGED <<stream, writer, reconnecting, signal_task, sent>>
  PROVE  SlotOK' /\ PointsOK' /\ TasksOK'
<1>1. SlotOK'
  BY DEF SlotOK, SendReturn
<1>2. "idle" \in SenderPoints
  BY DEF SenderPoints
<1>3. PointsOK' /\ Unrestarted
  BY <1>2, CallerMoves DEF SendReturn
<1>4. TasksOK'
  BY <1>3, TasksUnchanged DEF TasksOK, Unrestarted
<1>5. QED
  BY <1>1, <1>3, <1>4

LEMMA SendTyped ==
  ASSUME TypeInv, NEW p \in Senders, Send(p)
  PROVE  TypeInv'
<1> USE DEF TypeInv
<1>1. /\ UNCHANGED <<reconnecting, signal_task, queue, queue_lock, stream,
                    alive, readers, writer, wire, lost, early, faults>>
      /\ sent' = [sent EXCEPT ![p] = @ + 1]
      /\ sent[p] < MaxSends
  BY DEF Send, queueVars, historyVars
<1>2. SlotOK' /\ QueueOK' /\ HistoryOK'
  BY <1>1 DEF SlotOK, QueueOK, HistoryOK
<1>3. WaitersOK'
  <2>1. CASE Request(p, FALSE)
    BY <2>1, Requested
  <2>2. CASE UNCHANGED waiters
    BY <2>2 DEF WaitersOK
  <2>3. QED
    BY <2>1, <2>2 DEF Send
<1>4. PICK to \in {"push", "flush", "read"} : at' = [at EXCEPT ![p] = to]
  BY DEF Send
<1>5. sent' \in [Senders -> 0..MaxSends] /\ sent'[p] >= 1
      /\ \A q \in Senders \ {p} : sent'[q] = sent[q]
  BY <1>1 DEF PointsOK
<1>6. at' \in [Callers -> SenderPoints \cup EnginePoints] /\ at'[p] = to
      /\ \A q \in Callers \ {p} : at'[q] = at[q]
  BY <1>4 DEF PointsOK, SenderPoints
<1>7. PointsOK'
  BY <1>5, <1>6 DEF PointsOK, SenderPoints
<1>8. TasksOK'
  BY <1>1, <1>6, TasksUnchanged DEF TasksOK, Unrestarted
<1>9. QED
  BY <1>2, <1>3, <1>7, <1>8

LEMMA SendReadTyped ==
  ASSUME TypeInv, NEW p \in Senders, SendRead(p)
  PROVE  TypeInv'
<1> USE DEF TypeInv
<1>1. /\ UNCHANGED <<reconnecting, signal_task, sent, queue, queue_lock, stream,
                    alive, writer, wire, faults>>
      /\ at[p] # "idle"
      /\ ReadGranted(p)
  BY DEF SendRead, queueVars
<1>2. PICK to \in {"sending", "push", "idle"} : at' = [at EXCEPT ![p] = to]
  BY DEF SendRead
<1>3. PointsOK' /\ Unrestarted
  <2>1. to \in SenderPoints
    BY DEF SenderPoints
  <2>2. QED
    BY <1>1, <1>2, <2>1, CallerMoves
<1>4. TasksOK'
  BY <1>1, <1>3, TasksUnchanged DEF TasksOK, Unrestarted
<1>5. SlotOK'
  <2>1. writer = Free
    BY <1>1 DEF ReadGranted
  <2>2. readers' \subseteq Callers
    BY DEF SendRead, SlotOK
  <2>3. QED
    BY <1>1, <2>1, <2>2 DEF SlotOK
<1>6. WaitersOK'
  BY <1>1, Granted
<1>7. HistoryOK'
  <2>1. Current(p) \in Message
    BY <1>1, CurrentTyped
  <2>2. lost' \subseteq Message /\ early' \subseteq Message
    BY <2>1 DEF SendRead, HistoryOK
  <2>3. QED
    BY <1>1, <2>2 DEF HistoryOK
<1>8. QueueOK'
  BY <1>1 DEF QueueOK
<1>9. QED
  BY <1>3, <1>4, <1>5, <1>6, <1>7, <1>8

LEMMA SendResultTyped ==
  ASSUME TypeInv, NEW p \in Senders, SendResult(p)
  PROVE  TypeInv'
<1> USE DEF TypeInv
<1>1. /\ UNCHANGED <<reconnecting, signal_task, sent, queue, queue_lock, stream,
                    writer, waiters>>
      /\ at[p] # "idle"
  BY DEF SendResult, queueVars
<1>2. WaitersOK' /\ QueueOK'
  BY <1>1 DEF WaitersOK, QueueOK
<1>3. Current(p) \in Message
  BY <1>1, CurrentTyped
<1>4. CASE /\ Written(Current(p), "send") \/ WriteFails(Current(p))
           /\ SendReturn(p)
  <2>1. HistoryOK' /\ alive' \in BOOLEAN /\ (alive' => alive)
    BY <1>3, <1>4, Output
  <2>2. SlotOK' /\ PointsOK' /\ TasksOK'
    BY <1>1, <1>4, <2>1, ReturnTyped
  <2>3. QED
    BY <1>2, <2>1, <2>2
<1>5. CASE SendError /\ SendFailed(p)
  <2>1. UNCHANGED <<alive, wire, early, faults>>
    BY <1>5 DEF SendError
  <2>2. CASE at' = [at EXCEPT ![p] = "push"] /\ UNCHANGED <<readers, lost>>
    <3>1. "push" \in SenderPoints
      BY DEF SenderPoints
    <3>2. PointsOK' /\ Unrestarted
      BY <1>1, <2>2, <3>1, CallerMoves
    <3>3. TasksOK'
      BY <1>1, <3>2, TasksUnchanged DEF TasksOK, Unrestarted
    <3>4. SlotOK' /\ HistoryOK'
      BY <1>1, <2>1, <2>2 DEF SlotOK, HistoryOK
    <3>5. QED
      BY <1>2, <3>2, <3>3, <3>4
  <2>3. CASE SendReturn(p) /\ lost' = lost \cup {Current(p)}
    <3>1. alive' \in BOOLEAN /\ (alive' => alive)
      BY <2>1 DEF SlotOK
    <3>2. SlotOK' /\ PointsOK' /\ TasksOK'
      BY <1>1, <2>3, <3>1, ReturnTyped
    <3>3. lost' \subseteq Message
      BY <1>3, <2>3 DEF HistoryOK
    <3>4. HistoryOK'
      BY <2>1, <3>3 DEF HistoryOK
    <3>5. QED
      BY <1>2, <3>2, <3>4
  <2>4. QED
    BY <1>5, <2>2, <2>3 DEF SendFailed
<1>6. QED
  BY <1>4, <1>5 DEF SendResult

LEMMA PushTyped ==
  ASSUME TypeInv, NEW p \in Senders, Push(p)
  PROVE  TypeInv'
<1> USE DEF TypeInv
<1>1. /\ UNCHANGED <<reconnecting, signal_task, sent, queue_lock, stream, alive,
                    writer, waiters, wire, lost, early, faults>>
      /\ at[p] # "idle"
      /\ SendReturn(p)
  BY DEF Push, historyVars
<1>2. alive' \in BOOLEAN /\ (alive' => alive)
  BY <1>1 DEF SlotOK
<1>3. SlotOK' /\ PointsOK' /\ TasksOK'
  BY <1>1, <1>2, ReturnTyped
<1>4. QueueOK'
  <2>1. Current(p) \in Message
    BY <1>1, CurrentTyped
  <2>2. QED
    BY <1>1, <2>1 DEF Push, Pushed, QueueOK
<1>5. WaitersOK' /\ HistoryOK'
  BY <1>1 DEF WaitersOK, HistoryOK
<1>6. QED
  BY <1>3, <1>4, <1>5

LEMMA StreamDiesTyped ==
  ASSUME TypeInv, StreamDies
  PROVE  TypeInv'
<1> USE DEF TypeInv
<1>1. UNCHANGED <<stream, readers, writer, waiters, reconnecting, queue,
                  queue_lock, at, signal_task, sent, wire, lost, early>>
  BY DEF StreamDies, queueVars
<1>2. alive' = FALSE /\ faults' \in 0..MaxFaults
  BY DEF StreamDies, HistoryOK
<1>3. SlotOK' /\ HistoryOK'
  BY <1>1, <1>2 DEF SlotOK, HistoryOK
<1>4. WaitersOK' /\ QueueOK' /\ PointsOK' /\ TasksOK'
  BY <1>1 DEF WaitersOK, QueueOK, PointsOK, TasksOK
<1>5. QED
  BY <1>3, <1>4

\* A signal task that goes on keeps its number.
LEMMA TaskMoves ==
  ASSUME TasksOK, NEW s \in Streams, signal_task[s] # "none",
         NEW to \in {"close", "ended"},
         signal_task' = [signal_task EXCEPT ![s] = to],
         UNCHANGED <<reconnecting, at>>
  PROVE  TasksOK'
<1>1. signal_task' \in [Streams -> {"none", "run", "close", "ended"}]
  BY DEF TasksOK
<1>2. \A t \in Streams : signal_task'[t] # "none" <=> signal_task[t] # "none"
  BY DEF TasksOK
<1>3. QED
  BY <1>1, <1>2 DEF TasksOK

LEMMA SignalTaskBreakTyped ==
  ASSUME TypeInv, NEW s \in Streams, SignalTaskBreak(s)
  PROVE  TypeInv'
<1> USE DEF TypeInv
<1>1. /\ UNCHANGED <<stream, alive, readers, writer, reconnecting, queue,
                    queue_lock, at, sent, wire, lost, early>>
      /\ signal_task[s] # "none"
      /\ signal_task' = [signal_task EXCEPT ![s] = "close"]
  BY DEF SignalTaskBreak, queueVars
<1>2. faults' \in 0..MaxFaults
  BY DEF SignalTaskBreak, HistoryOK
<1>3. SlotOK' /\ QueueOK' /\ PointsOK' /\ HistoryOK'
  BY <1>1, <1>2 DEF SlotOK, QueueOK, PointsOK, HistoryOK
<1>4. WaitersOK'
  BY Requested DEF SignalTaskBreak
<1>5. TasksOK'
  BY <1>1, TaskMoves
<1>6. QED
  BY <1>3, <1>4, <1>5

LEMMA SignalTaskCloseTyped ==
  ASSUME TypeInv, NEW s \in Streams, SignalTaskClose(s)
  PROVE  TypeInv'
<1> USE DEF TypeInv
<1>1. /\ UNCHANGED <<readers, writer, reconnecting, queue, queue_lock, at, sent,
                    wire, lost, early, faults>>
      /\ signal_task[s] # "none"
      /\ signal_task' = [signal_task EXCEPT ![s] = "ended"]
      /\ stream' = None /\ alive' = FALSE
      /\ WriteGranted(s)
  BY DEF SignalTaskClose, queueVars, historyVars
<1>2. SlotOK' /\ QueueOK' /\ PointsOK' /\ HistoryOK'
  BY <1>1 DEF SlotOK, QueueOK, PointsOK, HistoryOK
<1>3. WaitersOK'
  BY <1>1, Granted
<1>4. TasksOK'
  BY <1>1, TaskMoves
<1>5. QED
  BY <1>2, <1>3, <1>4

LEMMA RestartTyped ==
  ASSUME TypeInv, Restart
  PROVE  TypeInv'
<1> USE DEF TypeInv
<1>1. /\ UNCHANGED <<stream, alive, readers, writer, reconnecting, queue,
                    queue_lock, signal_task, sent, wire, lost, early, faults>>
      /\ LastStream < MaxRestarts + 1
      /\ EngineGoes("close")
      /\ Request(Engine, TRUE)
  BY DEF Restart, queueVars, historyVars
<1>2. SlotOK' /\ QueueOK' /\ HistoryOK'
  BY <1>1 DEF SlotOK, QueueOK, HistoryOK
<1>3. WaitersOK'
  BY <1>1, Requested
<1>4. PointsOK'
  <2>1. "close" \in EnginePoints
    BY DEF EnginePoints
  <2>2. QED
    BY <1>1, <2>1, EngineMoves
<1>5. TasksOK'
  <2>1. LastStream \in Streams
        /\ \A t \in Streams : signal_task[t] # "none" <=> t <= LastStream
    BY LastStreamIs
  <2>2. LastStream <= MaxRestarts
    BY <1>1, <2>1 DEF Streams
  <2>3. QED
    BY <1>1, <2>1, <2>2 DEF TasksOK
<1>6. QED
  BY <1>2, <1>3, <1>4, <1>5

\* restart() at its awaits: the stream taken, its signal task awaited, the
\* slot locked.
LEMMA RestartGoesOnTyped ==
  ASSUME TypeInv, RestartClose \/ RestartJoin \/ RestartLock
  PROVE  TypeInv'
<1> USE DEF TypeInv
<1>1. /\ UNCHANGED <<readers, queue, queue_lock, signal_task, sent, wire, lost,
                    early, faults>>
      /\ at[Engine] \in {"close", "join", "lock"}
  BY DEF RestartClose, RestartJoin, RestartLock, queueVars, historyVars
<1>2. PICK to \in {"join", "lock", "connect"} : EngineGoes(to)
  BY DEF RestartClose, RestartJoin, RestartLock
<1>3. PointsOK'
  <2>1. to \in EnginePoints
    BY DEF EnginePoints
  <2>2. QED
    BY <1>1, <1>2, <2>1, EngineMoves
<1>4. reconnecting' \in BOOLEAN
  BY DEF RestartClose, RestartJoin, RestartLock, TasksOK
<1>5. TasksOK'
  BY <1>1, <1>4, TasksUnchanged
<1>6. WaitersOK'
  <2>1. CASE WriteGranted(Engine)
    BY <2>1, Granted
  <2>2. CASE Request(Engine, TRUE)
    BY <2>2, Requested
  <2>3. QED
    BY <2>1, <2>2 DEF RestartClose, RestartJoin, RestartLock
<1>7. SlotOK'
  <2>1. CASE stream' = None /\ alive' = FALSE /\ UNCHANGED writer
    BY <1>1, <2>1 DEF SlotOK
  <2>2. CASE UNCHANGED <<stream, alive, writer>>
    BY <1>1, <2>2 DEF SlotOK
  <2>3. CASE stream' = None /\ alive' = FALSE /\ writer' = Engine
             /\ readers = {}
    BY <1>1, <2>3 DEF SlotOK
  <2>4. QED
    BY <2>1, <2>2, <2>3
    DEF RestartClose, RestartJoin, RestartLock, WriteGranted
<1>8. QueueOK' /\ HistoryOK'
  BY <1>1 DEF QueueOK, HistoryOK
<1>9. QED
  BY <1>3, <1>5, <1>6, <1>7, <1>8

LEMMA RestartConnectTyped ==
  ASSUME TypeInv, RestartConnect
  PROVE  TypeInv'
<1> USE DEF TypeInv
<1> DEFINE s == LastStream + 1
<1>1. /\ UNCHANGED <<readers, waiters, reconnecting, queue, queue_lock, sent,
                    wire, lost, early, faults>>
      /\ at[Engine] = "connect"
      /\ stream' = s /\ alive' = TRUE /\ writer' = Free
      /\ signal_task' = [signal_task EXCEPT ![s] = "run"]
      /\ EngineGoes("resuming")
  BY DEF RestartConnect, queueVars, historyVars
<1>2. s \in Streams /\ LastStream \in Streams
      /\ \A t \in Streams : signal_task[t] # "none" <=> t <= LastStream
  BY <1>1, LastStreamIs DEF Streams
<1>3. SlotOK'
  BY <1>1, <1>2 DEF SlotOK, Streams
<1>4. PointsOK' /\ at'[Engine] = "resuming"
  <2>1. "resuming" \in EnginePoints
    BY DEF EnginePoints
  <2>2. QED
    BY <1>1, <2>1, EngineMoves
<1>5. TasksOK'
  <2>1. signal_task' \in [Streams -> {"none", "run", "close", "ended"}]
    BY <1>1 DEF TasksOK
  <2>2. \A t \in Streams : signal_task'[t] # "none" <=> t <= s
    BY <1>1, <1>2 DEF TasksOK, Streams
  <2>3. QED
    BY <1>1, <1>2, <1>4, <2>1, <2>2 DEF TasksOK
<1>6. WaitersOK' /\ QueueOK' /\ HistoryOK'
  BY <1>1 DEF WaitersOK, QueueOK, HistoryOK
<1>7. QED
  BY <1>3, <1>4, <1>5, <1>6

\* The rest of a resume leaves the streams alone.
LEMMA ResumeTyped ==
  ASSUME TypeInv, RestartFail \/ ResumeWait \/ SetReconnected
  PROVE  TypeInv'
<1> USE DEF TypeInv
<1>1. UNCHANGED <<stream, alive, readers, waiters, queue, queue_lock,
                  signal_task, sent, wire, lost, early, faults>>
  BY DEF RestartFail, ResumeWait, SetReconnected, slotVars, queueVars,
         historyVars
<1>2. PICK to \in {"failed", "resumed", "flush"} : EngineGoes(to)
  BY DEF RestartFail, ResumeWait, SetReconnected
<1>3. PointsOK' /\ at'[Engine] = to
  <2>1. to \in EnginePoints
    BY DEF EnginePoints
  <2>2. QED
    BY <1>1, <1>2, <2>1, EngineMoves
<1>4. reconnecting' \in BOOLEAN
  BY DEF RestartFail, ResumeWait, SetReconnected, TasksOK
<1>5. TasksOK'
  BY <1>1, <1>3, <1>4, TasksUnchanged
<1>6. SlotOK'
  <2>1. writer' \in {writer, Free}
    BY DEF RestartFail, ResumeWait, SetReconnected, slotVars
  <2>2. QED
    BY <1>1, <2>1 DEF SlotOK
<1>7. WaitersOK' /\ QueueOK' /\ HistoryOK'
  BY <1>1 DEF WaitersOK, QueueOK, HistoryOK
<1>8. QED
  BY <1>3, <1>5, <1>6, <1>7

LEMMA NextTyped == TypeInv /\ [Next]_vars => TypeInv'
<1> SUFFICES ASSUME TypeInv, [Next]_vars PROVE TypeInv'
  OBVIOUS
<1>1. ASSUME NEW p \in Callers, FlushLock(p) \/ FlushStep(p)
      PROVE  TypeInv'
  BY <1>1, FlushLockTyped, FlushReadTyped, FlushOneTyped, FlushEndTyped
  DEF FlushStep
<1>2. ASSUME NEW p \in Senders, Send(p) \/ SendStep(p) \/ Push(p)
      PROVE  TypeInv'
  BY <1>2, SendTyped, SendReadTyped, SendResultTyped, PushTyped DEF SendStep
<1>3. CASE StreamDies
  BY <1>3, StreamDiesTyped
<1>4. ASSUME NEW s \in Streams, SignalTaskStep(s)
      PROVE  TypeInv'
  BY <1>4, SignalTaskBreakTyped, SignalTaskCloseTyped DEF SignalTaskStep
<1>5. CASE Restart
  BY <1>5, RestartTyped
<1>6. CASE RestartStep
  BY <1>6, RestartGoesOnTyped, RestartConnectTyped, ResumeTyped DEF RestartStep
<1>7. CASE UNCHANGED vars
  BY <1>7 DEF vars, slotVars, queueVars, historyVars, TypeInv, SlotOK,
     WaitersOK, QueueOK, PointsOK, TasksOK, HistoryOK
<1>8. QED
  BY <1>1, <1>2, <1>3, <1>4, <1>5, <1>6, <1>7 DEF Next

LEMMA TypeInvAlways == Spec => []TypeInv
  BY InitTypeInv, NextTyped, PTL DEF Spec

\* The guards of the stream slot exclude each other and a stream whose write
\* task runs is in its slot (SignalInner.stream behind its RwLock), for any
\* number of senders, failures and restarts.
THEOREM TypeCorrect == Spec => []TypeOK
<1>1. TypeInv => TypeOK
  BY DEF TypeInv, SlotOK, WaitersOK, Req, QueueOK, PointsOK, TasksOK, HistoryOK,
         TypeOK
<1>2. QED
  BY <1>1, TypeInvAlways, PTL

-----------------------------------------------------------------------------
(***************************************************************************)
(* No message is dropped silently                                          *)
(***************************************************************************)

\* The message is queued, written or given up.
Kept(m) == InQueue(m) \/ OnWire(m) \/ m \in lost

\* What is written stays written.
LEMMA WrittenStays ==
  ASSUME HistoryOK, NEW m \in Message, NEW from \in {"queue", "send"},
         Written(m, from)
  PROVE  /\ OnWire(m)'
         /\ \A k : OnWire(k) => OnWire(k)'
<1> DEFINE rec == [msg |-> m, from |-> from]
<1>1. /\ wire' = Append(wire, rec)
      /\ wire \in Seq([msg : Message, from : {"queue", "send"}])
  BY DEF Written, HistoryOK
<1>2. rec \in [msg : Message, from : {"queue", "send"}] /\ rec.msg = m
  OBVIOUS
<1> HIDE DEF rec
<1>3. /\ Len(wire') = Len(wire) + 1
      /\ wire'[Len(wire) + 1] = rec
      /\ \A i \in 1..Len(wire) : wire'[i] = wire[i]
      /\ Len(wire) \in Nat
  BY <1>1, <1>2
<1>4. OnWire(m)'
  <2>1. Len(wire) + 1 \in 1..Len(wire') /\ wire'[Len(wire) + 1].msg = m
    BY <1>2, <1>3
  <2>2. QED
    BY <2>1 DEF OnWire
<1>5. ASSUME NEW k, OnWire(k) PROVE OnWire(k)'
  <2>1. PICK i \in 1..Len(wire) : wire[i].msg = k
    BY <1>5 DEF OnWire
  <2>2. i \in 1..Len(wire') /\ wire'[i].msg = k
    BY <1>3, <2>1
  <2>3. QED
    BY <2>2 DEF OnWire
<1>6. QED
  BY <1>4, <1>5

\* A message handed to the write task is written or given up, and no other is
\* forgotten.
LEMMA HandedOver ==
  ASSUME HistoryOK, NEW m \in Message, NEW from \in {"queue", "send"},
         \/ Written(m, from)
         \/ WriteFails(m)
         \/ SendError /\ lost' = lost \cup {m}
  PROVE  /\ OnWire(m)' \/ m \in lost'
         /\ \A k : OnWire(k) \/ k \in lost => OnWire(k)' \/ k \in lost'
<1>1. CASE Written(m, from)
  <2>1. lost' = lost
    BY <1>1 DEF Written
  <2>2. QED
    BY <1>1, <2>1, WrittenStays
<1>2. CASE wire' = wire /\ lost' = lost \cup {m}
  BY <1>2 DEF OnWire
<1>3. QED
  BY <1>1, <1>2 DEF WriteFails, SendError

\* A message pushed is queued, behind those that are.
LEMMA PushKeeps ==
  ASSUME TypeInv, NEW p \in Senders, Push(p)
  PROVE  /\ InQueue(Current(p))'
         /\ \A k : InQueue(k) => InQueue(k)'
<1> DEFINE m == Current(p)
<1>1. m \in Message /\ queue \in Seq(Message) /\ queue' = Append(queue, m)
  BY CurrentTyped DEF Push, Pushed, TypeInv, QueueOK
<1>2. UNCHANGED sent /\ Current(p)' = m
  BY DEF Push, Current
<1> HIDE DEF m
<1>3. /\ Len(queue') = Len(queue) + 1
      /\ queue'[Len(queue) + 1] = m
      /\ \A i \in 1..Len(queue) : queue'[i] = queue[i]
      /\ Len(queue) \in Nat
  BY <1>1
<1>4. \E i \in 1..Len(queue') : queue'[i] = m
  BY <1>3
<1>5. ASSUME NEW k, InQueue(k) PROVE InQueue(k)'
  <2>1. PICK i \in 1..Len(queue) : queue[i] = k
    BY <1>5 DEF InQueue
  <2>2. i \in 1..Len(queue') /\ queue'[i] = k
    BY <1>3, <2>1
  <2>3. QED
    BY <2>2 DEF InQueue
<1>6. QED
  BY <1>2, <1>4, <1>5 DEF InQueue

\* drain(..): the first message is handed over, the others stay queued.
LEMMA FlushOneKeeps ==
  ASSUME TypeInv, NEW p \in Callers, FlushOne(p), NEW k, Kept(k)
  PROVE  Kept(k)'
<1>1. /\ queue \in Seq(Message) /\ queue # <<>> /\ queue' = Tail(queue)
      /\ Head(queue) \in Message /\ HistoryOK
  BY DEF FlushOne, Drained, TypeInv, QueueOK
<1> PICK m \in Message : m = Head(queue)
  BY <1>1
<1>2. /\ OnWire(m)' \/ m \in lost'
      /\ \A j : OnWire(j) \/ j \in lost => OnWire(j)' \/ j \in lost'
  BY <1>1, HandedOver DEF FlushOne
<1>3. CASE OnWire(k) \/ k \in lost
  BY <1>2, <1>3 DEF Kept
<1>4. CASE InQueue(k)
  <2>1. PICK i \in 1..Len(queue) : queue[i] = k
    BY <1>4 DEF InQueue
  <2>2. CASE i = 1
    <3>1. k = m
      BY <1>1, <2>1, <2>2
    <3>2. QED
      BY <1>2, <3>1 DEF Kept
  <2>3. CASE i # 1
    <3>1. /\ Len(queue') = Len(queue) - 1
          /\ i - 1 \in 1..Len(queue')
          /\ queue'[i - 1] = queue[i]
      BY <1>1, <2>1, <2>3
    <3>2. QED
      BY <2>1, <3>1 DEF InQueue, Kept
  <2>4. QED
    BY <2>2, <2>3
<1>5. QED
  BY <1>3, <1>4 DEF Kept

\* A result of the stream: written, given up, or still in hand.
LEMMA SendResultKeeps ==
  ASSUME TypeInv, NEW p \in Senders, SendResult(p)
  PROVE  /\ \A k : Kept(k) => Kept(k)'
         /\ at'[p] # "idle" \/ Kept(Current(p))'
<1>1. /\ Current(p) \in Message /\ HistoryOK
      /\ at \in [Callers -> SenderPoints \cup EnginePoints]
  BY CurrentTyped DEF SendResult, TypeInv, PointsOK
<1> PICK m \in Message : m = Current(p)
  BY <1>1
<1>2. UNCHANGED queue /\ UNCHANGED sent
  BY DEF SendResult, queueVars
<1>3. Current(p)' = m /\ \A k : InQueue(k) => InQueue(k)'
  BY <1>2 DEF Current, InQueue
<1>4. CASE \/ Written(m, "send")
           \/ WriteFails(m)
           \/ SendError /\ lost' = lost \cup {m}
  <2>1. /\ OnWire(m)' \/ m \in lost'
        /\ \A j : OnWire(j) \/ j \in lost => OnWire(j)' \/ j \in lost'
    BY <1>1, <1>4, HandedOver
  <2>2. (OnWire(m) \/ m \in lost)' => Kept(Current(p))'
    BY <1>3 DEF Kept
  <2>3. QED
    BY <1>3, <2>1, <2>2 DEF Kept
<1>5. CASE SendError /\ at' = [at EXCEPT ![p] = "push"] /\ UNCHANGED lost
  <2>1. at'[p] # "idle" /\ UNCHANGED wire
    BY <1>1, <1>5 DEF SendError
  <2>2. QED
    BY <1>3, <1>5, <2>1 DEF Kept, OnWire
<1>6. QED
  BY <1>4, <1>5 DEF SendResult, SendFailed

\* A step that begins no send() may take a message out of a sender's hand only
\* when it is kept elsewhere.
LEMMA ConservedByKeeping ==
  ASSUME Conserved, UNCHANGED sent,
         \A k : Kept(k) => Kept(k)',
         \A q \in Senders : at[q] # "idle" =>
           at'[q] # "idle" \/ Kept(<<q, sent[q]>>)'
  PROVE  Conserved'
<1> SUFFICES ASSUME NEW q \in Senders, NEW n \in 1..sent[q]
             PROVE  (n = sent[q] /\ at'[q] # "idle") \/ Kept(<<q, n>>)'
  BY DEF Conserved, InHand, Kept
<1>1. (n = sent[q] /\ at[q] # "idle") \/ Kept(<<q, n>>)
  BY DEF Conserved, InHand, Kept
<1>2. CASE n = sent[q] /\ at[q] # "idle"
  BY <1>2
<1>3. CASE Kept(<<q, n>>)
  BY <1>3
<1>4. QED
  BY <1>1, <1>2, <1>3

\* A step that only moves tasks.
LEMMA ConservedByMoving ==
  ASSUME Conserved, UNCHANGED <<queue, wire, lost, sent>>,
         \A q \in Senders : at[q] # "idle" => at'[q] # "idle"
  PROVE  Conserved'
<1>1. \A k : Kept(k) => Kept(k)'
  BY DEF Kept, InQueue, OnWire
<1>2. QED
  BY <1>1, ConservedByKeeping

LEMMA SendConserved ==
  ASSUME TypeInv, Conserved, NEW p \in Senders, Send(p)
  PROVE  Conserved'
<1>1. /\ UNCHANGED <<queue, wire, lost>>
      /\ at[p] = "idle"
      /\ sent' = [sent EXCEPT ![p] = @ + 1]
      /\ at \in [Callers -> SenderPoints \cup EnginePoints]
      /\ sent \in [Senders -> 0..MaxSends]
  BY DEF Send, queueVars, historyVars, TypeInv, PointsOK
<1>2. PICK to \in {"push", "flush", "read"} : at' = [at EXCEPT ![p] = to]
  BY DEF Send
<1>3. at'[p] # "idle" /\ \A q \in Senders \ {p} : at'[q] = at[q]
  BY <1>1, <1>2
<1>4. \A k : Kept(k) => Kept(k)'
  BY <1>1 DEF Kept, InQueue, OnWire
<1> SUFFICES ASSUME NEW q \in Senders, NEW n \in 1..sent'[q]
             PROVE  (n = sent'[q] /\ at'[q] # "idle") \/ Kept(<<q, n>>)'
  BY DEF Conserved, InHand, Kept
<1>5. CASE q = p /\ n = sent'[p]
  BY <1>3, <1>5
<1>6. CASE q = p /\ n # sent'[p]
  <2>1. n \in 1..sent[p]
    BY <1>1, <1>6
  <2>2. Kept(<<p, n>>)
    BY <1>1, <2>1 DEF Conserved, InHand, Kept
  <2>3. QED
    BY <1>4, <1>6, <2>2
<1>7. CASE q # p
  <2>1. sent'[q] = sent[q] /\ at'[q] = at[q]
    BY <1>1, <1>3, <1>7
  <2>2. (n = sent[q] /\ at[q] # "idle") \/ Kept(<<q, n>>)
    BY <2>1 DEF Conserved, InHand, Kept
  <2>3. QED
    BY <1>4, <2>1, <2>2
<1>8. QED
  BY <1>5, <1>6, <1>7

LEMMA SendReadConserved ==
  ASSUME TypeInv, Conserved, NEW p \in Senders, SendRead(p)
  PROVE  Conserved'
<1>1. /\ UNCHANGED <<queue, wire, sent>>
      /\ at \in [Callers -> SenderPoints \cup EnginePoints]
      /\ lost \subseteq lost'
  BY DEF SendRead, queueVars, TypeInv, PointsOK
<1>2. \A k : Kept(k) => Kept(k)'
  BY <1>1 DEF Kept, InQueue, OnWire
<1>3. at'[p] # "idle" \/ Kept(<<p, sent[p]>>)'
  BY <1>1 DEF SendRead, Current, Kept
<1>4. \A q \in Senders \ {p} : at'[q] = at[q]
  BY <1>1 DEF SendRead
<1>5. QED
  BY <1>1, <1>2, <1>3, <1>4, ConservedByKeeping

LEMMA SendResultConserved ==
  ASSUME TypeInv, Conserved, NEW p \in Senders, SendResult(p) \/ Push(p)
  PROVE  Conserved'
<1>1. /\ UNCHANGED sent
      /\ at \in [Callers -> SenderPoints \cup EnginePoints]
  BY DEF SendResult, Push, TypeInv, PointsOK
<1>2. /\ \A k : Kept(k) => Kept(k)'
      /\ at'[p] # "idle" \/ Kept(Current(p))'
  <2>1. CASE SendResult(p)
    BY <2>1, SendResultKeeps
  <2>2. CASE Push(p)
    <3>1. /\ InQueue(Current(p))'
          /\ \A k : InQueue(k) => InQueue(k)'
      BY <2>2, PushKeeps
    <3>2. UNCHANGED <<wire, lost>>
      BY <2>2 DEF Push, historyVars
    <3>3. QED
      BY <3>1, <3>2 DEF Kept, OnWire
  <2>3. QED
    BY <2>1, <2>2
<1>3. at'[p] # "idle" \/ Kept(<<p, sent[p]>>)'
  BY <1>1, <1>2 DEF Current
<1>4. \A q \in Senders \ {p} : at'[q] = at[q]
  BY <1>1 DEF SendResult, SendFailed, SendReturn, Push
<1>5. QED
  BY <1>1, <1>2, <1>3, <1>4, ConservedByKeeping

LEMMA FlushConserved ==
  ASSUME TypeInv, Conserved, NEW p \in Callers, FlushLock(p) \/ FlushStep(p)
  PROVE  Conserved'
<1>1. at \in [Callers -> SenderPoints \cup EnginePoints]
  BY DEF TypeInv, PointsOK
<1>2. CASE FlushOne(p)
  <2>1. UNCHANGED <<at, sent>> /\ \A k : Kept(k) => Kept(k)'
    BY <1>2, FlushOneKeeps DEF FlushOne
  <2>2. QED
    BY <2>1, ConservedByKeeping
<1>3. CASE FlushLock(p) \/ FlushRead(p) \/ FlushEnd(p)
  <2>1. UNCHANGED <<queue, wire, lost, sent>>
    BY <1>3 DEF FlushLock, FlushRead, FlushEnd, queueVars, historyVars
  <2>2. PICK to : /\ at' = [at EXCEPT ![p] = to]
                  /\ to = "idle" => p = Engine
    BY <1>3 DEF FlushLock, FlushRead, FlushEnd, AfterFlush
  <2>3. \A q \in Senders : at[q] # "idle" => at'[q] # "idle"
    BY <1>1, <2>2
  <2>4. QED
    BY <2>1, <2>3, ConservedByMoving
<1>4. QED
  BY <1>2, <1>3 DEF FlushStep

\* The signal tasks and the reconnect task move no message.
LEMMA OthersConserved ==
  ASSUME TypeInv, Conserved,
         \/ StreamDies
         \/ \E s \in Streams : SignalTaskStep(s)
         \/ Restart \/ RestartStep
         \/ UNCHANGED vars
  PROVE  Conserved'
<1>1. UNCHANGED <<queue, wire, lost, sent>>
  BY DEF StreamDies, SignalTaskStep, SignalTaskBreak, SignalTaskClose, Restart,
     RestartStep, RestartClose, RestartJoin, RestartLock, RestartConnect,
     RestartFail, ResumeWait, SetReconnected, vars, queueVars, historyVars
<1>2. at' = at \/ \E to : at' = [at EXCEPT ![Engine] = to]
  BY DEF StreamDies, SignalTaskStep, SignalTaskBreak, SignalTaskClose, Restart,
     RestartStep, RestartClose, RestartJoin, RestartLock, RestartConnect,
     RestartFail, ResumeWait, SetReconnected, EngineGoes, vars
<1>3. at \in [Callers -> SenderPoints \cup EnginePoints]
  BY DEF TypeInv, PointsOK
<1>4. \A q \in Senders : at'[q] = at[q]
  BY <1>2, <1>3
<1>5. QED
  BY <1>1, <1>4, ConservedByMoving

\* A message given to SignalClient::send is in its sender's hand, in the
\* queue, written, or given up because a stream failed under it, for any
\* number of senders, messages, failures and restarts, however send,
\* flush_queue, close and restart interleave.
THEOREM MessagesConserved == Spec => []Conserved
<1>1. Init => Conserved
  BY DEF Init, Conserved
<1>2. TypeInv /\ Conserved /\ [Next]_vars => Conserved'
  <2> SUFFICES ASSUME TypeInv, Conserved, [Next]_vars PROVE Conserved'
    OBVIOUS
  <2>1. ASSUME NEW p \in Senders, Send(p) \/ SendStep(p) \/ Push(p)
        PROVE  Conserved'
    BY <2>1, SendConserved, SendReadConserved, SendResultConserved DEF SendStep
  <2>2. ASSUME NEW p \in Callers, FlushLock(p) \/ FlushStep(p)
        PROVE  Conserved'
    BY <2>2, FlushConserved
  <2>3. QED
    BY <2>1, <2>2, OthersConserved DEF Next
<1>3. QED
  BY <1>1, <1>2, TypeInvAlways, PTL DEF Spec

-----------------------------------------------------------------------------
(***************************************************************************)
(* No message is written twice                                             *)
(*                                                                         *)
(* A message that is still to be sent, or in its sender's hand, is nowhere *)
(* else; it is queued once, and leaves the queue when it is written.       *)
(***************************************************************************)
Unsent(p, n) == n > sent[p] \/ (n = sent[p] /\ at[p] # "idle")

UnsentNowhere ==
  \A p \in Senders : \A n \in 1..MaxSends :
    Unsent(p, n) => ~InQueue(<<p, n>>) /\ ~OnWire(<<p, n>>)

QueueOnce == \A i, j \in 1..Len(queue) : queue[i] = queue[j] => i = j

WireOnce == \A i, j \in 1..Len(wire) : wire[i].msg = wire[j].msg => i = j

QueueOrWire == \A k : InQueue(k) => ~OnWire(k)

OnceInv == UnsentNowhere /\ QueueOnce /\ WireOnce /\ QueueOrWire

\* One message is written that was not.
LEMMA WritesOne ==
  ASSUME HistoryOK, WireOnce, NEW m \in Message, NEW from \in {"queue", "send"},
         Written(m, from), ~OnWire(m)
  PROVE  WireOnce' /\ \A k : OnWire(k)' => OnWire(k) \/ k = m
<1>1. PICK rec \in [msg : Message, from : {"queue", "send"}] :
        wire' = Append(wire, rec) /\ rec.msg = m
  <2>1. wire' = Append(wire, [msg |-> m, from |-> from])
    BY DEF Written
  <2>2. [msg |-> m, from |-> from] \in [msg : Message, from : {"queue", "send"}]
        /\ [msg |-> m, from |-> from].msg = m
    OBVIOUS
  <2>3. QED
    BY <2>1, <2>2
<1>2. wire \in Seq([msg : Message, from : {"queue", "send"}])
  BY DEF HistoryOK
<1>3. /\ Len(wire') = Len(wire) + 1
      /\ wire'[Len(wire) + 1].msg = m
      /\ \A i \in 1..Len(wire) : wire'[i] = wire[i]
      /\ Len(wire) \in Nat
  BY <1>1, <1>2
<1>4. \A i \in 1..Len(wire) : wire[i].msg # m
  BY DEF OnWire
<1>5. WireOnce'
  <2> SUFFICES ASSUME NEW i \in 1..Len(wire'), NEW j \in 1..Len(wire'),
                      wire'[i].msg = wire'[j].msg
               PROVE  i = j
    BY DEF WireOnce
  <2>1. CASE i = Len(wire) + 1 \/ j = Len(wire) + 1
    BY <1>3, <1>4, <2>1
  <2>2. CASE i \in 1..Len(wire) /\ j \in 1..Len(wire)
    BY <1>3, <2>2 DEF WireOnce
  <2>3. QED
    BY <1>3, <2>1, <2>2
<1>6. ASSUME NEW k, OnWire(k)' PROVE OnWire(k) \/ k = m
  <2>1. PICK i \in 1..Len(wire') : wire'[i].msg = k
    BY <1>6 DEF OnWire
  <2>2. CASE i = Len(wire) + 1
    BY <1>3, <2>1, <2>2
  <2>3. CASE i \in 1..Len(wire)
    BY <1>3, <2>1, <2>3 DEF OnWire
  <2>4. QED
    BY <1>3, <2>2, <2>3
<1>7. QED
  BY <1>5, <1>6

\* A step that neither queues nor writes.
LEMMA OnceByMoving ==
  ASSUME OnceInv, UNCHANGED <<queue, wire>>,
         \A q \in Senders : \A n \in 1..MaxSends :
           Unsent(q, n)' => Unsent(q, n)
  PROVE  OnceInv'
  BY DEF OnceInv, UnsentNowhere, QueueOnce, WireOnce, QueueOrWire, InQueue,
     OnWire

\* The first message of the queue leaves it, and is written or given up.
LEMMA FlushOneOnce ==
  ASSUME TypeInv, OnceInv, NEW p \in Callers, FlushOne(p)
  PROVE  OnceInv'
<1>1. /\ queue \in Seq(Message) /\ queue # <<>> /\ queue' = Tail(queue)
      /\ Head(queue) \in Message /\ HistoryOK
      /\ UNCHANGED <<at, sent>>
  BY DEF FlushOne, Drained, TypeInv, QueueOK
<1> PICK m \in Message : m = Head(queue)
  BY <1>1
<1>2. /\ Len(queue) \in Nat /\ Len(queue) >= 1 /\ queue[1] = m
      /\ Len(queue') = Len(queue) - 1
      /\ \A i \in 1..Len(queue') : queue'[i] = queue[i + 1]
  BY <1>1
<1>3. QueueOnce'
  BY <1>2 DEF QueueOnce, OnceInv
<1>4. \A k : InQueue(k)' => InQueue(k) /\ k # m
  <2> SUFFICES ASSUME NEW k, InQueue(k)' PROVE InQueue(k) /\ k # m
    OBVIOUS
  <2>1. PICK i \in 1..Len(queue') : queue'[i] = k
    BY DEF InQueue
  <2>2. i + 1 \in 1..Len(queue) /\ i + 1 # 1 /\ queue[i + 1] = k
    BY <1>2, <2>1
  <2>3. 1 \in 1..Len(queue)
    BY <1>2
  <2>4. QED
    BY <1>2, <2>2, <2>3 DEF InQueue, QueueOnce, OnceInv
<1>5. InQueue(m)
  BY <1>2 DEF InQueue
<1>6. WireOnce' /\ \A k : OnWire(k)' => OnWire(k) \/ k = m
  <2>1. CASE Written(m, "queue")
    <3>1. ~OnWire(m)
      BY <1>5 DEF OnceInv, QueueOrWire
    <3>2. QED
      BY <1>1, <2>1, <3>1, WritesOne DEF OnceInv
  <2>2. CASE UNCHANGED wire
    BY <2>2 DEF OnceInv, WireOnce, OnWire
  <2>3. QED
    BY <2>1, <2>2 DEF FlushOne, WriteFails, SendError
<1>7. QueueOrWire'
  BY <1>4, <1>6 DEF OnceInv, QueueOrWire
<1>8. UnsentNowhere'
  <2> SUFFICES ASSUME NEW q \in Senders, NEW n \in 1..MaxSends, Unsent(q, n)'
               PROVE  ~InQueue(<<q, n>>)' /\ ~OnWire(<<q, n>>)'
    BY DEF UnsentNowhere
  <2>1. ~InQueue(<<q, n>>) /\ ~OnWire(<<q, n>>)
    BY <1>1 DEF Unsent, OnceInv, UnsentNowhere
  <2>2. QED
    BY <1>4, <1>5, <1>6, <2>1
<1>9. QED
  BY <1>3, <1>6, <1>7, <1>8 DEF OnceInv

\* The message of a sender that is sending is nowhere else.
LEMMA CurrentNowhere ==
  ASSUME TypeInv, OnceInv, NEW p \in Senders, at[p] # "idle"
  PROVE  /\ Current(p) \in Message
         /\ ~InQueue(Current(p)) /\ ~OnWire(Current(p))
<1>1. Current(p) \in Message
  BY CurrentTyped DEF TypeInv
<1>2. sent[p] \in 1..MaxSends /\ Unsent(p, sent[p])
  BY DEF TypeInv, PointsOK, Unsent
<1>3. QED
  BY <1>1, <1>2 DEF Current, OnceInv, UnsentNowhere

\* Those who are not sending keep what they have.
LEMMA UnsentShrinks ==
  ASSUME TypeInv, NEW p \in Senders, SendReturn(p), UNCHANGED sent
  PROVE  \A q \in Senders : \A n \in 1..MaxSends :
           Unsent(q, n)' => Unsent(q, n) /\ (q = p => n # sent[p])
<1>1. at \in [Callers -> SenderPoints \cup EnginePoints]
      /\ sent \in [Senders -> 0..MaxSends]
  BY DEF TypeInv, PointsOK
<1>2. at'[p] = "idle" /\ \A q \in Senders \ {p} : at'[q] = at[q]
  BY <1>1 DEF SendReturn
<1>3. QED
  BY <1>1, <1>2 DEF Unsent

LEMMA SendResultOnce ==
  ASSUME TypeInv, OnceInv, NEW p \in Senders, SendResult(p)
  PROVE  OnceInv'
<1>1. UNCHANGED <<queue, sent>> /\ at[p] # "idle"
      /\ at \in [Callers -> SenderPoints \cup EnginePoints]
  BY DEF SendResult, queueVars, TypeInv, PointsOK
<1> PICK m \in Message : m = Current(p)
  BY <1>1, CurrentNowhere
<1>2. CASE Written(m, "send") /\ SendReturn(p)
  <2>1. ~InQueue(m) /\ ~OnWire(m)
    BY <1>1, CurrentNowhere
  <2>2. WireOnce' /\ \A k : OnWire(k)' => OnWire(k) \/ k = m
    BY <1>2, <2>1, WritesOne DEF OnceInv, TypeInv
  <2>3. QueueOnce' /\ \A k : InQueue(k)' => InQueue(k)
    BY <1>1 DEF OnceInv, QueueOnce, InQueue
  <2>4. QueueOrWire'
    BY <2>1, <2>2, <2>3 DEF OnceInv, QueueOrWire
  <2>5. UnsentNowhere'
    <3> SUFFICES ASSUME NEW q \in Senders, NEW n \in 1..MaxSends, Unsent(q, n)'
                 PROVE  ~InQueue(<<q, n>>)' /\ ~OnWire(<<q, n>>)'
      BY DEF UnsentNowhere
    <3>1. Unsent(q, n) /\ <<q, n>> # m
      BY <1>1, <1>2, UnsentShrinks DEF Current
    <3>2. QED
      BY <2>2, <2>3, <3>1 DEF OnceInv, UnsentNowhere
  <2>6. QED
    BY <2>2, <2>3, <2>4, <2>5 DEF OnceInv
<1>3. CASE UNCHANGED wire
  <2>1. \A q \in Senders : at'[q] # "idle" => at[q] # "idle"
    BY <1>1 DEF SendResult, SendFailed, SendReturn
  <2>2. \A q \in Senders : \A n \in 1..MaxSends :
           Unsent(q, n)' => Unsent(q, n)
    BY <1>1, <2>1 DEF Unsent
  <2>3. QED
    BY <1>1, <1>3, <2>2, OnceByMoving
<1>4. QED
  BY <1>2, <1>3 DEF SendResult, WriteFails, SendError

LEMMA PushOnce ==
  ASSUME TypeInv, OnceInv, NEW p \in Senders, Push(p)
  PROVE  OnceInv'
<1>1. /\ UNCHANGED <<wire, sent>> /\ at[p] # "idle" /\ SendReturn(p)
      /\ queue' = Append(queue, Current(p)) /\ queue \in Seq(Message)
  BY DEF Push, Pushed, historyVars, TypeInv, QueueOK
<1> PICK m \in Message : m = Current(p)
  BY <1>1, CurrentNowhere
<1>2. ~InQueue(m) /\ ~OnWire(m)
  BY <1>1, CurrentNowhere
<1>3. /\ Len(queue') = Len(queue) + 1
      /\ queue'[Len(queue) + 1] = m
      /\ \A i \in 1..Len(queue) : queue'[i] = queue[i]
      /\ Len(queue) \in Nat
  BY <1>1
<1>4. QueueOnce'
  <2> SUFFICES ASSUME NEW i \in 1..Len(queue'), NEW j \in 1..Len(queue'),
                      queue'[i] = queue'[j]
               PROVE  i = j
    BY DEF QueueOnce
  <2>1. CASE i = Len(queue) + 1 \/ j = Len(queue) + 1
    BY <1>2, <1>3, <2>1 DEF InQueue
  <2>2. CASE i \in 1..Len(queue) /\ j \in 1..Len(queue)
    BY <1>3, <2>2 DEF QueueOnce, OnceInv
  <2>3. QED
    BY <1>3, <2>1, <2>2
<1>5. ASSUME NEW k, InQueue(k)' PROVE InQueue(k) \/ k = m
  <2>1. PICK i \in 1..Len(queue') : queue'[i] = k
    BY <1>5 DEF InQueue
  <2>2. i = Len(queue) + 1 \/ i \in 1..Len(queue)
    BY <1>3
  <2>3. QED
    BY <1>3, <2>1, <2>2 DEF InQueue
<1>6. \A k : OnWire(k)' => OnWire(k)
  BY <1>1 DEF OnWire
<1>7. WireOnce'
  BY <1>1 DEF OnceInv, WireOnce
<1>8. QueueOrWire'
  BY <1>2, <1>5, <1>6 DEF OnceInv, QueueOrWire
<1>9. UnsentNowhere'
  <2> SUFFICES ASSUME NEW q \in Senders, NEW n \in 1..MaxSends, Unsent(q, n)'
               PROVE  ~InQueue(<<q, n>>)' /\ ~OnWire(<<q, n>>)'
    BY DEF UnsentNowhere
  <2>1. Unsent(q, n) /\ <<q, n>> # m
    BY <1>1, UnsentShrinks DEF Current
  <2>2. QED
    BY <1>5, <1>6, <2>1 DEF OnceInv, UnsentNowhere
<1>10. QED
  BY <1>4, <1>7, <1>8, <1>9 DEF OnceInv

\* Every other step begins no write and puts nothing in the queue.
LEMMA OthersOnce ==
  ASSUME TypeInv, OnceInv, [Next]_vars,
         \A p \in Callers : ~FlushOne(p),
         \A p \in Senders : ~SendResult(p) /\ ~Push(p)
  PROVE  OnceInv'
<1>1. /\ at \in [Callers -> SenderPoints \cup EnginePoints]
      /\ sent \in [Senders -> 0..MaxSends]
  BY DEF TypeInv, PointsOK
<1>2. CASE \E p \in Senders : Send(p)
  <2>1. PICK p \in Senders : Send(p)
    BY <1>2
  <2>2. /\ UNCHANGED <<queue, wire>>
        /\ at[p] = "idle"
        /\ sent' = [sent EXCEPT ![p] = @ + 1]
    BY <2>1 DEF Send, queueVars, historyVars
  <2>3. PICK to : at' = [at EXCEPT ![p] = to]
    BY <2>1 DEF Send
  <2>4. \A q \in Senders : \A n \in 1..MaxSends : Unsent(q, n)' => Unsent(q, n)
    BY <1>1, <2>2, <2>3 DEF Unsent
  <2>5. QED
    BY <2>2, <2>4, OnceByMoving
<1>3. CASE ~\E p \in Senders : Send(p)
  <2>1. UNCHANGED <<queue, wire, sent>>
    BY <1>3 DEF Next, FlushLock, FlushStep, FlushRead, FlushEnd, SendStep,
       SendRead, StreamDies, SignalTaskStep, SignalTaskBreak, SignalTaskClose,
       Restart, RestartStep, RestartClose, RestartJoin, RestartLock,
       RestartConnect, RestartFail, ResumeWait, SetReconnected, vars, queueVars,
       historyVars
  <2>2. \/ \E p \in Callers : \E to :
             at[p] # "idle" /\ at' = [at EXCEPT ![p] = to]
        \/ \E to : at' = [at EXCEPT ![Engine] = to]
        \/ at' = at
    BY <1>3 DEF Next, FlushLock, FlushStep, FlushRead, FlushEnd, AfterFlush,
       SendStep, SendRead, StreamDies, SignalTaskStep, SignalTaskBreak,
       SignalTaskClose, Restart, RestartStep, RestartClose, RestartJoin,
       RestartLock, RestartConnect, RestartFail, ResumeWait, SetReconnected,
       EngineGoes, vars
  <2>3. \A q \in Senders : at'[q] # "idle" => at[q] # "idle"
    BY <1>1, <2>2
  <2>4. \A q \in Senders : \A n \in 1..MaxSends : Unsent(q, n)' => Unsent(q, n)
    BY <2>1, <2>3 DEF Unsent
  <2>5. QED
    BY <2>1, <2>4, OnceByMoving
<1>4. QED
  BY <1>2, <1>3

LEMMA OnceInvAlways == Spec => []OnceInv
<1>1. Init => OnceInv
  BY DEF Init, OnceInv, UnsentNowhere, QueueOnce, WireOnce, QueueOrWire,
     InQueue, OnWire
<1>2. TypeInv /\ OnceInv /\ [Next]_vars => OnceInv'
  BY FlushOneOnce, SendResultOnce, PushOnce, OthersOnce
<1>3. QED
  BY <1>1, <1>2, TypeInvAlways, PTL DEF Spec

\* No message given to SignalClient::send is written twice, nor is one that is
\* written still queued, however send, flush_queue and restart interleave.
THEOREM WrittenOnce == Spec => []AtMostOnce
<1>1. OnceInv => AtMostOnce
  BY DEF OnceInv, WireOnce, QueueOrWire, InQueue, AtMostOnce
<1>2. QED
  BY <1>1, OnceInvAlways, PTL

-----------------------------------------------------------------------------
(***************************************************************************)
(* The messages of one sender keep their order                             *)
(*                                                                         *)
(* The queue is in the order of the calls, and what was written came before*)
(* what is queued, early messages apart (OrderInv).  A message in its      *)
(* sender's hand is the newest.  A sender that waits to read the slot while*)
(* the queue holds a message of its own left it there because it found no  *)
(* stream; the stream it gets is then that of a restart that waits for the *)
(* slot's waiters before set_reconnected (WindowInv).                      *)
(***************************************************************************)
QueueInOrder ==
  \A i, j \in 1..Len(queue) :
    i < j /\ queue[i][1] = queue[j][1] => queue[i][2] < queue[j][2]

FlushedInOrder ==
  \A i \in 1..Len(wire) : \A k \in 1..Len(queue) :
    wire[i].msg[1] = queue[k][1] =>
      \/ wire[i].msg[2] < queue[k][2]
      \/ wire[i].from = "send" /\ wire[i].msg \in early

OrderInv == QueueInOrder /\ FlushedInOrder /\ SenderOrder

HasQueued(p) == \E k \in 1..Len(queue) : queue[k][1] = p

Asks(p) == [who |-> p, write |-> FALSE]

\* A sender that is to read the slot is among its waiters.
Asking ==
  \A p \in Senders : at[p] = "read" =>
    \E i \in 1..Len(waiters) : waiters[i] = Asks(p)

FlagSet == at[Engine] \in {"lock", "connect", "resuming"} => reconnecting

OnlyQueueable ==
  \A p \in Senders : HasQueued(p) \/ at[p] = "push" => p \in Queueable

ReadsLate ==
  \A p \in Senders : at[p] = "read" /\ HasQueued(p) =>
    stream = None \/ at[Engine] = "resuming"

SendsEarly ==
  \A p \in Senders : at[p] = "sending" /\ HasQueued(p) => Current(p) \in early

WindowInv == Asking /\ FlagSet /\ OnlyQueueable /\ ReadsLate /\ SendsEarly

LEMMA WireRecord ==
  ASSUME HistoryOK, NEW i \in 1..Len(wire)
  PROVE  wire[i].msg \in Message /\ wire[i].from \in {"queue", "send"}
<1> DEFINE Record == [msg : Message, from : {"queue", "send"}]
<1>1. wire \in Seq(Record)
  BY DEF HistoryOK
<1>2. wire[i] \in Record
  <2> HIDE DEF Record
  <2>1. QED
    BY <1>1
<1>3. QED
  BY <1>2

\* What a sender has in hand comes after all that it has queued or written.
LEMMA CurrentIsNewest ==
  ASSUME TypeInv, OnceInv, NEW p \in Senders, at[p] # "idle"
  PROVE  /\ \A k \in 1..Len(queue) : queue[k][1] = p => queue[k][2] < sent[p]
         /\ \A i \in 1..Len(wire) :
              wire[i].msg[1] = p => wire[i].msg[2] < sent[p]
<1>1. sent[p] \in 0..MaxSends
  BY DEF TypeInv, PointsOK
<1>2. ASSUME NEW m \in Message, m[1] = p, InQueue(m) \/ OnWire(m)
      PROVE  m[2] < sent[p]
  <2>1. m = <<p, m[2]>> /\ m[2] \in 1..MaxSends
    BY <1>2 DEF Message
  <2>2. ~Unsent(p, m[2])
    BY <1>2, <2>1 DEF OnceInv, UnsentNowhere
  <2>3. QED
    BY <1>1, <2>1, <2>2 DEF Unsent
<1>3. ASSUME NEW k \in 1..Len(queue), queue[k][1] = p
      PROVE  queue[k][2] < sent[p]
  <2>1. queue[k] \in Message /\ InQueue(queue[k])
    BY DEF TypeInv, QueueOK, InQueue
  <2>2. QED
    BY <1>2, <1>3, <2>1
<1>4. ASSUME NEW i \in 1..Len(wire), wire[i].msg[1] = p
      PROVE  wire[i].msg[2] < sent[p]
  <2>1. wire[i].msg \in Message /\ OnWire(wire[i].msg)
    BY WireRecord DEF TypeInv, OnWire
  <2>2. QED
    BY <1>2, <1>4, <2>1
<1>5. QED
  BY <1>3, <1>4

\* A message is written after all that wire holds.
LEMMA WritesLast ==
  ASSUME HistoryOK, NEW m \in Message, NEW from \in {"queue", "send"},
         Written(m, from)
  PROVE  /\ Len(wire) \in Nat /\ Len(wire') = Len(wire) + 1
         /\ \A i \in 1..Len(wire) : wire'[i] = wire[i]
         /\ wire'[Len(wire) + 1].msg = m /\ wire'[Len(wire) + 1].from = from
<1>1. wire' = Append(wire, [msg |-> m, from |-> from])
  BY DEF Written
<1>2. [msg |-> m, from |-> from] \in [msg : Message, from : {"queue", "send"}]
  OBVIOUS
<1>3. QED
  BY <1>1, <1>2 DEF HistoryOK

\* If it is newer than those of its sender that it has to follow, the order is
\* kept.
LEMMA WritesInOrder ==
  ASSUME HistoryOK, SenderOrder, NEW m \in Message,
         NEW from \in {"queue", "send"}, Written(m, from),
         \A i \in 1..Len(wire) :
           wire[i].msg[1] = m[1] =>
             \/ wire[i].msg[2] < m[2]
             \/ /\ wire[i].from = "send" /\ wire[i].msg \in early
                /\ from = "queue"
  PROVE  SenderOrder'
<1>0. UNCHANGED early
  BY DEF Written
<1>1. /\ Len(wire) \in Nat /\ Len(wire') = Len(wire) + 1
      /\ \A i \in 1..Len(wire) : wire'[i] = wire[i]
      /\ wire'[Len(wire) + 1].msg = m /\ wire'[Len(wire) + 1].from = from
  BY WritesLast
<1>2. SUFFICES ASSUME NEW i \in 1..Len(wire'), NEW j \in 1..Len(wire'),
                      i < j, wire'[i].msg[1] = wire'[j].msg[1]
               PROVE  \/ wire'[i].msg[2] < wire'[j].msg[2]
                      \/ /\ wire'[i].from = "send" /\ wire'[i].msg \in early
                         /\ wire'[j].from = "queue"
  BY <1>0 DEF SenderOrder
<1>3. i \in 1..Len(wire) /\ (j \in 1..Len(wire) \/ j = Len(wire) + 1)
  BY <1>1, <1>2
<1>4. QED
  BY <1>1, <1>2, <1>3 DEF SenderOrder

LEMMA FlushOneOrder ==
  ASSUME TypeInv, OrderInv, NEW p \in Callers, FlushOne(p)
  PROVE  OrderInv'
<1>1. /\ queue \in Seq(Message) /\ queue # <<>> /\ queue' = Tail(queue)
      /\ HistoryOK
  BY DEF FlushOne, Drained, TypeInv, QueueOK
<1> PICK m \in Message : m = Head(queue)
  BY <1>1
<1>2. /\ 1 \in 1..Len(queue) /\ queue[1] = m
      /\ \A i \in 1..Len(queue') :
           /\ i + 1 \in 1..Len(queue) /\ 1 < i + 1
           /\ queue'[i] = queue[i + 1]
  BY <1>1
<1>3. \A k \in 1..Len(queue') : m[1] = queue'[k][1] => m[2] < queue'[k][2]
  BY <1>2 DEF OrderInv, QueueInOrder
<1>4. QueueInOrder'
  <2>1. \A i, j \in 1..Len(queue') : i < j => i + 1 < j + 1
    BY <1>2
  <2>2. QED
    BY <1>2, <2>1 DEF OrderInv, QueueInOrder
<1>5. CASE UNCHANGED <<wire, early>>
  BY <1>2, <1>4, <1>5 DEF OrderInv, FlushedInOrder, SenderOrder
<1>6. CASE Written(m, "queue")
  <2>1. \A i \in 1..Len(wire) :
          wire[i].msg[1] = m[1] =>
            \/ wire[i].msg[2] < m[2]
            \/ wire[i].from = "send" /\ wire[i].msg \in early
    BY <1>2 DEF OrderInv, FlushedInOrder
  <2>2. SenderOrder'
    BY <1>1, <1>6, <2>1, WritesInOrder DEF OrderInv
  <2>3. /\ Len(wire) \in Nat /\ Len(wire') = Len(wire) + 1
        /\ \A i \in 1..Len(wire) : wire'[i] = wire[i]
        /\ wire'[Len(wire) + 1].msg = m
        /\ UNCHANGED early
    BY <1>1, <1>6, WritesLast DEF Written
  <2>4. FlushedInOrder'
    <3>1. ASSUME NEW i \in 1..Len(wire'), NEW k \in 1..Len(queue'),
                 wire'[i].msg[1] = queue'[k][1]
          PROVE  \/ wire'[i].msg[2] < queue'[k][2]
                 \/ wire'[i].from = "send" /\ wire'[i].msg \in early
      <4>1. CASE i = Len(wire) + 1
        BY <1>3, <2>3, <3>1, <4>1
      <4>2. CASE i \in 1..Len(wire)
        <5>1. wire'[i] = wire[i] /\ queue'[k] = queue[k + 1]
              /\ k + 1 \in 1..Len(queue)
          BY <1>2, <2>3, <4>2
        <5>2. wire[i].msg[1] = queue[k + 1][1]
          BY <3>1, <5>1
        <5>3. \/ wire[i].msg[2] < queue[k + 1][2]
              \/ wire[i].from = "send" /\ wire[i].msg \in early
          BY <4>2, <5>1, <5>2 DEF OrderInv, FlushedInOrder
        <5>4. QED
          BY <5>1, <5>3
      <4>3. QED
        BY <2>3, <4>1, <4>2
    <3>2. QED
      BY <2>3, <3>1 DEF FlushedInOrder
  <2>5. QED
    BY <1>4, <2>2, <2>4 DEF OrderInv
<1>7. QED
  BY <1>5, <1>6 DEF FlushOne, WriteFails, SendError

LEMMA SendResultOrder ==
  ASSUME TypeInv, OnceInv, OrderInv, WindowInv, NEW p \in Senders,
         SendResult(p)
  PROVE  OrderInv'
<1>1. /\ queue' = queue /\ early' = early /\ at[p] = "sending" /\ HistoryOK
      /\ sent[p] \in 0..MaxSends
  BY DEF SendResult, Written, WriteFails, SendError, queueVars, TypeInv,
     PointsOK
<1> PICK m \in Message : m = Current(p)
  BY <1>1, CurrentNowhere
<1>2. m[1] = p /\ m[2] = sent[p]
  BY DEF Current
<1>3. CASE UNCHANGED wire
  BY <1>1, <1>3 DEF OrderInv, QueueInOrder, FlushedInOrder, SenderOrder
<1>4. CASE Written(m, "send")
  <2>1. SenderOrder'
    BY <1>1, <1>2, <1>4, CurrentIsNewest, WritesInOrder DEF OrderInv
  <2>2. /\ Len(wire) \in Nat /\ Len(wire') = Len(wire) + 1
        /\ \A i \in 1..Len(wire) : wire'[i] = wire[i]
        /\ wire'[Len(wire) + 1].from = "send"
        /\ wire'[Len(wire) + 1].msg = m
    BY <1>1, <1>4, WritesLast
  <2>3. HasQueued(p) => m \in early
    BY <1>1 DEF WindowInv, SendsEarly
  <2>4. ASSUME NEW i \in 1..Len(wire'), NEW k \in 1..Len(queue),
               wire'[i].msg[1] = queue[k][1]
        PROVE  \/ wire'[i].msg[2] < queue[k][2]
               \/ wire'[i].from = "send" /\ wire'[i].msg \in early
    <3>1. CASE i = Len(wire) + 1
      BY <1>2, <2>2, <2>3, <2>4, <3>1 DEF HasQueued
    <3>2. CASE i \in 1..Len(wire)
      BY <2>2, <2>4, <3>2 DEF OrderInv, FlushedInOrder
    <3>3. QED
      BY <2>2, <3>1, <3>2
  <2>5. FlushedInOrder'
    BY <1>1, <2>4 DEF FlushedInOrder
  <2>6. QED
    BY <1>1, <2>1, <2>5 DEF OrderInv, QueueInOrder
<1>5. QED
  BY <1>3, <1>4 DEF SendResult, WriteFails, SendError

LEMMA PushOrder ==
  ASSUME TypeInv, OnceInv, OrderInv, NEW p \in Senders, Push(p)
  PROVE  OrderInv'
<1>1. /\ wire' = wire /\ early' = early /\ at[p] # "idle"
      /\ queue' = Append(queue, Current(p)) /\ queue \in Seq(Message)
  BY DEF Push, Pushed, historyVars, TypeInv, QueueOK
<1> PICK m \in Message : m = Current(p)
  BY <1>1, CurrentNowhere
<1>2. m[1] = p /\ m[2] = sent[p]
  BY DEF Current
<1>3. /\ Len(queue') = Len(queue) + 1
      /\ queue'[Len(queue) + 1] = m
      /\ \A i \in 1..Len(queue) : queue'[i] = queue[i]
      /\ Len(queue) \in Nat
  BY <1>1
<1>4. QueueInOrder'
  <2>1. ASSUME NEW i \in 1..Len(queue'), NEW j \in 1..Len(queue'), i < j,
               queue'[i][1] = queue'[j][1]
        PROVE  queue'[i][2] < queue'[j][2]
    <3>1. i \in 1..Len(queue) /\ (j \in 1..Len(queue) \/ j = Len(queue) + 1)
      BY <1>3, <2>1
    <3>2. CASE j \in 1..Len(queue)
      BY <1>3, <2>1, <3>1, <3>2 DEF OrderInv, QueueInOrder
    <3>3. CASE j = Len(queue) + 1
      BY <1>1, <1>2, <1>3, <2>1, <3>1, <3>3, CurrentIsNewest
    <3>4. QED
      BY <3>1, <3>2, <3>3
  <2>2. QED
    BY <2>1 DEF QueueInOrder
<1>5. FlushedInOrder'
  <2>1. ASSUME NEW i \in 1..Len(wire), NEW k \in 1..Len(queue'),
               wire[i].msg[1] = queue'[k][1]
        PROVE  \/ wire[i].msg[2] < queue'[k][2]
               \/ wire[i].from = "send" /\ wire[i].msg \in early
    <3>1. CASE k \in 1..Len(queue)
      BY <1>3, <2>1, <3>1 DEF OrderInv, FlushedInOrder
    <3>2. CASE k = Len(queue) + 1
      BY <1>1, <1>2, <1>3, <2>1, <3>2, CurrentIsNewest
    <3>3. QED
      BY <1>3, <3>1, <3>2
  <2>2. QED
    BY <1>1, <2>1 DEF FlushedInOrder
<1>6. QED
  BY <1>1, <1>4, <1>5 DEF OrderInv, SenderOrder

\* No other step touches the queue or the wire.
LEMMA OthersOrder ==
  ASSUME OrderInv, [Next]_vars,
         \A p \in Callers : ~FlushOne(p),
         \A p \in Senders : ~SendResult(p) /\ ~Push(p)
  PROVE  OrderInv'
<1>1. UNCHANGED <<queue, wire>> /\ early \subseteq early'
  BY DEF Next, FlushLock, FlushStep, FlushRead, FlushEnd, Send, SendStep,
     SendRead, StreamDies, SignalTaskStep, SignalTaskBreak, SignalTaskClose,
     Restart, RestartStep, RestartClose, RestartJoin, RestartLock,
     RestartConnect, RestartFail, ResumeWait, SetReconnected, vars, queueVars,
     historyVars
<1>2. QED
  BY <1>1 DEF OrderInv, QueueInOrder, FlushedInOrder, SenderOrder

-----------------------------------------------------------------------------
(***************************************************************************)
(* WindowInv                                                               *)
(***************************************************************************)
\* What a sender does itself.
OwnStep(p) ==
  FlushLock(p) \/ FlushStep(p) \/ Send(p) \/ SendStep(p) \/ Push(p)

\* Only its own steps move a sender.
LEMMA OthersLeave ==
  ASSUME TypeInv, [Next]_vars, NEW p \in Senders, ~OwnStep(p)
  PROVE  at'[p] = at[p] /\ sent'[p] = sent[p]
<1>1. at \in [Callers -> SenderPoints \cup EnginePoints]
      /\ sent \in [Senders -> 0..MaxSends] /\ p # Engine
  BY DEF TypeInv, PointsOK
<1>2. CASE \E q \in Callers : FlushLock(q) \/ FlushStep(q)
  <2>1. PICK q \in Callers : FlushLock(q) \/ FlushStep(q)
    BY <1>2
  <2>2. q # p
    BY <2>1 DEF OwnStep
  <2>3. UNCHANGED sent
    BY <2>1 DEF FlushLock, FlushStep, FlushRead, FlushOne, FlushEnd
  <2>4. at' = at \/ \E to : at' = [at EXCEPT ![q] = to]
    BY <2>1 DEF FlushLock, FlushStep, FlushRead, FlushOne, FlushEnd, AfterFlush
  <2>5. QED
    BY <1>1, <2>2, <2>3, <2>4
<1>3. CASE \E q \in Senders : Send(q) \/ SendStep(q) \/ Push(q)
  <2>1. PICK q \in Senders : Send(q) \/ SendStep(q) \/ Push(q)
    BY <1>3
  <2>2. q # p
    BY <2>1 DEF OwnStep
  <2>3. sent' = sent \/ sent' = [sent EXCEPT ![q] = @ + 1]
    BY <2>1 DEF Send, SendStep, SendRead, SendResult, Push
  <2>4. \E to : at' = [at EXCEPT ![q] = to]
    BY <2>1 DEF Send, SendStep, SendRead, SendResult, SendFailed, SendReturn,
       Push
  <2>5. QED
    BY <1>1, <2>2, <2>3, <2>4
<1>4. CASE \/ StreamDies \/ (\E s \in Streams : SignalTaskStep(s))
           \/ UNCHANGED vars
  BY <1>4 DEF StreamDies, SignalTaskStep, SignalTaskBreak, SignalTaskClose, vars
<1>5. CASE Restart \/ RestartStep
  <2>1. sent' = sent /\ \E to : at' = [at EXCEPT ![Engine] = to]
    BY <1>5 DEF Restart, RestartStep, RestartClose, RestartJoin, RestartLock,
       RestartConnect, RestartFail, ResumeWait, SetReconnected, EngineGoes
  <2>2. QED
    BY <1>1, <2>1
<1>6. QED
  BY <1>2, <1>3, <1>4, <1>5 DEF Next

\* Only its own push brings a message of a sender into the queue.
LEMMA QueuedStays ==
  ASSUME TypeInv, OnceInv, [Next]_vars, NEW p \in Senders, ~Push(p),
         HasQueued(p)'
  PROVE  HasQueued(p)
<1>1. queue \in Seq(Message)
  BY DEF TypeInv, QueueOK
<1>2. PICK k \in 1..Len(queue') : queue'[k][1] = p
  BY DEF HasQueued
<1>3. CASE UNCHANGED queue
  BY <1>3 DEF HasQueued
<1>4. CASE \E q \in Callers : FlushOne(q)
  <2>1. queue # <<>> /\ queue' = Tail(queue)
    BY <1>4 DEF FlushOne, Drained
  <2>2. k + 1 \in 1..Len(queue) /\ queue'[k] = queue[k + 1]
    BY <1>1, <1>2, <2>1
  <2>3. QED
    BY <1>2, <2>2 DEF HasQueued
<1>5. CASE \E q \in Senders : Push(q)
  <2>1. PICK q \in Senders : Push(q)
    BY <1>5
  <2>2. queue' = Append(queue, Current(q)) /\ at[q] # "idle" /\ q # p
    BY <2>1 DEF Push, Pushed
  <2>3. PICK m \in Message : m = Current(q)
    BY <2>2, CurrentNowhere
  <2>4. m[1] = q
    BY <2>3 DEF Current
  <2>5. k \in 1..Len(queue) /\ queue'[k] = queue[k]
    BY <1>1, <1>2, <2>2, <2>3, <2>4
  <2>6. QED
    BY <1>2, <2>5 DEF HasQueued
<1>6. QED
  BY <1>3, <1>4, <1>5 DEF Next, FlushLock, FlushStep, FlushRead, FlushEnd, Send,
     SendStep, SendRead, SendResult, StreamDies, SignalTaskStep,
     SignalTaskBreak, SignalTaskClose, Restart, RestartStep, RestartClose,
     RestartJoin, RestartLock, RestartConnect, RestartFail, ResumeWait,
     SetReconnected, vars, queueVars

\* A sender's request stays until it is granted.
LEMMA AskedStays ==
  ASSUME TypeInv, NEW p \in Senders,
         NEW i \in 1..Len(waiters), waiters[i] = Asks(p),
         \/ UNCHANGED waiters
         \/ \E who \in Callers \cup Streams, w \in BOOLEAN : Request(who, w)
         \/ \E who : WriteGranted(who)
         \/ \E q \in Callers : q # p /\ ReadGranted(q)
  PROVE  \E j \in 1..Len(waiters') : waiters'[j] = Asks(p)
<1>1. waiters \in Seq(Req)
  BY DEF TypeInv, WaitersOK
<1>2. CASE UNCHANGED waiters
  BY <1>2
<1>3. CASE \E who \in Callers \cup Streams, w \in BOOLEAN : Request(who, w)
  <2>1. PICK r \in Req : waiters' = Append(waiters, r)
    BY <1>3 DEF Request, Req
  <2>2. i \in 1..Len(waiters') /\ waiters'[i] = waiters[i]
    BY <1>1, <2>1
  <2>3. QED
    BY <2>2
<1>4. CASE \/ \E who : WriteGranted(who)
           \/ \E q \in Callers : q # p /\ ReadGranted(q)
  <2>1. waiters # <<>> /\ waiters' = Tail(waiters) /\ Head(waiters) # Asks(p)
    BY <1>4 DEF WriteGranted, ReadGranted, IsNext, Asks
  <2>2. i # 1
    BY <1>1, <2>1
  <2>3. i - 1 \in 1..Len(waiters') /\ waiters'[i - 1] = waiters[i]
    BY <1>1, <2>1, <2>2
  <2>4. QED
    BY <2>3
<1>5. QED
  BY <1>2, <1>3, <1>4

\* What the other tasks do to the slot's waiters.
LEMMA WaitersMove ==
  ASSUME TypeInv, [Next]_vars, NEW p \in Senders, ~OwnStep(p)
  PROVE  \/ UNCHANGED waiters
         \/ \E who \in Callers \cup Streams, w \in BOOLEAN : Request(who, w)
         \/ \E who : WriteGranted(who)
         \/ \E q \in Callers : q # p /\ ReadGranted(q)
<1>1. CASE \E q \in Callers : FlushLock(q) \/ FlushStep(q)
  <2>1. PICK q \in Callers : (FlushLock(q) \/ FlushStep(q)) /\ q # p
    BY <1>1 DEF OwnStep
  <2>2. UNCHANGED waiters \/ Request(q, FALSE) \/ ReadGranted(q)
    BY <2>1 DEF FlushLock, FlushStep, FlushRead, FlushOne, FlushEnd, AfterFlush
  <2>3. QED
    BY <2>1, <2>2
<1>2. CASE \E q \in Senders : Send(q) \/ SendStep(q) \/ Push(q)
  <2>1. PICK q \in Senders : (Send(q) \/ SendStep(q) \/ Push(q)) /\ q # p
    BY <1>2 DEF OwnStep
  <2>2. UNCHANGED waiters \/ Request(q, FALSE) \/ ReadGranted(q)
    BY <2>1 DEF Send, SendStep, SendRead, SendResult, Push
  <2>3. QED
    BY <2>1, <2>2
<1>3. CASE \/ StreamDies \/ (\E s \in Streams : SignalTaskStep(s))
           \/ UNCHANGED vars
  BY <1>3 DEF StreamDies, SignalTaskStep, SignalTaskBreak, SignalTaskClose,
     vars, slotVars
<1>4. CASE Restart \/ RestartStep
  BY <1>4 DEF Restart, RestartStep, RestartClose, RestartJoin, RestartLock,
     RestartConnect, RestartFail, ResumeWait, SetReconnected, slotVars
<1>5. QED
  BY <1>1, <1>2, <1>3, <1>4 DEF Next

\* The flag is set while the slot is locked for a new stream and until
\* set_reconnected.
LEMMA FlagSetStep ==
  ASSUME TypeInv, FlagSet, [Next]_vars
  PROVE  FlagSet'
<1>1. at \in [Callers -> SenderPoints \cup EnginePoints]
  BY DEF TypeInv, PointsOK
<1>2. CASE \E q \in Callers : FlushLock(q) \/ FlushStep(q)
  <2>1. PICK q \in Callers : FlushLock(q) \/ FlushStep(q)
    BY <1>2
  <2>2. UNCHANGED reconnecting
    BY <2>1 DEF FlushLock, FlushStep, FlushRead, FlushOne, FlushEnd
  <2>3. at' = at \/ \E to \in {"idle", "read", "flush_read", "flushing"} :
                       at' = [at EXCEPT ![q] = to]
    BY <2>1 DEF FlushLock, FlushStep, FlushRead, FlushOne, FlushEnd, AfterFlush
  <2>4. QED
    BY <1>1, <2>2, <2>3 DEF FlagSet
<1>3. CASE \E q \in Senders : Send(q) \/ SendStep(q) \/ Push(q)
  <2>1. PICK q \in Senders : Send(q) \/ SendStep(q) \/ Push(q)
    BY <1>3
  <2>2. UNCHANGED reconnecting /\ \E to : at' = [at EXCEPT ![q] = to]
    BY <2>1 DEF Send, SendStep, SendRead, SendResult, SendFailed, SendReturn,
       Push
  <2>3. at'[Engine] = at[Engine]
    BY <1>1, <2>2
  <2>4. QED
    BY <2>2, <2>3 DEF FlagSet
<1>4. CASE \/ StreamDies \/ (\E s \in Streams : SignalTaskStep(s))
           \/ UNCHANGED vars
  BY <1>4 DEF StreamDies, SignalTaskStep, SignalTaskBreak, SignalTaskClose,
     vars, FlagSet
<1>5. CASE Restart \/ RestartStep
  BY <1>1, <1>5 DEF Restart, RestartStep, RestartClose, RestartJoin,
     RestartLock, RestartConnect, RestartFail, ResumeWait, SetReconnected,
     EngineGoes, FlagSet
<1>6. QED
  BY <1>2, <1>3, <1>4, <1>5 DEF Next

\* A step of the sender itself.
LEMMA OwnWindow ==
  ASSUME TypeInv, OnceInv, WindowInv, [Next]_vars, NEW p \in Senders, OwnStep(p)
  PROVE  /\ at'[p] = "read" =>
              \E i \in 1..Len(waiters') : waiters'[i] = Asks(p)
         /\ HasQueued(p)' \/ at'[p] = "push" => p \in Queueable
         /\ at'[p] = "read" /\ HasQueued(p)' =>
              stream' = None \/ at'[Engine] = "resuming"
         /\ at'[p] = "sending" /\ HasQueued(p)' => Current(p)' \in early'
<1>1. /\ at \in [Callers -> SenderPoints \cup EnginePoints]
      /\ waiters \in Seq(Req) /\ p # Engine /\ Asks(p) \in Req
  BY DEF TypeInv, PointsOK, WaitersOK, Asks, Req
<1>2. ASSUME Request(p, FALSE)
      PROVE  \E i \in 1..Len(waiters') : waiters'[i] = Asks(p)
  <2>1. waiters' = Append(waiters, Asks(p))
    BY <1>2 DEF Request, Asks
  <2>2. Len(waiters) + 1 \in 1..Len(waiters')
        /\ waiters'[Len(waiters) + 1] = Asks(p)
    BY <1>1, <2>1
  <2>3. QED
    BY <2>2
<1>3. HasQueued(p)' /\ ~Push(p) => HasQueued(p) /\ p \in Queueable
  BY QueuedStays DEF WindowInv, OnlyQueueable
<1>4. CASE FlushLock(p) \/ FlushEnd(p)
  <2>1. /\ at'[p] # "push" /\ at'[p] # "sending" /\ UNCHANGED <<queue, stream>>
        /\ at'[p] = "read" => /\ Request(p, FALSE)
                              /\ queue = <<>> \/ stream = None
    BY <1>1, <1>4 DEF FlushLock, FlushEnd, AfterFlush
  <2>2. ~Push(p)
    BY <1>4 DEF FlushLock, FlushEnd, Push
  <2>3. queue' = <<>> => ~HasQueued(p)'
    BY DEF HasQueued
  <2>4. QED
    BY <1>2, <1>3, <2>1, <2>2, <2>3
<1>5. CASE FlushRead(p) \/ FlushOne(p)
  <2>1. at'[p] = "flushing" /\ ~Push(p)
    BY <1>1, <1>5 DEF FlushRead, FlushOne, Push
  <2>2. QED
    BY <1>3, <2>1
<1>6. CASE Send(p)
  <2>1. /\ at'[p] # "sending"
        /\ at'[p] = "push" => p \in Queueable
        /\ at'[p] = "read" => Request(p, FALSE) /\ p \notin Queueable
    BY <1>1, <1>6 DEF Send
  <2>2. ~Push(p)
    BY <1>6 DEF Send, Push
  <2>3. QED
    BY <1>2, <1>3, <2>1, <2>2
<1>7. CASE SendRead(p)
  <2>1. /\ at[p] = "read" /\ at'[p] # "read" /\ UNCHANGED sent
        /\ at'[p] = "push" => p \in Queueable
        /\ at'[p] = "sending" =>
             /\ stream # None
             /\ reconnecting => Current(p) \in early'
    BY <1>1, <1>7 DEF SendRead
  <2>2. ~Push(p)
    BY <2>1 DEF Push
  <2>3. ASSUME at'[p] = "sending", HasQueued(p)' PROVE Current(p)' \in early'
    <3>1. at[Engine] = "resuming"
      BY <1>3, <2>1, <2>2, <2>3 DEF WindowInv, ReadsLate
    <3>2. reconnecting
      BY <3>1 DEF WindowInv, FlagSet
    <3>3. Current(p)' = Current(p)
      BY <2>1 DEF Current
    <3>4. QED
      BY <2>1, <2>3, <3>2, <3>3
  <2>4. QED
    BY <1>3, <2>1, <2>2, <2>3
<1>8. CASE SendResult(p)
  <2>1. at'[p] = "idle" \/ (at'[p] = "push" /\ p \in Queueable)
    BY <1>1, <1>8 DEF SendResult, SendFailed, SendReturn
  <2>2. ~Push(p)
    BY <1>8 DEF SendResult, Push
  <2>3. QED
    BY <1>3, <2>1, <2>2
<1>9. CASE Push(p)
  <2>1. at[p] = "push" /\ at'[p] = "idle"
    BY <1>1, <1>9 DEF Push, SendReturn
  <2>2. QED
    BY <2>1 DEF WindowInv, OnlyQueueable
<1>10. QED
  BY <1>4, <1>5, <1>6, <1>7, <1>8, <1>9 DEF OwnStep, FlushStep, SendStep

\* A step of the others.  A stream comes into the slot at a restart that then
\* waits for the slot's waiters.
LEMMA OthersWindow ==
  ASSUME TypeInv, OnceInv, WindowInv, [Next]_vars, NEW p \in Senders,
         ~OwnStep(p)
  PROVE  /\ at'[p] = "read" =>
              \E i \in 1..Len(waiters') : waiters'[i] = Asks(p)
         /\ HasQueued(p)' \/ at'[p] = "push" => p \in Queueable
         /\ at'[p] = "read" /\ HasQueued(p)' =>
              stream' = None \/ at'[Engine] = "resuming"
         /\ at'[p] = "sending" /\ HasQueued(p)' => Current(p)' \in early'
<1>1. at'[p] = at[p] /\ sent'[p] = sent[p]
  BY OthersLeave
<1>2. HasQueued(p)' => HasQueued(p)
  BY QueuedStays DEF OwnStep
<1>3. early \subseteq early'
  BY DEF Next, FlushLock, FlushStep, FlushRead, FlushOne, FlushEnd, Send,
     SendStep, SendRead, SendResult, Written, WriteFails, SendError, Push,
     StreamDies, SignalTaskStep, SignalTaskBreak, SignalTaskClose, Restart,
     RestartStep, RestartClose, RestartJoin, RestartLock, RestartConnect,
     RestartFail, ResumeWait, SetReconnected, vars, historyVars
<1>4. at'[p] = "read" =>
        \E i \in 1..Len(waiters') : waiters'[i] = Asks(p)
  BY <1>1, WaitersMove, AskedStays DEF WindowInv, Asking
<1>5. at'[p] = "sending" /\ HasQueued(p)' => Current(p)' \in early'
  BY <1>1, <1>2, <1>3 DEF WindowInv, SendsEarly, Current
<1>6. ASSUME at'[p] = "read", HasQueued(p)'
      PROVE  stream' = None \/ at'[Engine] = "resuming"
  <2>1. stream = None \/ at[Engine] = "resuming"
    BY <1>1, <1>2, <1>6 DEF WindowInv, ReadsLate
  <2>2. waiters # <<>>
    <3>1. PICK i \in 1..Len(waiters) : waiters[i] = Asks(p)
      BY <1>1, <1>6 DEF WindowInv, Asking
    <3>2. QED
      BY <3>1
  <2>3. at \in [Callers -> SenderPoints \cup EnginePoints]
    BY DEF TypeInv, PointsOK
  <2>4. CASE RestartConnect
    BY <2>3, <2>4 DEF RestartConnect, EngineGoes
  <2>5. CASE ~RestartConnect
    <3>1. stream' = stream \/ stream' = None
      BY <2>5 DEF Next, FlushLock, FlushStep, FlushRead, FlushOne, FlushEnd,
         Send, SendStep, SendRead, SendResult, Push, StreamDies,
         SignalTaskStep, SignalTaskBreak, SignalTaskClose, Restart,
         RestartStep, RestartClose, RestartJoin, RestartLock, RestartFail,
         ResumeWait, SetReconnected, vars, slotVars
    <3>2. at[Engine] = "resuming" => at'[Engine] = at[Engine]
      <4> SUFFICES ASSUME at[Engine] = "resuming"
                   PROVE  at'[Engine] = at[Engine]
        OBVIOUS
      <4>1. CASE \E q \in Callers : FlushLock(q) \/ FlushStep(q)
        <5>1. PICK q \in Callers : FlushLock(q) \/ FlushStep(q)
          BY <4>1
        <5>2. q # Engine
          BY <5>1 DEF FlushLock, FlushStep, FlushRead, FlushOne, FlushEnd
        <5>3. at' = at \/ \E to : at' = [at EXCEPT ![q] = to]
          BY <5>1 DEF FlushLock, FlushStep, FlushRead, FlushOne, FlushEnd,
             AfterFlush
        <5>4. QED
          BY <2>3, <5>2, <5>3
      <4>2. CASE \E q \in Senders : Send(q) \/ SendStep(q) \/ Push(q)
        <5>1. PICK q \in Senders : Send(q) \/ SendStep(q) \/ Push(q)
          BY <4>2
        <5>2. \E to : at' = [at EXCEPT ![q] = to]
          BY <5>1 DEF Send, SendStep, SendRead, SendResult, SendFailed,
             SendReturn, Push
        <5>3. QED
          BY <2>3, <5>2
      <4>3. CASE \/ StreamDies \/ (\E s \in Streams : SignalTaskStep(s))
                 \/ UNCHANGED vars
        BY <4>3 DEF StreamDies, SignalTaskStep, SignalTaskBreak,
           SignalTaskClose, vars
      <4>4. CASE Restart \/ RestartStep
        BY <2>2, <2>5, <4>4 DEF Restart, RestartStep, RestartClose,
           RestartJoin, RestartLock, RestartFail, ResumeWait, SetReconnected
      <4>5. QED
        BY <4>1, <4>2, <4>3, <4>4 DEF Next
    <3>3. QED
      BY <2>1, <3>1, <3>2
  <2>6. QED
    BY <2>4, <2>5
<1>7. HasQueued(p)' \/ at'[p] = "push" => p \in Queueable
  BY <1>1, <1>2 DEF WindowInv, OnlyQueueable
<1>8. QED
  BY <1>4, <1>5, <1>6, <1>7

LEMMA WindowStep ==
  ASSUME TypeInv, OnceInv, WindowInv, [Next]_vars
  PROVE  WindowInv'
<1>1. FlagSet'
  BY FlagSetStep DEF WindowInv
<1>2. \A p \in Senders :
        /\ at'[p] = "read" =>
             \E i \in 1..Len(waiters') : waiters'[i] = Asks(p)
        /\ HasQueued(p)' \/ at'[p] = "push" => p \in Queueable
        /\ at'[p] = "read" /\ HasQueued(p)' =>
             stream' = None \/ at'[Engine] = "resuming"
        /\ at'[p] = "sending" /\ HasQueued(p)' => Current(p)' \in early'
  BY OwnWindow, OthersWindow
<1>3. Asking' /\ OnlyQueueable' /\ ReadsLate' /\ SendsEarly'
  BY <1>2 DEF Asking, OnlyQueueable, ReadsLate, SendsEarly, Asks
<1>4. QED
  BY <1>1, <1>3 DEF WindowInv

LEMMA WindowInvAlways == Spec => []WindowInv
<1>1. Init => WindowInv
  BY DEF Init, WindowInv, Asking, FlagSet, OnlyQueueable, ReadsLate,
     SendsEarly, HasQueued
<1>2. QED
  BY <1>1, WindowStep, TypeInvAlways, OnceInvAlways, PTL DEF Spec

\* The messages of one sender reach the WebSocket in the order of its calls of
\* SignalClient::send, however they are queued, flushed and interrupted.  Only
\* a message queued before a restart can be overtaken, by one that its sender
\* was already sending when the flag was set and that is given to the new
\* stream before set_reconnected.
THEOREM WrittenInOrder == Spec => []SenderOrder
<1>1. Init => OrderInv
  BY DEF Init, OrderInv, QueueInOrder, FlushedInOrder, SenderOrder
<1>2. TypeInv /\ OnceInv /\ WindowInv /\ OrderInv /\ [Next]_vars => OrderInv'
  BY FlushOneOrder, SendResultOrder, PushOrder, OthersOrder
<1>3. OrderInv => SenderOrder
  BY DEF OrderInv
<1>4. QED
  BY <1>1, <1>2, <1>3, TypeInvAlways, OnceInvAlways, WindowInvAlways, PTL
     DEF Spec

-----------------------------------------------------------------------------
(***************************************************************************)
(* The signal task of an old stream has ended                              *)
(***************************************************************************)
TaskOfStream ==
  /\ stream \in {None, LastStream}
  /\ \A s \in Streams : signal_task[s] \in {"run", "close"} => s = LastStream
  /\ at[Engine] \in {"lock", "connect"} => signal_task[LastStream] = "ended"

\* Only a new stream changes which is the last.
LEMMA LastStreamStays ==
  ASSUME TypeInv, TypeInv',
         \A s \in Streams : signal_task'[s] # "none" <=> signal_task[s] # "none"
  PROVE  LastStream' = LastStream
<1>1. /\ LastStream \in Streams
      /\ \A s \in Streams : signal_task[s] # "none" <=> s <= LastStream
  BY LastStreamIs DEF TypeInv
<1>2. TasksOK'
  BY DEF TypeInv
<1>3. PICK n \in Streams :
        \A s \in Streams : signal_task'[s] # "none" <=> s <= n
  BY <1>2 DEF TasksOK
<1>4. n = LastStream
  BY <1>1, <1>3 DEF Streams
<1>5. LastStream' \in Streams
      /\ signal_task'[LastStream'] # "none"
      /\ \A t \in Streams : signal_task'[t] # "none" => t <= LastStream'
  BY <1>3 DEF LastStream, Streams
<1>6. QED
  BY <1>3, <1>4, <1>5 DEF Streams

LEMMA SignalTaskKeepsStream ==
  ASSUME TypeInv, TypeInv', TaskOfStream, NEW s \in Streams, SignalTaskStep(s)
  PROVE  TaskOfStream'
<1>1. /\ signal_task \in [Streams -> {"none", "run", "close", "ended"}]
      /\ signal_task[s] \in {"run", "close"}
      /\ at' = at
  BY DEF TypeInv, TasksOK, SignalTaskStep, SignalTaskBreak, SignalTaskClose
<1>2. PICK to \in {"close", "ended"} :
        signal_task' = [signal_task EXCEPT ![s] = to]
  BY DEF SignalTaskStep, SignalTaskBreak, SignalTaskClose
<1>3. LastStream' = LastStream
  <2>1. \A t \in Streams : signal_task'[t] # "none" <=> signal_task[t] # "none"
    BY <1>1, <1>2
  <2>2. QED
    BY <2>1, LastStreamStays
<1>4. s = LastStream
  BY <1>1 DEF TaskOfStream
<1>5. at[Engine] \notin {"lock", "connect"}
  BY <1>1, <1>4 DEF TaskOfStream
<1>6. stream' \in {None, stream}
  BY DEF SignalTaskStep, SignalTaskBreak, SignalTaskClose
<1>7. \A t \in Streams : signal_task'[t] \in {"run", "close"} => t = LastStream
  BY <1>1, <1>2, <1>4 DEF TaskOfStream
<1>8. QED
  BY <1>1, <1>3, <1>5, <1>6, <1>7 DEF TaskOfStream

LEMMA RestartConnectKeepsStream ==
  ASSUME TypeInv, TypeInv', TaskOfStream, RestartConnect
  PROVE  TaskOfStream'
<1>1. /\ LastStream \in Streams /\ LastStream + 1 \in Streams
      /\ \A t \in Streams : signal_task[t] # "none" <=> t <= LastStream
  BY LastStreamIs DEF RestartConnect, TypeInv, Streams
<1>2. /\ stream' = LastStream + 1
      /\ signal_task' = [signal_task EXCEPT ![LastStream + 1] = "run"]
      /\ at[Engine] = "connect" /\ at' = [at EXCEPT ![Engine] = "resuming"]
  BY DEF RestartConnect, EngineGoes
<1>3. /\ signal_task \in [Streams -> {"none", "run", "close", "ended"}]
      /\ at \in [Callers -> SenderPoints \cup EnginePoints]
  BY DEF TypeInv, TasksOK, PointsOK
<1>4. /\ LastStream' \in Streams
      /\ \A t \in Streams : signal_task'[t] # "none" <=> t <= LastStream'
  <2>1. TasksOK'
    BY DEF TypeInv
  <2>2. PICK n \in Streams :
          \A t \in Streams : signal_task'[t] # "none" <=> t <= n
    BY <2>1 DEF TasksOK
  <2>3. LastStream' \in Streams
        /\ signal_task'[LastStream'] # "none"
        /\ \A t \in Streams : signal_task'[t] # "none" => t <= LastStream'
    BY <2>2 DEF LastStream, Streams
  <2>4. LastStream' = n
    BY <2>2, <2>3 DEF Streams
  <2>5. QED
    BY <2>2, <2>4
<1>5. \A t \in Streams : signal_task'[t] # "none" <=> t <= LastStream + 1
  BY <1>1, <1>2, <1>3 DEF Streams
<1>6. LastStream' = LastStream + 1
  BY <1>1, <1>4, <1>5 DEF Streams
<1>7. \A t \in Streams : signal_task[t] \notin {"run", "close"}
  BY <1>2 DEF TaskOfStream
<1>8. \A t \in Streams :
        signal_task'[t] \in {"run", "close"} => t = LastStream + 1
  BY <1>2, <1>3, <1>7
<1>9. at'[Engine] = "resuming"
  BY <1>2, <1>3
<1>10. QED
  BY <1>2, <1>6, <1>8, <1>9 DEF TaskOfStream

LEMMA OthersKeepStream ==
  ASSUME TypeInv, TypeInv', TaskOfStream, [Next]_vars, ~RestartConnect,
         \A s \in Streams : ~SignalTaskStep(s)
  PROVE  TaskOfStream'
<1>1. UNCHANGED signal_task /\ stream' \in {None, stream}
  BY DEF Next, FlushLock, FlushStep, FlushRead, FlushOne, FlushEnd, SendStep,
     Send, SendRead, SendResult, Push, StreamDies, Restart, RestartStep,
     RestartClose, RestartJoin, RestartLock, RestartFail, ResumeWait,
     SetReconnected, vars, slotVars
<1>2. LastStream' = LastStream
  BY <1>1, LastStreamStays
<1>3. at \in [Callers -> SenderPoints \cup EnginePoints]
  BY DEF TypeInv, PointsOK
<1>4. at'[Engine] \in {"lock", "connect"} =>
        at[Engine] \in {"lock", "connect"} \/ RestartJoin
  <2>1. CASE \/ RestartClose \/ RestartLock \/ RestartFail \/ ResumeWait
             \/ SetReconnected \/ Restart \/ RestartJoin
    BY <1>3, <2>1 DEF RestartClose, RestartLock, RestartFail, ResumeWait,
       SetReconnected, Restart, EngineGoes
  <2>2. CASE \E p \in Senders : Send(p) \/ SendStep(p) \/ Push(p)
    BY <1>3, <2>2 DEF Send, SendStep, SendRead, SendResult, SendFailed,
       SendReturn, Push
  <2>3. CASE \E p \in Callers : FlushLock(p) \/ FlushStep(p)
    BY <1>3, <2>3 DEF FlushLock, FlushStep, FlushRead, FlushOne, FlushEnd,
       AfterFlush
  <2>4. CASE StreamDies \/ UNCHANGED vars
    BY <2>4 DEF StreamDies, vars
  <2>5. QED
    BY <2>1, <2>2, <2>3, <2>4 DEF Next, RestartStep
<1>5. RestartJoin => signal_task[LastStream] = "ended"
  BY DEF RestartJoin
<1>6. QED
  BY <1>1, <1>2, <1>4, <1>5 DEF TaskOfStream

\* inner.close(true) at the end of a signal task takes the stream of that task
\* and never a newer one, for any number of restarts: restart() awaits the task
\* before it connects again.
THEOREM ClosesOwnStream == Spec => OwnStreamClosed
<1>1. Init => TaskOfStream
  <2> SUFFICES ASSUME Init PROVE TaskOfStream
    OBVIOUS
  <2>1. LastStream \in Streams
        /\ \A s \in Streams : signal_task[s] # "none" <=> s <= LastStream
    BY InitTypeInv, LastStreamIs DEF TypeInv
  <2>2. LastStream = 1
    BY <2>1 DEF Init, Streams
  <2>3. QED
    BY <2>2 DEF Init, TaskOfStream
<1>2. TypeInv /\ TypeInv' /\ TaskOfStream /\ [Next]_vars => TaskOfStream'
  BY SignalTaskKeepsStream, RestartConnectKeepsStream, OthersKeepStream
<1>3. TypeInv /\ TaskOfStream =>
        \A s \in Streams : SignalTaskClose(s) => stream \in {None, s}
  BY DEF TaskOfStream, SignalTaskClose
<1>4. QED
  BY <1>1, <1>2, <1>3, TypeInvAlways, PTL DEF Spec, OwnStreamClosed
=============================================================================
