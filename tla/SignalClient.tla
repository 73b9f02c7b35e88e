----------------------------- MODULE SignalClient -----------------------------
(***************************************************************************)
(* SignalClient (livekit-api/src/signal_client/mod.rs): sending and queuing*)
(* of signal messages while the WebSocket is lost, closed and opened again.*)
(*                                                                         *)
(* The stream slot is behind a tokio RwLock and the queue behind a tokio   *)
(* Mutex; both are held across awaits.  The RwLock serves its waiters in   *)
(* order, so a reader waits behind a writer that came first.  A step here  *)
(* is the code between two points where a task can be suspended.           *)
(*                                                                         *)
(* Data abstraction: a message is its sender and its number.  A sender     *)
(* sends either messages that can be queued (AddTrack, Mute, ...) or       *)
(* pass-through ones (Offer, Trickle, ...), one at a time.  A stream is its*)
(* number.  `wire` holds what the write tasks have written.                *)
(***************************************************************************)
EXTENDS Naturals, Sequences

CONSTANTS
  Senders,     \* tasks that call SignalClient::send
  Queueable,   \* those whose messages are not pass-through
  Engine,      \* the reconnect task, which calls restart()
  Free,        \* the value of a lock nobody holds
  MaxSends,    \* bound on the messages of one sender
  MaxFaults,   \* bound on the failures of a stream
  MaxRestarts  \* bound on the calls of SignalClient::restart

ASSUME SignalClientAssumption ==
  /\ Queueable \subseteq Senders
  /\ {Engine, Free} \cap Senders = {}
  /\ Engine # Free
  /\ MaxSends \in Nat
  /\ MaxFaults \in Nat
  /\ MaxRestarts \in Nat

VARIABLES
  stream,       \* SignalInner.stream, 0 for None
  alive,        \* the write task of that stream runs
  readers,      \* tasks that hold a read guard of the slot
  writer,       \* the task that holds its write guard, or Free
  waiters,      \* requests for it, in order of arrival
  reconnecting, \* SignalInner.reconnecting
  queue,        \* SignalInner.queue
  queue_lock,   \* who holds the mutex of the queue
  at,           \* where each sender and the reconnect task are
  signal_task,  \* the signal_task of each stream
  sent,         \* messages each sender has begun to send
  wire,         \* history: messages written, in order
  lost,         \* history: messages given up
  early,        \* history: messages whose sender got a stream to send them to
                \* before set_reconnected
  faults        \* failures so far

slotVars == <<stream, alive, readers, writer, waiters>>
queueVars == <<queue, queue_lock>>
historyVars == <<wire, lost, early, faults>>
vars == <<slotVars, reconnecting, queueVars, at, signal_task, sent,
          historyVars>>

None == 0
Streams == 1..(MaxRestarts + 1)
Callers == Senders \cup {Engine}
Message == Senders \X (1..MaxSends)

\* The message p is sending.
Current(p) == <<p, sent[p]>>

-----------------------------------------------------------------------------
(***************************************************************************)
(* The two locks                                                           *)
(***************************************************************************)
Request(who, write) ==
  waiters' = Append(waiters, [who |-> who, write |-> write])

IsNext(who, write) ==
  waiters # <<>> /\ Head(waiters) = [who |-> who, write |-> write]

\* The read or the write guard is given to who.
ReadGranted(who) ==
  /\ IsNext(who, FALSE)
  /\ writer = Free
  /\ waiters' = Tail(waiters)

WriteGranted(who) ==
  /\ IsNext(who, TRUE)
  /\ writer = Free
  /\ readers = {}
  /\ waiters' = Tail(waiters)

-----------------------------------------------------------------------------
(***************************************************************************)
(* SignalStream::send: the message is given to the write task, which       *)
(* answers when it is written, or drops it when it ends.                   *)
(***************************************************************************)
Written(m, from) ==
  /\ alive
  /\ wire' = Append(wire, [msg |-> m, from |-> from])
  /\ UNCHANGED <<alive, lost, early, faults>>

\* ws_writer.send fails: the error is WsError and the write task ends.
WriteFails(m) ==
  /\ alive
  /\ faults < MaxFaults
  /\ faults' = faults + 1
  /\ alive' = FALSE
  /\ lost' = lost \cup {m}
  /\ UNCHANGED <<wire, early>>

\* The write task has ended: SendError.
SendError == ~alive /\ UNCHANGED <<alive, wire, early, faults>>

-----------------------------------------------------------------------------
(***************************************************************************)
(* flush_queue, called by send() and by set_reconnected()                  *)
(***************************************************************************)

\* What follows flush_queue: a sender goes on to the stream.
AfterFlush(p) ==
  IF p = Engine
  THEN /\ at' = [at EXCEPT ![p] = "idle"]
       /\ UNCHANGED waiters
  ELSE /\ at' = [at EXCEPT ![p] = "read"]
       /\ Request(p, FALSE)

\* The queue is locked; an empty one is left at once.
FlushLock(p) ==
  /\ at[p] = "flush"
  /\ queue_lock = Free
  /\ \/ queue = <<>> /\ AfterFlush(p) /\ UNCHANGED queue_lock
     \/ /\ queue # <<>>
        /\ queue_lock' = p
        /\ at' = [at EXCEPT ![p] = "flush_read"]
        /\ Request(p, FALSE)
  /\ UNCHANGED <<stream, alive, readers, writer, reconnecting, queue,
                 signal_task, sent, historyVars>>

\* The stream is read, with the queue locked.
FlushRead(p) ==
  /\ at[p] = "flush_read"
  /\ ReadGranted(p)
  /\ readers' = readers \cup {p}
  /\ at' = [at EXCEPT ![p] = "flushing"]
  /\ UNCHANGED <<stream, alive, writer, reconnecting, queueVars, signal_task,
                 sent, historyVars>>

Drained == Tail(queue)

\* One message of queue.drain(..): an error is logged, "Lost message".
FlushOne(p) ==
  /\ at[p] = "flushing"
  /\ stream # None
  /\ queue # <<>>
  /\ queue' = Drained
  /\ \/ Written(Head(queue), "queue")
     \/ WriteFails(Head(queue))
     \/ SendError /\ lost' = lost \cup {Head(queue)}
  /\ UNCHANGED <<stream, readers, writer, waiters, reconnecting, queue_lock,
                 at, signal_task, sent>>

\* The guards are dropped, the queue's last.
FlushEnd(p) ==
  /\ at[p] = "flushing"
  /\ stream = None \/ queue = <<>>
  /\ readers' = readers \ {p}
  /\ queue_lock' = Free
  /\ AfterFlush(p)
  /\ UNCHANGED <<stream, alive, writer, reconnecting, queue, signal_task,
                 sent, historyVars>>

-----------------------------------------------------------------------------
(***************************************************************************)
(* send                                                                    *)
(***************************************************************************)

\* A broken variant of Send: what is queued is not flushed first.
SendUnflushed(p) ==
  /\ at[p] = "idle"
  /\ sent[p] < MaxSends
  /\ sent' = [sent EXCEPT ![p] = @ + 1]
  /\ \/ /\ reconnecting /\ p \in Queueable
        /\ at' = [at EXCEPT ![p] = "push"]
        /\ UNCHANGED waiters
     \/ /\ ~reconnecting \/ p \notin Queueable
        /\ at' = [at EXCEPT ![p] = "read"]
        /\ Request(p, FALSE)
  /\ UNCHANGED <<stream, alive, readers, writer, reconnecting, queueVars,
                 signal_task, historyVars>>

\* The flag decides: queue, flush first, or pass through.
Send(p) ==
  /\ at[p] = "idle"
  /\ sent[p] < MaxSends
  /\ sent' = [sent EXCEPT ![p] = @ + 1]
  /\ \/ /\ reconnecting /\ p \in Queueable
        /\ at' = [at EXCEPT ![p] = "push"]
        /\ UNCHANGED waiters
     \/ /\ ~reconnecting
        /\ at' = [at EXCEPT ![p] = "flush"]
        /\ UNCHANGED waiters
     \/ /\ reconnecting /\ p \notin Queueable
        /\ at' = [at EXCEPT ![p] = "read"]
        /\ Request(p, FALSE)
  /\ UNCHANGED <<stream, alive, readers, writer, reconnecting, queueVars,
                 signal_task, historyVars>>

\* The stream slot is read.  Without a stream a message that can be queued is
\* kept, still under the guard; another one is dropped.
SendRead(p) ==
  /\ at[p] = "read"
  /\ ReadGranted(p)
  /\ \/ /\ stream # None
        /\ at' = [at EXCEPT ![p] = "sending"]
        /\ readers' = readers \cup {p}
        /\ early' = IF reconnecting THEN early \cup {Current(p)} ELSE early
        /\ UNCHANGED lost
     \/ /\ stream = None /\ p \in Queueable
        /\ at' = [at EXCEPT ![p] = "push"]
        /\ readers' = readers \cup {p}
        /\ UNCHANGED <<lost, early>>
     \/ /\ stream = None /\ p \notin Queueable
        /\ at' = [at EXCEPT ![p] = "idle"]
        /\ lost' = lost \cup {Current(p)}
        /\ UNCHANGED <<readers, early>>
  /\ UNCHANGED <<stream, alive, writer, reconnecting, queueVars, signal_task,
                 sent, wire, faults>>

\* send() returns and drops the guard.
SendReturn(p) ==
  /\ at' = [at EXCEPT ![p] = "idle"]
  /\ readers' = readers \ {p}

\* A broken variant of SendFailed: nothing is queued.
SendFailedDropped(p) == SendReturn(p) /\ UNCHANGED lost

\* A SendError: a message that can be queued is, under the read guard.
SendFailed(p) ==
  \/ /\ p \in Queueable
     /\ at' = [at EXCEPT ![p] = "push"]
     /\ UNCHANGED <<readers, lost>>
  \/ /\ p \notin Queueable
     /\ SendReturn(p)
     /\ lost' = lost \cup {Current(p)}

\* The result of SignalStream::send.  Only SendError is looked at.
SendResult(p) ==
  /\ at[p] = "sending"
  /\ \/ /\ Written(Current(p), "send") \/ WriteFails(Current(p))
        /\ SendReturn(p)
     \/ SendError /\ SendFailed(p)
  /\ UNCHANGED <<stream, writer, waiters, reconnecting, queueVars,
                 signal_task, sent>>

Pushed(p) == Append(queue, Current(p))

Push(p) ==
  /\ at[p] = "push"
  /\ queue_lock = Free
  /\ queue' = Pushed(p)
  /\ SendReturn(p)
  /\ UNCHANGED <<stream, alive, writer, waiters, reconnecting, queue_lock,
                 signal_task, sent, historyVars>>

-----------------------------------------------------------------------------
(***************************************************************************)
(* signal_task                                                             *)
(***************************************************************************)

\* The connection breaks, as its read task sees.
StreamDies ==
  /\ alive
  /\ faults < MaxFaults
  /\ faults' = faults + 1
  /\ alive' = FALSE
  /\ UNCHANGED <<stream, readers, writer, waiters, reconnecting, queueVars,
                 at, signal_task, sent, wire, lost, early>>

\* The loop ends, with SignalEvent::Close: the stream's events are over, or
\* no answer to a ping came in time although the stream seems to work.
SignalTaskBreak(s) ==
  /\ signal_task[s] = "run"
  /\ \/ (stream # s \/ ~alive) /\ UNCHANGED faults
     \/ stream = s /\ alive /\ faults < MaxFaults /\ faults' = faults + 1
  /\ signal_task' = [signal_task EXCEPT ![s] = "close"]
  /\ Request(s, TRUE)
  /\ UNCHANGED <<stream, alive, readers, writer, reconnecting, queueVars, at,
                 sent, wire, lost, early>>

\* inner.close(true): the stream is taken and its tasks are awaited.
SignalTaskClose(s) ==
  /\ signal_task[s] = "close"
  /\ WriteGranted(s)
  /\ stream' = None
  /\ alive' = FALSE
  /\ signal_task' = [signal_task EXCEPT ![s] = "ended"]
  /\ UNCHANGED <<readers, writer, reconnecting, queueVars, at, sent,
                 historyVars>>

-----------------------------------------------------------------------------
(***************************************************************************)
(* restart and set_reconnected, as RtcSession's resume calls them          *)
(***************************************************************************)
EngineGoes(where) == at' = [at EXCEPT ![Engine] = where]

LastStream ==
  CHOOSE s \in Streams :
    /\ signal_task[s] # "none"
    /\ \A t \in Streams : signal_task[t] # "none" => t <= s

\* SignalClient::restart calls close() first ...
Restart ==
  /\ at[Engine] = "idle"
  /\ LastStream < MaxRestarts + 1
  /\ EngineGoes("close")
  /\ Request(Engine, TRUE)
  /\ UNCHANGED <<stream, alive, readers, writer, reconnecting, queueVars,
                 signal_task, sent, historyVars>>

RestartClose ==
  /\ at[Engine] = "close"
  /\ WriteGranted(Engine)
  /\ stream' = None
  /\ alive' = FALSE
  /\ EngineGoes("join")
  /\ UNCHANGED <<readers, writer, reconnecting, queueVars, signal_task, sent,
                 historyVars>>

\* ... which awaits the signal task.  Then the flag is set, before the stream
\* slot is locked.
RestartJoin ==
  /\ at[Engine] = "join"
  /\ signal_task[LastStream] = "ended"
  /\ reconnecting' = TRUE
  /\ EngineGoes("lock")
  /\ Request(Engine, TRUE)
  /\ UNCHANGED <<stream, alive, readers, writer, queueVars, signal_task, sent,
                 historyVars>>

\* The slot stays locked while the new stream connects.
RestartLock ==
  /\ at[Engine] = "lock"
  /\ WriteGranted(Engine)
  /\ writer' = Engine
  /\ stream' = None
  /\ alive' = FALSE
  /\ EngineGoes("connect")
  /\ UNCHANGED <<readers, reconnecting, queueVars, signal_task, sent,
                 historyVars>>

RestartConnect ==
  /\ at[Engine] = "connect"
  /\ LET s == LastStream + 1
     IN /\ stream' = s
        /\ alive' = TRUE
        /\ signal_task' = [signal_task EXCEPT ![s] = "run"]
  /\ writer' = Free
  /\ EngineGoes("resuming")
  /\ UNCHANGED <<readers, waiters, reconnecting, queueVars, sent,
                 historyVars>>

\* The connection is refused: the slot stays empty and the flag is reset.
\* The engine makes a new session then, and does not restart this one again.
RestartFail ==
  /\ at[Engine] = "connect"
  /\ writer' = Free
  /\ reconnecting' = FALSE
  /\ EngineGoes("failed")
  /\ UNCHANGED <<stream, alive, readers, waiters, queueVars, signal_task,
                 sent, historyVars>>

\* wait_pc_reconnected, then is_connected, which reads the slot.
ResumeWait ==
  /\ at[Engine] = "resuming"
  /\ writer = Free /\ waiters = <<>>
  /\ EngineGoes(IF stream = None THEN "failed" ELSE "resumed")
  /\ UNCHANGED <<slotVars, reconnecting, queueVars, signal_task, sent,
                 historyVars>>

\* A broken variant of SetReconnected: the queue is left for the next send.
SetReconnectedOnly ==
  /\ at[Engine] = "resumed"
  /\ reconnecting' = FALSE
  /\ EngineGoes("idle")
  /\ UNCHANGED <<slotVars, queueVars, signal_task, sent, historyVars>>

\* set_reconnected: the flag first, then flush_queue.
SetReconnected ==
  /\ at[Engine] = "resumed"
  /\ reconnecting' = FALSE
  /\ EngineGoes("flush")
  /\ UNCHANGED <<slotVars, queueVars, signal_task, sent, historyVars>>

-----------------------------------------------------------------------------
Init ==
  /\ stream = 1
  /\ alive = TRUE
  /\ readers = {}
  /\ writer = Free
  /\ waiters = <<>>
  /\ reconnecting = FALSE
  /\ queue = <<>>
  /\ queue_lock = Free
  /\ at = [p \in Callers |-> "idle"]
  /\ signal_task = [s \in Streams |-> IF s = 1 THEN "run" ELSE "none"]
  /\ sent = [p \in Senders |-> 0]
  /\ wire = <<>>
  /\ lost = {}
  /\ early = {}
  /\ faults = 0

FlushStep(p) == FlushRead(p) \/ FlushOne(p) \/ FlushEnd(p)

SendStep(p) == SendRead(p) \/ SendResult(p)

SignalTaskStep(s) == SignalTaskBreak(s) \/ SignalTaskClose(s)

RestartStep ==
  \/ RestartClose
  \/ RestartJoin
  \/ RestartLock
  \/ RestartConnect
  \/ RestartFail
  \/ ResumeWait
  \/ SetReconnected

Next ==
  \/ \E p \in Callers : FlushLock(p) \/ FlushStep(p)
  \/ \E p \in Senders : Send(p) \/ SendStep(p) \/ Push(p)
  \/ StreamDies
  \/ \E s \in Streams : SignalTaskStep(s)
  \/ Restart
  \/ RestartStep

Spec == Init /\ [][Next]_vars

\* Every task that can go on does; tokio's mutex serves its waiters in order,
\* hence the strong fairness.  A signal task whose stream is gone ends and the
\* engine answers its Close with a restart.  Nobody has to send, and nothing
\* has to fail.
Fairness ==
  /\ \A p \in Callers : SF_vars(FlushLock(p)) /\ WF_vars(FlushStep(p))
  /\ \A p \in Senders : WF_vars(SendStep(p)) /\ SF_vars(Push(p))
  /\ \A s \in Streams :
       /\ WF_vars((stream # s \/ ~alive) /\ SignalTaskBreak(s))
       /\ WF_vars(SignalTaskClose(s))
  /\ WF_vars(signal_task[LastStream] = "ended" /\ Restart)
  /\ SF_vars(RestartStep)

FairSpec == Spec /\ Fairness

-----------------------------------------------------------------------------
(***************************************************************************)
(* Properties                                                              *)
(***************************************************************************)
SenderPoints ==
  {"idle", "flush", "flush_read", "flushing", "read", "sending", "push"}

EnginePoints ==
  {"idle", "close", "join", "lock", "connect", "resuming", "resumed", "failed",
   "flush", "flush_read", "flushing"}

\* The guards of the slot exclude each other, and a stream whose write task
\* runs is in its slot.
TypeOK ==
  /\ stream \in Streams \cup {None}
  /\ alive \in BOOLEAN
  /\ alive => stream # None
  /\ readers \subseteq Callers
  /\ writer \in {Engine, Free}
  /\ writer # Free => readers = {} /\ stream = None
  /\ waiters \in Seq([who : Callers \cup Streams, write : BOOLEAN])
  /\ reconnecting \in BOOLEAN
  /\ queue \in Seq(Message)
  /\ queue_lock \in Callers \cup {Free}
  /\ \A p \in Senders : at[p] \in SenderPoints
  /\ at[Engine] \in EnginePoints
  /\ signal_task \in [Streams -> {"none", "run", "close", "ended"}]
  /\ sent \in [Senders -> 0..MaxSends]
  /\ wire \in Seq([msg : Message, from : {"queue", "send"}])
  /\ lost \subseteq Message
  /\ early \subseteq Message
  /\ faults \in 0..MaxFaults

InQueue(m) == \E i \in 1..Len(queue) : queue[i] = m
OnWire(m) == \E i \in 1..Len(wire) : wire[i].msg = m

\* p is in send() and the message is neither written, queued nor given up.
InHand(p) == at[p] # "idle"

\* A message given to send() is in the sender's hand, in the queue, written,
\* or was given up because a stream failed under it: no interleaving of
\* senders, flushes, restarts and closes drops one silently.
Conserved ==
  \A p \in Senders : \A n \in 1..sent[p] :
    \/ n = sent[p] /\ InHand(p)
    \/ InQueue(<<p, n>>)
    \/ OnWire(<<p, n>>)
    \/ <<p, n>> \in lost

\* No message is written twice, nor is a written one still queued, however
\* queuing and flushing interleave.
AtMostOnce ==
  /\ \A i, j \in 1..Len(wire) : wire[i].msg = wire[j].msg => i = j
  /\ \A i \in 1..Len(queue) : ~OnWire(queue[i])

\* "preserving the original send order": the messages of one sender are
\* written in the order of its calls.  One exception: its flush found no stream
\* and left a queued message, then restart() made one, and it goes on with the
\* new message before set_reconnected flushes the queue.
SenderOrder ==
  \A i, j \in 1..Len(wire) :
    i < j /\ wire[i].msg[1] = wire[j].msg[1] =>
      \/ wire[i].msg[2] < wire[j].msg[2]
      \/ /\ wire[i].from = "send" /\ wire[i].msg \in early
         /\ wire[j].from = "queue"

\* The signal task of an old stream never closes a newer one: restart() awaits
\* it before it connects again.
OwnStreamClosed ==
  [][\A s \in Streams : SignalTaskClose(s) => stream \in {None, s}]_vars

\* Three tasks wait for each other: one holds the queue and waits to read the
\* slot behind a writer, which waits for a reader, which waits for the queue.
LockCycle ==
  /\ queue_lock # Free
  /\ at[queue_lock] = "flush_read"
  /\ \E p \in readers : at[p] = "push"
  /\ waiters # <<>> /\ Head(waiters).write

\* A message queued during a reconnect is written by its set_reconnected, with
\* no need of another send(), unless the reconnect fails or the new stream
\* breaks too.
QueueDelivered ==
  \A p \in Queueable : \A n \in 1..MaxSends :
    (InQueue(<<p, n>>) /\ reconnecting)
      ~> \/ OnWire(<<p, n>>) \/ <<p, n>> \in lost
         \/ at[Engine] = "failed" \/ LockCycle
         \/ at[Engine] = "idle" /\ ~alive

=============================================================================
