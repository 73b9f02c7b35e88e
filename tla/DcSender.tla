------------------------------ MODULE DcSender ------------------------------
(***************************************************************************)
(* The sender of the `_data_track` data channel:                           *)
(* livekit/src/rtc_engine/dc_sender.rs.                                    *)
(*                                                                         *)
(* A producer (the engine, forwarding the local data-track manager) hands  *)
(* over whole frames through DataTrackSendQueue, a bounded queue that      *)
(* evicts its oldest frame.  The task DataChannelSender::run moves one     *)
(* frame at a time into in_flight and dispatches its packets while the     *)
(* bytes it believes to be in the data channel do not exceed a threshold.  *)
(* The data channel reports transmitted bytes from its own thread.         *)
(*                                                                         *)
(* Data abstraction: a packet is the pair (frame, index); every packet has *)
(* PacketSize bytes, so a byte count is a number of packets times it.      *)
(***************************************************************************)
EXTENDS Naturals, Sequences, FiniteSets

CONSTANTS
  Frames,       \* the number of frames the producer hands over
  PacketCount,  \* PacketCount[f]: packets of frame f, 0 for an empty frame
  PacketSize,   \* bytes of one packet
  Threshold,    \* low_buffer_threshold, in bytes
  Capacity,     \* QUEUE_CAPACITY, in frames
  SendCanFail,  \* whether DataChannel::send may return an error
  MayClose      \* whether the session may be closed in this model

ASSUME DcSenderAssumption ==
  /\ Frames \in Nat
  /\ PacketCount \in [1..Frames -> Nat]
  /\ PacketSize \in Nat \ {0}
  /\ Threshold \in Nat
  /\ Capacity \in Nat \ {0}
  /\ SendCanFail \in BOOLEAN
  /\ MayClose \in BOOLEAN

VARIABLES
  queue,           \* DataTrackSendQueueInner.queue: whole frames
  permit,          \* the stored permit of DataTrackSendQueueInner.notify
  notifying,       \* the producer is between push_back and notify_one
  pc,              \* where DataChannelSender::run is
  in_flight,       \* packets of the frame being dispatched
  buffered_amount, \* bytes the sender believes to be in the channel
  dcBuffer,        \* packets the channel accepted and has not transmitted
  dc_event_rx,     \* BytesSent events not yet received, one per packet
  closed,          \* close_rx has changed
  produced,        \* frames handed over so far
  evicted,         \* frames evicted from the queue
  wire,            \* history: the packets the channel accepted, in order
  rejected         \* history: the packets whose send() returned an error

vars == <<queue, permit, notifying, pc, in_flight, buffered_amount, dcBuffer,
          dc_event_rx, closed, produced, evicted, wire, rejected>>

FrameIds == 1..Frames

Packet == [frame : FrameIds, index : Nat]

\* The packets of one frame, in order.
PacketsOf(f) == [i \in 1..PacketCount[f] |-> [frame |-> f, index |-> i]]

-----------------------------------------------------------------------------
(***************************************************************************)
(* The producer                                                            *)
(***************************************************************************)

Full == Len(queue) >= Capacity

\* Broken variants of PushBack: the frame jumps the queue; nobody is notified.
PushFront(f) ==
  /\ queue' = <<f>> \o queue
  /\ UNCHANGED evicted
  /\ notifying' = TRUE
PushBackSilently(f) ==
  /\ queue' = Append(IF Full THEN Tail(queue) ELSE queue, f)
  /\ evicted' = IF Full THEN evicted \cup {Head(queue)} ELSE evicted
  /\ notifying' = FALSE

\* A full queue loses its oldest frame; the notification is still to come.
PushBack(f) ==
  /\ queue' = Append(IF Full THEN Tail(queue) ELSE queue, f)
  /\ evicted' = IF Full THEN evicted \cup {Head(queue)} ELSE evicted
  /\ notifying' = TRUE

\* DataTrackSendQueue::send up to drop(queue): an empty frame is ignored.
Send ==
  LET f == produced + 1
  IN /\ produced < Frames
     /\ ~notifying
     /\ produced' = f
     /\ \/ /\ PacketCount[f] = 0
           /\ UNCHANGED <<queue, evicted, notifying>>
        \/ /\ PacketCount[f] > 0
           /\ PushBack(f)
     /\ UNCHANGED <<permit, pc, in_flight, buffered_amount, dcBuffer,
                    dc_event_rx, closed, wire, rejected>>

\* notify_one: wakes the registered waiter, or leaves a permit behind.
NotifyOne ==
  /\ notifying
  /\ notifying' = FALSE
  /\ \/ pc = "parked" /\ pc' = "select" /\ UNCHANGED permit
     \/ pc # "parked" /\ permit' = TRUE /\ UNCHANGED pc
  /\ UNCHANGED <<queue, in_flight, buffered_amount, dcBuffer, dc_event_rx,
                 closed, produced, evicted, wire, rejected>>

-----------------------------------------------------------------------------
(***************************************************************************)
(* The sender task.  pc is                                                 *)
(*   "select"   polling the branches of select!                            *)
(*   "recheck"  in recv(), after the first try_pop found nothing           *)
(*   "parked"   in recv(), registered with notify                          *)
(*   "drain"    in drain_in_flight                                         *)
(*   "done"     the task has ended                                         *)
(***************************************************************************)
\* The task is at select!, where another branch may be taken.  There is no
\* await between the two times recv() looks at the queue.
Waiting == pc \in {"select", "parked"}

\* The precondition of the branch that receives a frame.
CanRecv == in_flight = <<>> /\ buffered_amount <= Threshold

\* try_pop found a frame: in_flight.extend(packets), then drain_in_flight.
TakeFrame ==
  /\ queue # <<>>
  /\ queue' = Tail(queue)
  /\ in_flight' = in_flight \o PacketsOf(Head(queue))
  /\ pc' = "drain"

\* recv() up to the first try_pop.
RecvPop ==
  /\ pc = "select"
  /\ CanRecv
  /\ \/ TakeFrame
     \/ queue = <<>> /\ pc' = "recheck" /\ UNCHANGED <<queue, in_flight>>
  /\ UNCHANGED <<permit, notifying, buffered_amount, dcBuffer, dc_event_rx,
                 closed, produced, evicted, wire, rejected>>

\* recv() from enable() on: a stored permit is consumed by enable(); the
\* queue is looked at again before the task parks.
RecvRecheck ==
  /\ pc = "recheck"
  /\ permit' = FALSE
  /\ \/ TakeFrame
     \/ /\ queue = <<>>
        /\ pc' = IF permit THEN "select" ELSE "parked"
        /\ UNCHANGED <<queue, in_flight>>
  /\ UNCHANGED <<notifying, buffered_amount, dcBuffer, dc_event_rx, closed,
                 produced, evicted, wire, rejected>>

\* Broken variants of AfterBytesSent: the counter set to zero; the event
\* ignored.
AfterBytesSentReset(bytes) == 0
AfterBytesSentIgnored(bytes) == buffered_amount

\* The counter after handle_bytes_sent, which saturates.
AfterBytesSent(bytes) ==
  IF buffered_amount < bytes THEN 0 ELSE buffered_amount - bytes

\* handle_bytes_sent, then drain_in_flight.  A pending recv() is dropped,
\* which leaves the queue as it is.
OnBytesSent ==
  /\ Waiting
  /\ dc_event_rx > 0
  /\ dc_event_rx' = dc_event_rx - 1
  /\ buffered_amount' = AfterBytesSent(PacketSize)
  /\ pc' = "drain"
  /\ UNCHANGED <<queue, permit, notifying, in_flight, dcBuffer, closed,
                 produced, evicted, wire, rejected>>

\* One turn of the loop of drain_in_flight: pop_front and dispatch.  The
\* bytes are counted before send() is called and whatever it returns.
Dispatch ==
  /\ pc = "drain"
  /\ in_flight # <<>>
  /\ buffered_amount <= Threshold
  /\ in_flight' = Tail(in_flight)
  /\ buffered_amount' = buffered_amount + PacketSize
  /\ \/ /\ dcBuffer' = dcBuffer + 1
        /\ wire' = Append(wire, Head(in_flight))
        /\ UNCHANGED rejected
     \/ /\ SendCanFail
        /\ rejected' = rejected \cup {Head(in_flight)}
        /\ UNCHANGED <<dcBuffer, wire>>
  /\ UNCHANGED <<queue, permit, notifying, pc, dc_event_rx, closed, produced,
                 evicted>>

\* The loop of drain_in_flight ends.
DrainDone ==
  /\ pc = "drain"
  /\ in_flight = <<>> \/ buffered_amount > Threshold
  /\ pc' = "select"
  /\ UNCHANGED <<queue, permit, notifying, in_flight, buffered_amount,
                 dcBuffer, dc_event_rx, closed, produced, evicted, wire,
                 rejected>>

\* close_rx.changed(): the queue is drained, the task and its in_flight go.
Stop ==
  /\ Waiting
  /\ closed
  /\ pc' = "done"
  /\ queue' = <<>>
  /\ in_flight' = <<>>
  /\ UNCHANGED <<permit, notifying, buffered_amount, dcBuffer, dc_event_rx,
                 closed, produced, evicted, wire, rejected>>

-----------------------------------------------------------------------------
(***************************************************************************)
(* The environment: the data channel and the session that owns the sender  *)
(***************************************************************************)

\* The channel transmits a packet and calls on_buffered_amount_change.
DcTransmit ==
  /\ dcBuffer > 0
  /\ dcBuffer' = dcBuffer - 1
  /\ dc_event_rx' = dc_event_rx + 1
  /\ UNCHANGED <<queue, permit, notifying, pc, in_flight, buffered_amount,
                 closed, produced, evicted, wire, rejected>>

\* RtcSession::close sends on close_tx.
CloseSession ==
  /\ MayClose
  /\ ~closed
  /\ closed' = TRUE
  /\ UNCHANGED <<queue, permit, notifying, pc, in_flight, buffered_amount,
                 dcBuffer, dc_event_rx, produced, evicted, wire, rejected>>

-----------------------------------------------------------------------------
Init ==
  /\ queue = <<>>
  /\ permit = FALSE
  /\ notifying = FALSE
  /\ pc = "select"
  /\ in_flight = <<>>
  /\ buffered_amount = 0
  /\ dcBuffer = 0
  /\ dc_event_rx = 0
  /\ closed = FALSE
  /\ produced = 0
  /\ evicted = {}
  /\ wire = <<>>
  /\ rejected = {}

SenderStep ==
  \/ RecvPop
  \/ RecvRecheck
  \/ OnBytesSent
  \/ Dispatch
  \/ DrainDone
  \/ Stop

Next ==
  \/ Send
  \/ NotifyOne
  \/ SenderStep
  \/ DcTransmit
  \/ CloseSession

Spec == Init /\ [][Next]_vars

\* The task is polled again whenever one of its branches is ready, a
\* producer that pushed goes on to notify, and an open channel transmits
\* what it accepted.  Nobody is obliged to produce or to close.
Fairness ==
  /\ WF_vars(SenderStep)
  /\ WF_vars(NotifyOne)
  /\ WF_vars(DcTransmit)

FairSpec == Spec /\ Fairness

-----------------------------------------------------------------------------
(***************************************************************************)
(* Properties                                                              *)
(***************************************************************************)
TypeOK ==
  /\ queue \in Seq(FrameIds)
  /\ permit \in BOOLEAN
  /\ notifying \in BOOLEAN
  /\ pc \in {"select", "recheck", "parked", "drain", "done"}
  /\ in_flight \in Seq(Packet)
  /\ buffered_amount \in Nat
  /\ dcBuffer \in Nat
  /\ dc_event_rx \in Nat
  /\ closed \in BOOLEAN
  /\ produced \in 0..Frames
  /\ evicted \subseteq FrameIds
  /\ wire \in Seq(Packet)
  /\ rejected \subseteq Packet

\* p is handed to the channel before q: earlier frame, or same frame and
\* smaller index.
Before(p, q) ==
  \/ p.frame < q.frame
  \/ p.frame = q.frame /\ p.index < q.index

\* The packets of a frame are dispatched in order and never interleaved with
\* another frame's, and no packet is dispatched twice (documentation of
\* DataChannelSender), even when some sends fail or the session closes.
FramesNotInterleaved ==
  \A i, j \in 1..Len(wire) : i < j => Before(wire[i], wire[j])

OnWire(p) == \E i \in 1..Len(wire) : wire[i] = p

\* buffered_amount is the number of bytes in the channel's buffer, up to the
\* BytesSent events still to be received, plus those of every packet whose
\* send failed, which no event takes away again.  Hence handle_bytes_sent
\* never meets the case it logs as an error.
BufferedAmountExact ==
  buffered_amount =
    PacketSize * (dcBuffer + dc_event_rx + Cardinality(rejected))

\* The bytes handed to the channel never exceed the threshold by more than
\* the one packet that crossed it.
BackpressureBound == PacketSize * dcBuffer <= Threshold + PacketSize

\* recv() registers for the wake-up before it looks at the queue again, so a
\* parked task has nothing to take unless its producer is about to notify it.
NoLostWakeup == pc = "parked" /\ queue # <<>> => notifying

InQueue(f) == \E i \in 1..Len(queue) : queue[i] = f

AllOnWire(f) ==
  \A i \in 1..PacketCount[f] : OnWire([frame |-> f, index |-> i])

\* A queued frame is eventually evicted whole by a newer one or completely
\* handed to the channel, unless the session closes or a send fails (the bytes
\* of rejected packets stay counted and may hold the sender back for ever).
FramesSettle ==
  \A f \in FrameIds :
    InQueue(f) ~> \/ f \in evicted \/ AllOnWire(f)
                  \/ closed \/ rejected # {}
=============================================================================
