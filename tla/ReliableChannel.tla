--------------------------- MODULE ReliableChannel ---------------------------
(***************************************************************************)
(* Data packets on the lossy and the reliable data channel:                *)
(* data_channel_task of livekit/src/rtc_engine/rtc_session.rs with the     *)
(* retry queue of livekit/src/utils/tx_queue.rs.                           *)
(*                                                                         *)
(* Callers of publish_data, the callbacks of the channels and a resume all *)
(* speak to the task through one queue of events.  The task gives reliable *)
(* packets their sequence number, holds packets back while a channel is    *)
(* full, and keeps what it sent in a retry queue.  After a resume it sends *)
(* again what the server says it has not received.                         *)
(*                                                                         *)
(* Data abstraction: a packet is its number in the order of the calls of   *)
(* its kind, with its sequence number.  The lossy channel's receiver, the  *)
(* packets' contents and the receiver's packet_rx_state, which is only     *)
(* reported to the server, are left out.                                   *)
(***************************************************************************)
EXTENDS Integers, Sequences, FiniteSets

CONSTANTS
  MaxCalls,     \* bound on the calls of publish_data, of both kinds
  PacketBytes,  \* PacketBytes[id]: encoded length of the packet
  Threshold,    \* the buffered-amount-low threshold of either channel
  SendCanFail,  \* whether DataChannel::send may return an error
  MaxResumes,   \* bound on resumes
  MayClose      \* whether the session may be closed

Kinds == {"lossy", "reliable"}

Ids == 1..MaxCalls

ASSUME ReliableChannelAssumption ==
  /\ MaxCalls \in Nat
  /\ PacketBytes \in [Ids -> Nat \ {0}]
  /\ Threshold \in Nat
  /\ SendCanFail \in BOOLEAN
  /\ MaxResumes \in Nat
  /\ MayClose \in BOOLEAN

VARIABLES
  dc_events,            \* events on their way to data_channel_task
  next_packet_sequence, \* of the session
  pc,                   \* where data_channel_task is
  sending,              \* the kind _send_until_threshold works on
  after,                \* where the task goes after _send_until_threshold
  target,               \* the argument of trim or of RetryFrom
  request_queue,        \* [Kinds]: lossy_queue and reliable_queue
  buffered_amount,      \* [Kinds]: bytes believed to be in the channel
  retry_queue,          \* TxQueue.inner
  buffered_size,        \* TxQueue.buffered_size
  dcBuffer,             \* [Kinds]: packets a channel has not transmitted
  net,                  \* sequence numbers on their way to the receiver
  server_seq,           \* the highest sequence number the server has seen
  reconnect_response,   \* last_message_seq of a response not handled yet
  closed,               \* close_rx has changed
  published,            \* [Kinds]: calls of publish_data so far
  answered,             \* [Kinds]: the calls that have returned
  attempts,             \* [Kinds] history: the packets send() was called for
  rejected,             \* history: the attempts that failed
  delivered,            \* history: what the receiver gave to its room
  resumed               \* history: the last_message_seq of each resume

task == <<pc, sending, after, target>>
retry == <<retry_queue, buffered_size>>
link == <<net, server_seq, reconnect_response, delivered,
          resumed>>
app == <<published, answered>>
history == <<attempts, rejected>>

vars == <<dc_events, next_packet_sequence, task, request_queue,
          buffered_amount, retry, dcBuffer, link, closed, app, history>>

\* An encoded packet; waited says whether a caller waits for its completion.
Packet == [id : Ids, sequence : Nat, waited : BOOLEAN]

Size(p) == PacketBytes[p.id]

NoPacket == [id |-> 0, sequence |-> 0, waited |-> FALSE]

Event == [detail : {"PublishPacket", "PublishData", "BufferedAmountChange",
                    "RetryFrom"},
          kind : Kinds, packet : Packet \cup {NoPacket}, amount : Nat]

PacketEvent(detail, kind, p) ==
  [detail |-> detail, kind |-> kind, packet |-> p, amount |-> 0]
AmountEvent(detail, kind, n) ==
  [detail |-> detail, kind |-> kind, packet |-> NoPacket, amount |-> n]

\* The events after dc_emitter.send(e), which fails when the task has ended.
Emitted(e) == IF pc = "done" THEN dc_events ELSE Append(dc_events, e)

-----------------------------------------------------------------------------
(***************************************************************************)
(* Callers                                                                 *)
(***************************************************************************)

\* publish_data from the queueing of the packet on; without a task it returns
\* an error at once.
PublishData(kind) ==
  LET p == [id |-> published[kind] + 1, sequence |-> 0, waited |-> TRUE]
  IN /\ published["lossy"] + published["reliable"] < MaxCalls
     /\ published' = [published EXCEPT ![kind] = p.id]
     /\ dc_events' = Emitted(PacketEvent("PublishPacket", kind, p))
     /\ answered' = IF pc = "done"
                    THEN [answered EXCEPT ![kind] = @ \cup {p.id}]
                    ELSE answered
     /\ UNCHANGED <<next_packet_sequence, task, request_queue,
                    buffered_amount, retry, dcBuffer, link, closed, history>>

-----------------------------------------------------------------------------
(***************************************************************************)
(* data_channel_task.  pc is                                               *)
(*   "select"  waiting for an event                                        *)
(*   "send"    in the loop of _send_until_threshold                        *)
(*   "trim"    in the loop of TxQueue::trim                                *)
(*   "retry"   in the loop of _enqueue_for_retry_from                      *)
(*   "done"    ended                                                       *)
(***************************************************************************)
Receives(detail) ==
  /\ pc = "select"
  /\ dc_events # <<>>
  /\ Head(dc_events).detail = detail

\* PublishPacket: a reliable packet gets its number; the encoded packet goes
\* through the event queue again.
AssignSequence ==
  LET e == Head(dc_events)
      p == IF e.kind = "reliable"
           THEN [e.packet EXCEPT !.sequence = next_packet_sequence]
           ELSE e.packet
  IN /\ Receives("PublishPacket")
     /\ next_packet_sequence' = IF e.kind = "reliable"
                                THEN next_packet_sequence + 1
                                ELSE next_packet_sequence
     /\ dc_events' = Append(Tail(dc_events),
                            PacketEvent("PublishData", e.kind, p))
     /\ UNCHANGED <<task, request_queue, buffered_amount, retry, dcBuffer,
                    link, closed, app, history>>

\* Broken variant of Queued: the newest packet goes first.
QueuedFirst(q, p) == <<p>> \o q

\* push_back
Queued(q, p) == Append(q, p)

\* PublishData
QueueData ==
  LET e == Head(dc_events)
  IN /\ Receives("PublishData")
     /\ dc_events' = Tail(dc_events)
     /\ request_queue' = [request_queue EXCEPT ![e.kind] = Queued(@, e.packet)]
     /\ pc' = "send"
     /\ sending' = e.kind
     /\ after' = "select"
     /\ UNCHANGED <<next_packet_sequence, target, buffered_amount, retry,
                    dcBuffer, link, closed, app, history>>

\* A broken variant of AfterBytesSent: the report ignored.
AfterBytesSentIgnored(amount, sent) == amount

\* The counter after `sent` bytes were reported; it saturates.
AfterBytesSent(amount, sent) == IF amount < sent THEN 0 ELSE amount - sent

\* BufferedAmountChange; for the reliable channel trim(sent) comes after the
\* sends.
OnBufferedAmountChange ==
  LET e == Head(dc_events)
  IN /\ Receives("BufferedAmountChange")
     /\ dc_events' = Tail(dc_events)
     /\ buffered_amount' =
          [buffered_amount EXCEPT ![e.kind] = AfterBytesSent(@, e.amount)]
     /\ pc' = "send"
     /\ sending' = e.kind
     /\ after' = IF e.kind = "reliable" THEN "trim" ELSE "select"
     /\ target' = e.amount
     /\ UNCHANGED <<next_packet_sequence, request_queue, retry, dcBuffer,
                    link, closed, app, history>>

\* TxQueue::enqueue, for a reliable packet whether or not send() failed.
Retain(p) ==
  IF sending = "reliable"
  THEN /\ retry_queue' = Append(retry_queue, [p EXCEPT !.waited = FALSE])
       /\ buffered_size' = buffered_size + Size(p)
  ELSE UNCHANGED retry

CanSend ==
  /\ buffered_amount[sending] <= Threshold
  /\ request_queue[sending] # <<>>

\* completion_tx.send, if there is one
Answer(p) ==
  answered' = IF p.waited
              THEN [answered EXCEPT ![sending] = @ \cup {p.id}]
              ELSE answered

\* One turn of the loop of _send_until_threshold: the bytes are counted
\* whatever send() returns.
SendOne ==
  LET p == Head(request_queue[sending])
  IN /\ pc = "send"
     /\ CanSend
     /\ request_queue' = [request_queue EXCEPT ![sending] = Tail(@)]
     /\ buffered_amount' = [buffered_amount EXCEPT ![sending] = @ + Size(p)]
     /\ attempts' = [attempts EXCEPT ![sending] = Append(@, p)]
     /\ \/ /\ dcBuffer' = [dcBuffer EXCEPT ![sending] = Append(@, p)]
           /\ UNCHANGED rejected
        \/ /\ SendCanFail
           /\ rejected' = [rejected EXCEPT ![sending] = @ + Size(p)]
           /\ UNCHANGED dcBuffer
     /\ Answer(p)
     /\ Retain(p)
     /\ UNCHANGED <<dc_events, next_packet_sequence, task, link, closed,
                    published>>

\* The loop ends.
SendDone ==
  /\ pc = "send"
  /\ ~CanSend
  /\ pc' = after
  /\ UNCHANGED <<dc_events, next_packet_sequence, sending, after, target,
                 request_queue, buffered_amount, retry, dcBuffer, link,
                 closed, app, history>>

\* TxQueue::dequeue of a queue that is not empty.
Dequeued ==
  /\ retry_queue' = Tail(retry_queue)
  /\ buffered_size' = buffered_size - Size(Head(retry_queue))

\* One turn of the loop of trim, and its end.
TrimOne ==
  /\ pc = "trim"
  /\ buffered_size > target
  /\ retry_queue # <<>>
  /\ Dequeued
  /\ UNCHANGED <<dc_events, next_packet_sequence, task, request_queue,
                 buffered_amount, dcBuffer, link, closed, app, history>>

TrimDone ==
  /\ pc = "trim"
  /\ buffered_size <= target
  /\ pc' = "select"
  /\ UNCHANGED <<dc_events, next_packet_sequence, sending, after, target,
                 request_queue, buffered_amount, retry, dcBuffer, link,
                 closed, app, history>>

\* RetryFrom
OnRetryFrom ==
  /\ Receives("RetryFrom")
  /\ dc_events' = Tail(dc_events)
  /\ pc' = "retry"
  /\ target' = Head(dc_events).amount
  /\ UNCHANGED <<next_packet_sequence, sending, after, request_queue,
                 buffered_amount, retry, dcBuffer, link, closed, app,
                 history>>

\* Broken variant of Missing: the last packet received is sent again.
MissingOrLast(p) == p.sequence >= target

\* The packet comes after the last one the server has received.
Missing(p) == p.sequence > target

\* One turn of the loop of _enqueue_for_retry_from, and its end.
RetryOne ==
  LET p == Head(retry_queue)
  IN /\ pc = "retry"
     /\ retry_queue # <<>>
     /\ Dequeued
     /\ dc_events' = IF Missing(p)
                     THEN Append(dc_events,
                                 PacketEvent("PublishData", "reliable", p))
                     ELSE dc_events
     /\ UNCHANGED <<next_packet_sequence, task, request_queue,
                    buffered_amount, dcBuffer, link, closed, app, history>>

RetryDone ==
  /\ pc = "retry"
  /\ retry_queue = <<>>
  /\ pc' = "select"
  /\ UNCHANGED <<dc_events, next_packet_sequence, sending, after, target,
                 request_queue, buffered_amount, retry, dcBuffer, link,
                 closed, app, history>>

\* close_rx.changed(): the task ends and drops its queues; the callers whose
\* completion_tx goes with them get an error.
Stop ==
  /\ pc = "select"
  /\ closed
  /\ pc' = "done"
  /\ dc_events' = <<>>
  /\ request_queue' = [k \in Kinds |-> <<>>]
  /\ retry_queue' = <<>>
  /\ buffered_size' = 0
  /\ answered' = [k \in Kinds |-> 1..published[k]]
  /\ UNCHANGED <<next_packet_sequence, sending, after, target,
                 buffered_amount, dcBuffer, link, closed, published, history>>

-----------------------------------------------------------------------------
(***************************************************************************)
(* The channels, the session and the server                                *)
(***************************************************************************)

\* A channel transmits a packet and reports it through the session.
DcTransmit(kind) ==
  LET p == Head(dcBuffer[kind])
  IN /\ dcBuffer[kind] # <<>>
     /\ dcBuffer' = [dcBuffer EXCEPT ![kind] = Tail(@)]
     /\ dc_events' = Emitted(AmountEvent("BufferedAmountChange", kind,
                                         Size(p)))
     /\ net' = IF kind = "reliable" THEN Append(net, p.sequence) ELSE net
     /\ UNCHANGED <<next_packet_sequence, task, request_queue,
                    buffered_amount, retry, server_seq,
                    reconnect_response, delivered, resumed, closed,
                    app, history>>

\* The server answers a reconnection of the sender.
ServerReconnects ==
  /\ Len(resumed) < MaxResumes
  /\ reconnect_response = <<>>
  /\ reconnect_response' = <<server_seq>>
  /\ UNCHANGED <<dc_events, next_packet_sequence, task, request_queue,
                 buffered_amount, retry, dcBuffer, net, server_seq,
                 delivered, resumed, closed, app, history>>

\* SessionInner::restart, once the response has come: set_configuration may
\* fail, and then nothing is sent again.
Restart ==
  /\ reconnect_response # <<>>
  /\ reconnect_response' = <<>>
  /\ \/ /\ dc_events' = Emitted(AmountEvent("RetryFrom", "reliable",
                                            Head(reconnect_response)))
        /\ resumed' = Append(resumed, Head(reconnect_response))
     \/ UNCHANGED <<dc_events, resumed>>
  /\ UNCHANGED <<next_packet_sequence, task, request_queue, buffered_amount,
                 retry, dcBuffer, net, server_seq, delivered,
                 closed, app, history>>

\* RtcSession::close
CloseSession ==
  /\ MayClose
  /\ ~closed
  /\ closed' = TRUE
  /\ UNCHANGED <<dc_events, next_packet_sequence, task, request_queue,
                 buffered_amount, retry, dcBuffer, link, app, history>>

-----------------------------------------------------------------------------
(***************************************************************************)
(* The receiver, another session                                           *)
(***************************************************************************)

\* RtcEvent::Data: the packet goes to the room, also one that
\* update_packet_rx_state calls ignored.  The server, which forwards packets
\* in the order of their arrival, notes the number on the way.
ReceiveData ==
  LET sequence == Head(net)
  IN /\ net # <<>>
     /\ net' = Tail(net)
     /\ server_seq' = IF sequence > server_seq THEN sequence ELSE server_seq
     /\ delivered' = Append(delivered, sequence)
     /\ UNCHANGED <<dc_events, next_packet_sequence, task, request_queue,
                    buffered_amount, retry, dcBuffer, reconnect_response,
                    resumed, closed, app, history>>

-----------------------------------------------------------------------------
Init ==
  /\ dc_events = <<>>
  /\ next_packet_sequence = 1
  /\ pc = "select"
  /\ sending = "lossy"
  /\ after = "select"
  /\ target = 0
  /\ request_queue = [k \in Kinds |-> <<>>]
  /\ buffered_amount = [k \in Kinds |-> 0]
  /\ retry_queue = <<>>
  /\ buffered_size = 0
  /\ dcBuffer = [k \in Kinds |-> <<>>]
  /\ net = <<>>
  /\ server_seq = 0
  /\ reconnect_response = <<>>
  /\ closed = FALSE
  /\ published = [k \in Kinds |-> 0]
  /\ answered = [k \in Kinds |-> {}]
  /\ attempts = [k \in Kinds |-> <<>>]
  /\ rejected = [k \in Kinds |-> 0]
  /\ delivered = <<>>
  /\ resumed = <<>>

TaskStep ==
  \/ AssignSequence
  \/ QueueData
  \/ OnBufferedAmountChange
  \/ SendOne
  \/ SendDone
  \/ TrimOne
  \/ TrimDone
  \/ OnRetryFrom
  \/ RetryOne
  \/ RetryDone
  \/ Stop

Next ==
  \/ \E kind \in Kinds : PublishData(kind)
  \/ TaskStep
  \/ \E kind \in Kinds : DcTransmit(kind)
  \/ ServerReconnects
  \/ Restart
  \/ CloseSession
  \/ ReceiveData

Spec == Init /\ [][Next]_vars

\* The task is polled when it can go on, a channel transmits what it accepted
\* and a connected server forwards.  Nobody has to publish, resume or close.
Fairness ==
  /\ WF_vars(TaskStep)
  /\ \A kind \in Kinds : WF_vars(DcTransmit(kind))
  /\ WF_vars(ReceiveData)

FairSpec == Spec /\ Fairness

-----------------------------------------------------------------------------
(***************************************************************************)
(* Properties                                                              *)
(***************************************************************************)
TypeOK ==
  /\ dc_events \in Seq(Event)
  /\ next_packet_sequence \in Nat
  /\ pc \in {"select", "send", "trim", "retry", "done"}
  /\ sending \in Kinds
  /\ after \in {"select", "trim"}
  /\ target \in Nat
  /\ request_queue \in [Kinds -> Seq(Packet)]
  /\ buffered_amount \in [Kinds -> Nat]
  /\ retry_queue \in Seq(Packet)
  /\ buffered_size \in Nat
  /\ dcBuffer \in [Kinds -> Seq(Packet)]
  /\ net \in Seq(Nat)
  /\ server_seq \in Nat
  /\ reconnect_response \in Seq(Nat)
  /\ closed \in BOOLEAN
  /\ published \in [Kinds -> Nat]
  /\ answered \in [Kinds -> SUBSET Nat]
  /\ attempts \in [Kinds -> Seq(Packet)]
  /\ rejected \in [Kinds -> Nat]
  /\ delivered \in Seq(Nat)
  /\ resumed \in Seq(Nat)

\* attempts[kind][j] is the first attempt of its packet.
IsFirst(kind, j) == attempts[kind][j].waited

\* The first attempts of the packets of a kind are in the order of the calls,
\* and the numbers of reliable packets follow it, although every packet takes
\* the event queue twice and retried packets share both queues with new ones.
FirstSendsInOrder ==
  \A kind \in Kinds :
    \A j \in 1..Len(attempts[kind]) :
      LET p == attempts[kind][j]
      IN /\ kind = "reliable" => p.sequence = p.id
         /\ IsFirst(kind, j) =>
              \A i \in 1..(j - 1) : attempts[kind][i].id < p.id

\* A packet is repeated at most once per resume, and only for resumes whose
\* last_message_seq lies before it: what the server had received is never
\* sent again.
RepeatsOnlyMissing ==
  \A n \in 1..(next_packet_sequence - 1) :
    Cardinality({i \in 1..Len(attempts["reliable"]) :
                   attempts["reliable"][i].sequence = n})
      <= 1 + Cardinality({r \in 1..Len(resumed) : resumed[r] < n})

Delivered(n) == \E i \in 1..Len(delivered) : delivered[i] = n

\* Every call of publish_data returns, and a reliable packet is given to the
\* receiver's room unless the session closes; a resume on the way loses
\* nothing.  Only the bytes of a failed send, which stay counted, can hold
\* packets of their kind back.
PublishServed ==
  \A kind \in Kinds : \A n \in Ids :
    (published[kind] >= n) ~>
      \/ n \in answered[kind] /\ (kind = "lossy" \/ Delivered(n) \/ closed)
      \/ rejected[kind] > 0
=============================================================================
