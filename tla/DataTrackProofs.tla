---------------------------- MODULE DataTrackProofs ----------------------------
(***************************************************************************)
(* Theorems about the parts of a data track: its sender, its packets and   *)
(* its publication.                                                        *)
(*                                                                         *)
(* DcSender: for any frames, packet sizes, threshold and capacity, with    *)
(* failing sends and a closing session included.                           *)
(*                                                                         *)
(* Packets: for counters of any width, a buffer of any size and frames of  *)
(* any number of chunks that the sequence numbers can tell apart.  The     *)
(* packetizer keeps no record of where a frame began; the invariants       *)
(* therefore speak of some function `base` that gives every frame its      *)
(* first sequence number and that agrees with the packets on their way     *)
(* (NetInv), the chunks held for the frame under way (PartialInv) and the  *)
(* packets that came in order (StreakInv).                                 *)
(*                                                                         *)
(* LocalTracks: for any number of tracks and handles, channels of any      *)
(* size, refusals, timeouts, restarts and a close.  TracksInv says of      *)
(* every track what the messages on their way make up for: each of its     *)
(* parts relates the manager's descriptor, the task, the caller and the    *)
(* SFU to what is queued between them.                                     *)
(***************************************************************************)
EXTENDS DcSender, Packets, LocalTracks, FiniteSetTheorems, TLAPS

-----------------------------------------------------------------------------
\* DcSender.

\* recv() is pending only while nothing is in flight.
NothingInFlight == pc \in {"recheck", "parked"} => in_flight = <<>>

\* The head of one sequence moved to the end of another.
LEMMA MoveHead ==
  ASSUME NEW S, NEW s \in Seq(S), NEW w \in Seq(S), s # <<>>
  PROVE  /\ Head(s) \in S
         /\ Tail(s) \in Seq(S)
         /\ Append(w, Head(s)) \in Seq(S)
  OBVIOUS

\* The packets of a frame, as a sequence.
LEMMA PacketsOfType ==
  ASSUME NEW f \in FrameIds
  PROVE  /\ PacketsOf(f) \in Seq(Packet)
         /\ Len(PacketsOf(f)) = PacketCount[f]
         /\ \A i \in 1..PacketCount[f] :
              PacketsOf(f)[i] = [frame |-> f, index |-> i]
<1>1. PacketCount[f] \in Nat
  BY DcSenderAssumption DEF FrameIds
<1>2. \A i \in 1..PacketCount[f] : [frame |-> f, index |-> i] \in Packet
  BY <1>1 DEF Packet
<1>3. QED
  BY <1>1, <1>2 DEF PacketsOf

-----------------------------------------------------------------------------
(***************************************************************************)
(* Types and wake-ups                                                      *)
(***************************************************************************)
TypeInv == TypeOK /\ NothingInFlight /\ NoLostWakeup

\* Taking a frame while nothing is in flight.
LEMMA TakeFrameEffect ==
  ASSUME TypeOK, in_flight = <<>>, TakeFrame
  PROVE  /\ Head(queue) \in FrameIds
         /\ queue' \in Seq(FrameIds)
         /\ in_flight' = PacketsOf(Head(queue))
         /\ in_flight' \in Seq(Packet)
         /\ pc' = "drain"
<1>1. Head(queue) \in FrameIds /\ queue' \in Seq(FrameIds) /\ pc' = "drain"
  BY DEF TypeOK, TakeFrame
<1>2. PacketsOf(Head(queue)) \in Seq(Packet)
  BY <1>1, PacketsOfType
<1>3. in_flight' = PacketsOf(Head(queue))
  BY <1>2 DEF TakeFrame
<1>4. QED
  BY <1>1, <1>2, <1>3

LEMMA InitTypeInv == Init => TypeInv
<1> SUFFICES ASSUME Init PROVE TypeInv
  OBVIOUS
<1>1. <<>> \in Seq(FrameIds) /\ <<>> \in Seq(Packet)
  OBVIOUS
<1>2. 0 \in 0..Frames
  BY DcSenderAssumption
<1>3. QED
  BY <1>1, <1>2 DEF Init, TypeInv, TypeOK, NothingInFlight, NoLostWakeup

LEMMA NextTypeInv == TypeInv /\ [Next]_vars => TypeInv'
<1> SUFFICES ASSUME TypeInv, [Next]_vars PROVE TypeInv'
  OBVIOUS
<1> USE DcSenderAssumption DEF TypeInv, NothingInFlight, NoLostWakeup
<1>1. CASE Send
  <2>1. produced + 1 \in FrameIds
    BY <1>1 DEF Send, PushBack, Full, TypeOK, FrameIds
  <2>2. /\ queue' \in Seq(FrameIds)
        /\ evicted' \subseteq FrameIds
        /\ produced' \in 0..Frames
    <3>1. produced' \in 0..Frames
      BY <1>1, <2>1 DEF Send, PushBack, Full, FrameIds
    <3>2. \/ queue' = queue /\ evicted' = evicted
          \/ /\ Len(queue) >= Capacity
             /\ queue' = Append(Tail(queue), produced + 1)
             /\ evicted' = evicted \cup {Head(queue)}
          \/ queue' = Append(queue, produced + 1) /\ evicted' = evicted
      BY <1>1 DEF Send, PushBack, Full
    <3>3. queue \in Seq(FrameIds) /\ evicted \subseteq FrameIds
      BY DEF TypeOK
    <3>4. ASSUME Len(queue) >= Capacity
          PROVE  Head(queue) \in FrameIds /\ Tail(queue) \in Seq(FrameIds)
      BY <3>3, <3>4
    <3>5. \A q \in Seq(FrameIds) : Append(q, produced + 1) \in Seq(FrameIds)
      BY <2>1
    <3>6. QED
      BY <3>1, <3>2, <3>3, <3>4, <3>5
  <2>3. UNCHANGED pc /\ ((queue' = queue /\ UNCHANGED notifying) \/ notifying')
    BY <1>1 DEF Send, PushBack, Full
  <2>4. notifying' \in BOOLEAN
    BY <1>1 DEF Send, PushBack, TypeOK
  <2>5. QED
    BY <1>1, <2>2, <2>3, <2>4 DEF Send, PushBack, TypeOK
<1>2. CASE NotifyOne
  BY <1>2 DEF NotifyOne, TypeOK
<1>3. CASE RecvPop
  <2>1. CASE TakeFrame
    BY <1>3, <2>1, TakeFrameEffect DEF RecvPop, CanRecv, TypeOK
  <2>2. CASE ~TakeFrame
    BY <1>3, <2>2 DEF RecvPop, CanRecv, TypeOK
  <2>3. QED
    BY <2>1, <2>2
<1>4. CASE RecvRecheck
  <2>1. CASE TakeFrame
    BY <1>4, <2>1, TakeFrameEffect DEF RecvRecheck, TypeOK
  <2>2. CASE ~TakeFrame
    BY <1>4, <2>2 DEF RecvRecheck, TypeOK
  <2>3. QED
    BY <2>1, <2>2
<1>5. CASE OnBytesSent
  BY <1>5 DEF OnBytesSent, AfterBytesSent, TypeOK
<1>6. CASE Dispatch
  <2>1. in_flight' \in Seq(Packet) /\ wire' \in Seq(Packet)
    <3>1. /\ in_flight # <<>>
          /\ in_flight' = Tail(in_flight)
          /\ wire' = wire \/ wire' = Append(wire, Head(in_flight))
      BY <1>6 DEF Dispatch
    <3>2. wire \in Seq(Packet) /\ in_flight \in Seq(Packet)
      BY DEF TypeOK
    <3>3. /\ Tail(in_flight) \in Seq(Packet)
          /\ Append(wire, Head(in_flight)) \in Seq(Packet)
      BY <3>1, <3>2, MoveHead
    <3>4. QED
      BY <3>1, <3>2, <3>3
  <2>2. buffered_amount' \in Nat /\ dcBuffer' \in Nat
    BY <1>6 DEF Dispatch, TypeOK
  <2>3. QED
    BY <1>6, <2>1, <2>2 DEF Dispatch, TypeOK
<1>7. CASE DrainDone
  BY <1>7 DEF DrainDone, TypeOK
<1>8. CASE Stop
  <2>1. queue' \in Seq(FrameIds) /\ in_flight' \in Seq(Packet)
    BY <1>8 DEF Stop
  <2>2. QED
    BY <1>8, <2>1 DEF Stop, TypeOK
<1>9. CASE DcTransmit
  BY <1>9 DEF DcTransmit, TypeOK
<1>10. CASE CloseSession
  BY <1>10 DEF CloseSession, TypeOK
<1>11. CASE UNCHANGED vars
  BY <1>11 DEF vars, TypeOK
<1>12. QED
  BY <1>1, <1>2, <1>3, <1>4, <1>5, <1>6, <1>7, <1>8, <1>9, <1>10, <1>11
  DEF Next, SenderStep

LEMMA SpecTypeInv == Spec => []TypeInv
<1>1. Init => TypeInv
  BY InitTypeInv
<1>2. TypeInv /\ [Next]_vars => TypeInv'
  BY NextTypeInv
<1>3. QED
  BY <1>1, <1>2, PTL DEF Spec

\* Every variable keeps its type.
THEOREM TypeCorrect == Spec => []TypeOK
<1>1. TypeInv => TypeOK
  BY DEF TypeInv
<1>2. QED
  BY <1>1, SpecTypeInv, PTL

\* A parked sender is woken: its queue is empty, or the producer that filled
\* it has still to call notify_one.
THEOREM WakeupsAreKept == Spec => []NoLostWakeup
<1>1. TypeInv => NoLostWakeup
  BY DEF TypeInv
<1>2. QED
  BY <1>1, SpecTypeInv, PTL

-----------------------------------------------------------------------------
(***************************************************************************)
(* Backpressure                                                            *)
(***************************************************************************)

\* What the sender believes to be buffered covers what is, and exceeds the
\* threshold by no more than the packet that crossed it.
BufferInv ==
  /\ PacketSize * (dcBuffer + dc_event_rx) <= buffered_amount
  /\ buffered_amount <= Threshold + PacketSize

LEMMA OneMorePacket ==
  ASSUME NEW n \in Nat
  PROVE  /\ PacketSize * n \in Nat
         /\ PacketSize * (n + 1) = PacketSize * n + PacketSize
  BY DcSenderAssumption

LEMMA NextBufferInv ==
  ASSUME TypeOK, BufferInv, [Next]_vars
  PROVE  BufferInv'
<1> USE DcSenderAssumption DEF BufferInv
<1> DEFINE n == dcBuffer + dc_event_rx
<1>1. n \in Nat /\ buffered_amount \in Nat
  BY DEF TypeOK
<1>2. CASE Dispatch
  <2>1. PacketSize * (n + 1) = PacketSize * n + PacketSize
    BY <1>1, OneMorePacket
  <2>2. n' \in {n, n + 1}
    BY <1>2 DEF Dispatch, TypeOK
  <2>3. buffered_amount' = buffered_amount + PacketSize
    BY <1>2 DEF Dispatch
  <2>4. buffered_amount <= Threshold
    BY <1>2 DEF Dispatch
  <2>5. PacketSize * n' <= PacketSize * n + PacketSize
    BY <1>1, <2>1, <2>2, OneMorePacket
  <2>6. PacketSize * n' \in Nat /\ PacketSize * n \in Nat
    BY <1>1, <2>2, OneMorePacket
  <2>7. QED
    BY <1>1, <2>3, <2>4, <2>5, <2>6
<1>3. CASE OnBytesSent
  <2>1. n' \in Nat /\ n = n' + 1
    BY <1>3 DEF OnBytesSent, TypeOK
  <2>2. /\ PacketSize * n = PacketSize * n' + PacketSize
        /\ PacketSize * n' \in Nat
    BY <2>1, OneMorePacket
  <2>3. buffered_amount' = buffered_amount - PacketSize
    BY <1>1, <1>3, <2>2 DEF OnBytesSent, AfterBytesSent
  <2>4. QED
    BY <1>1, <2>2, <2>3
<1>4. CASE DcTransmit
  <2>1. n' = n /\ UNCHANGED buffered_amount
    BY <1>4 DEF DcTransmit, TypeOK
  <2>2. QED
    BY <2>1
<1>5. CASE UNCHANGED <<dcBuffer, dc_event_rx, buffered_amount>>
  BY <1>5
<1>6. CASE Next /\ ~Dispatch /\ ~OnBytesSent /\ ~DcTransmit
  <2>1. UNCHANGED <<dcBuffer, dc_event_rx, buffered_amount>>
    BY <1>6 DEF Next, SenderStep, Send, NotifyOne, RecvPop, RecvRecheck,
                DrainDone, Stop, CloseSession
  <2>2. QED
    BY <1>5, <2>1
<1>7. CASE UNCHANGED vars
  BY <1>5, <1>7 DEF vars
<1>8. QED
  BY <1>2, <1>3, <1>4, <1>6, <1>7

\* The bytes handed to the data channel exceed the threshold by at most one
\* packet, also when sends fail.
THEOREM Backpressure == Spec => []BackpressureBound
<1>1. Init => BufferInv
  BY DcSenderAssumption DEF Init, BufferInv
<1>2. TypeInv /\ BufferInv /\ [Next]_vars => BufferInv'
  BY NextBufferInv DEF TypeInv
<1>3. TypeInv /\ BufferInv => BackpressureBound
  <2> SUFFICES ASSUME TypeOK, BufferInv PROVE BackpressureBound
    BY DEF TypeInv
  <2>1. dcBuffer \in Nat /\ dc_event_rx \in Nat /\ buffered_amount \in Nat
    BY DEF TypeOK
  <2>2. /\ PacketSize * (dcBuffer + dc_event_rx)
             = PacketSize * dcBuffer + PacketSize * dc_event_rx
        /\ PacketSize * dcBuffer \in Nat
        /\ PacketSize * dc_event_rx \in Nat
    BY <2>1, DcSenderAssumption
  <2>3. QED
    BY <2>1, <2>2, DcSenderAssumption DEF BufferInv, BackpressureBound
<1>4. QED
  BY <1>1, <1>2, <1>3, SpecTypeInv, PTL DEF Spec

-----------------------------------------------------------------------------
(***************************************************************************)
(* Frame order                                                             *)
(***************************************************************************)

\* Frames produced so far, in order: those on the wire and in flight, then
\* those in the queue.  Packets in flight come after those on the wire.
QueueOrder ==
  /\ \A i, j \in 1..Len(queue) : i < j => queue[i] < queue[j]
  /\ \A i \in 1..Len(queue) : queue[i] <= produced

FlightOrder ==
  /\ \A i, j \in 1..Len(in_flight) :
       i < j => Before(in_flight[i], in_flight[j])
  /\ \A i \in 1..Len(in_flight) :
       /\ in_flight[i].frame <= produced
       /\ \A j \in 1..Len(queue) : in_flight[i].frame < queue[j]

WireOrder ==
  /\ FramesNotInterleaved
  /\ \A i \in 1..Len(wire) :
       /\ wire[i].frame <= produced
       /\ \A j \in 1..Len(in_flight) : Before(wire[i], in_flight[j])
       /\ \A j \in 1..Len(queue) : wire[i].frame < queue[j]

OrderInv == QueueOrder /\ FlightOrder /\ WireOrder

\* What Tail and Append do to the elements of a sequence.
LEMMA TailElements ==
  ASSUME NEW S, NEW s \in Seq(S), s # <<>>
  PROVE  /\ Len(s) \in Nat /\ Len(s) > 0
         /\ Len(Tail(s)) = Len(s) - 1
         /\ Head(s) = s[1]
         /\ \A i \in 1..Len(Tail(s)) :
              i + 1 \in 1..Len(s) /\ Tail(s)[i] = s[i + 1]
  OBVIOUS

LEMMA AppendElements ==
  ASSUME NEW S, NEW s \in Seq(S), NEW e \in S
  PROVE  /\ Len(Append(s, e)) = Len(s) + 1
         /\ Append(s, e)[Len(s) + 1] = e
         /\ \A i \in 1..Len(s) : Append(s, e)[i] = s[i]
  OBVIOUS

\* The elements of the sequences of the state.
LEMMA ElementTypes ==
  ASSUME NEW S, NEW s \in Seq(S)
  PROVE  Len(s) \in Nat /\ \A i \in 1..Len(s) : s[i] \in S
  OBVIOUS

LEMMA StateElements ==
  ASSUME TypeOK
  PROVE  /\ Len(queue) \in Nat /\ Len(in_flight) \in Nat /\ Len(wire) \in Nat
         /\ produced \in Nat
         /\ \A i \in 1..Len(queue) : queue[i] \in Nat
         /\ \A i \in 1..Len(in_flight) :
              in_flight[i].frame \in Nat /\ in_flight[i].index \in Nat
         /\ \A i \in 1..Len(wire) :
              wire[i].frame \in Nat /\ wire[i].index \in Nat
<1>1. /\ queue \in Seq(FrameIds) /\ in_flight \in Seq(Packet)
      /\ wire \in Seq(Packet)
  BY DEF TypeOK
<1>2. /\ Len(queue) \in Nat /\ Len(in_flight) \in Nat /\ Len(wire) \in Nat
      /\ \A i \in 1..Len(queue) : queue[i] \in FrameIds
      /\ \A i \in 1..Len(in_flight) : in_flight[i] \in Packet
      /\ \A i \in 1..Len(wire) : wire[i] \in Packet
  BY <1>1, ElementTypes
<1>3. \A e \in FrameIds : e \in Nat
  BY DEF FrameIds
<1>4. \A e \in Packet : e.frame \in Nat /\ e.index \in Nat
  BY <1>3 DEF Packet
<1>5. produced \in Nat
  BY DcSenderAssumption DEF TypeOK
<1>6. QED
  BY <1>2, <1>3, <1>4, <1>5

\* Taking a frame: its packets are in order, after everything on the wire and
\* before everything left in the queue.
LEMMA TakeFrameOrder ==
  ASSUME TypeOK, OrderInv, in_flight = <<>>, TakeFrame,
         UNCHANGED <<wire, produced>>
  PROVE  OrderInv'
<1> DEFINE f == Head(queue)
<1>1. /\ f \in FrameIds
      /\ in_flight' = PacketsOf(f)
      /\ queue' = Tail(queue)
      /\ queue # <<>>
      /\ queue \in Seq(FrameIds)
  BY TakeFrameEffect DEF TakeFrame, TypeOK
<1>2. \A i \in 1..Len(in_flight') : in_flight'[i] = [frame |-> f, index |-> i]
  BY <1>1, PacketsOfType
<1>3. Len(in_flight') \in Nat
  BY <1>1, PacketsOfType, DcSenderAssumption DEF FrameIds
<1>4. /\ Len(queue) > 0 /\ Len(queue') = Len(queue) - 1 /\ f = queue[1]
      /\ Len(queue) \in Nat
      /\ \A i \in 1..Len(queue') :
           i + 1 \in 1..Len(queue) /\ queue'[i] = queue[i + 1]
  BY <1>1, TailElements
<1>5. /\ \A i \in 1..Len(queue) : queue[i] \in Nat
      /\ f \in Nat /\ produced \in Nat /\ Len(wire) \in Nat
      /\ \A i \in 1..Len(wire) : wire[i].frame \in Nat
  BY <1>4, StateElements
<1>6. f <= produced /\ \A j \in 1..Len(queue') : f < queue'[j]
  <2>1. f <= produced
    BY <1>4 DEF OrderInv, QueueOrder
  <2>2. ASSUME NEW j \in 1..Len(queue') PROVE f < queue'[j]
    <3>1. j + 1 \in 1..Len(queue) /\ queue'[j] = queue[j + 1]
      BY <1>4
    <3>2. 1 \in 1..Len(queue) /\ 1 < j + 1
      BY <1>4
    <3>3. queue[1] < queue[j + 1]
      BY <3>1, <3>2 DEF OrderInv, QueueOrder
    <3>4. QED
      BY <1>4, <3>1, <3>3
  <2>3. QED
    BY <2>1, <2>2
<1>7. QueueOrder'
  <2>1. ASSUME NEW i \in 1..Len(queue'), NEW j \in 1..Len(queue'), i < j
        PROVE  queue'[i] < queue'[j]
    <3>1. /\ i + 1 \in 1..Len(queue) /\ queue'[i] = queue[i + 1]
          /\ j + 1 \in 1..Len(queue) /\ queue'[j] = queue[j + 1]
      BY <1>4
    <3>2. i + 1 < j + 1
      BY <2>1
    <3>3. QED
      BY <3>1, <3>2 DEF OrderInv, QueueOrder
  <2>2. ASSUME NEW i \in 1..Len(queue') PROVE queue'[i] <= produced'
    BY <1>4 DEF OrderInv, QueueOrder
  <2>3. QED
    BY <2>1, <2>2 DEF QueueOrder
<1>8. FlightOrder'
  <2>1. ASSUME NEW i \in 1..Len(in_flight')
        PROVE  in_flight'[i].frame = f /\ in_flight'[i].index = i
    <3>1. in_flight'[i] = [frame |-> f, index |-> i]
      BY <1>2
    <3>2. QED
      BY <3>1
  <2>2. \A i, j \in 1..Len(in_flight') :
          i < j => Before(in_flight'[i], in_flight'[j])
    BY <2>1 DEF Before
  <2>3. QED
    BY <1>6, <2>1, <2>2 DEF FlightOrder
<1>9. \A i \in 1..Len(wire) : wire[i].frame < f
  <2>1. 1 \in 1..Len(queue)
    BY <1>4
  <2>2. QED
    BY <1>4, <2>1 DEF OrderInv, WireOrder
<1>10. WireOrder'
  <2>1. FramesNotInterleaved'
    BY DEF OrderInv, WireOrder, FramesNotInterleaved
  <2>2. ASSUME NEW i \in 1..Len(wire')
        PROVE  /\ wire'[i].frame <= produced'
               /\ \A j \in 1..Len(in_flight') : Before(wire'[i], in_flight'[j])
               /\ \A j \in 1..Len(queue') : wire'[i].frame < queue'[j]
    <3>1. wire'[i].frame <= produced'
      BY DEF OrderInv, WireOrder
    <3>2. wire'[i].frame < f /\ wire'[i].frame \in Nat
      BY <1>5, <1>9
    <3>3. ASSUME NEW j \in 1..Len(in_flight') PROVE in_flight'[j].frame = f
      <4>1. in_flight'[j] = [frame |-> f, index |-> j]
        BY <1>2
      <4>2. QED
        BY <4>1
    <3>4. \A j \in 1..Len(in_flight') : Before(wire'[i], in_flight'[j])
      BY <3>2, <3>3 DEF Before
    <3>5. \A j \in 1..Len(queue') : queue'[j] \in Nat /\ f < queue'[j]
      BY <1>4, <1>5, <1>6
    <3>6. \A j \in 1..Len(queue') : wire'[i].frame < queue'[j]
      BY <1>5, <3>2, <3>5
    <3>7. QED
      BY <3>1, <3>4, <3>6
  <2>3. QED
    BY <2>1, <2>2 DEF WireOrder
<1>11. QED
  BY <1>7, <1>8, <1>10 DEF OrderInv

LEMMA NextOrderInv ==
  ASSUME TypeInv, OrderInv, [Next]_vars
  PROVE  OrderInv'
<1> USE DEF OrderInv
<1>0. TypeOK
  BY DEF TypeInv
<1>a. /\ Len(queue) \in Nat /\ Len(in_flight) \in Nat /\ Len(wire) \in Nat
      /\ produced \in Nat
      /\ \A i \in 1..Len(queue) : queue[i] \in Nat
      /\ \A i \in 1..Len(in_flight) :
           in_flight[i].frame \in Nat /\ in_flight[i].index \in Nat
      /\ \A i \in 1..Len(wire) :
           wire[i].frame \in Nat /\ wire[i].index \in Nat
  BY <1>0, StateElements
<1>1. CASE Send
  <2> DEFINE f == produced + 1
  <2>0. produced' = f /\ UNCHANGED <<in_flight, wire>>
    BY <1>1 DEF Send
  <2>1. CASE UNCHANGED queue
    <3>1. QueueOrder'
      <4>1. ASSUME NEW i \in 1..Len(queue) PROVE queue[i] <= produced'
        <5>1. queue[i] <= produced /\ queue[i] \in Nat
          BY <1>a DEF QueueOrder
        <5>2. QED
          BY <1>a, <2>0, <5>1
      <4>2. QED
        BY <2>1, <4>1 DEF QueueOrder
    <3>2. FlightOrder'
      BY <1>a, <2>0, <2>1 DEF FlightOrder
    <3>3. FramesNotInterleaved'
      BY <2>0 DEF WireOrder, FramesNotInterleaved
    <3>4. WireOrder'
      BY <1>a, <2>0, <2>1, <3>3 DEF WireOrder
    <3>5. QED
      BY <3>1, <3>2, <3>4
  <2>2. ASSUME NEW q \in Seq(FrameIds), queue' = Append(q, f),
               \A i \in 1..Len(q) : \E k \in 1..Len(queue) : q[i] = queue[k],
               \A i, j \in 1..Len(q) : i < j => q[i] < q[j]
        PROVE  OrderInv'
    <3>1. f \in FrameIds
      <4>1. produced < Frames
        BY <1>1 DEF Send
      <4>2. QED
        BY <1>a, <4>1, DcSenderAssumption DEF FrameIds
    <3>2. /\ Len(queue') = Len(q) + 1 /\ Len(q) \in Nat
          /\ queue'[Len(q) + 1] = f
          /\ \A i \in 1..Len(q) : queue'[i] = q[i] /\ q[i] \in Nat
      <4>1. \A e \in FrameIds : e \in Nat
        BY DEF FrameIds
      <4>2. Len(q) \in Nat /\ \A i \in 1..Len(q) : q[i] \in FrameIds
        BY ElementTypes
      <4>3. /\ Len(Append(q, f)) = Len(q) + 1
            /\ Append(q, f)[Len(q) + 1] = f
            /\ \A i \in 1..Len(q) : Append(q, f)[i] = q[i]
        BY <3>1, AppendElements
      <4>4. QED
        BY <2>2, <4>1, <4>2, <4>3
    <3>3. \A i \in 1..Len(q) : q[i] <= produced
      BY <2>2 DEF QueueOrder
    <3>4. QueueOrder'
      <4>1. ASSUME NEW i \in 1..Len(queue'), NEW j \in 1..Len(queue'), i < j
            PROVE  queue'[i] < queue'[j]
        <5>1. i \in 1..Len(q)
          BY <3>2, <4>1
        <5>2. CASE j \in 1..Len(q)
          BY <2>2, <3>2, <4>1, <5>1, <5>2
        <5>3. CASE j = Len(q) + 1
          BY <1>a, <3>2, <3>3, <5>1, <5>3
        <5>4. QED
          BY <3>2, <5>2, <5>3
      <4>2. ASSUME NEW i \in 1..Len(queue') PROVE queue'[i] <= produced'
        <5>1. CASE i \in 1..Len(q)
          BY <1>a, <2>0, <3>2, <3>3, <5>1
        <5>2. CASE i = Len(q) + 1
          BY <1>a, <2>0, <3>2, <5>2
        <5>3. QED
          BY <3>2, <5>1, <5>2
      <4>3. QED
        BY <4>1, <4>2 DEF QueueOrder
    <3>5. \A j \in 1..Len(queue') :
            queue'[j] = f \/ \E k \in 1..Len(queue) : queue'[j] = queue[k]
      BY <2>2, <3>2
    <3>7. FlightOrder'
      <4>1. ASSUME NEW i \in 1..Len(in_flight)
            PROVE  /\ in_flight[i].frame <= produced'
                   /\ \A j \in 1..Len(queue') : in_flight[i].frame < queue'[j]
        <5>1. in_flight[i].frame <= produced /\ in_flight[i].frame \in Nat
          BY <1>a DEF FlightOrder
        <5>2. \A k \in 1..Len(queue) : in_flight[i].frame < queue[k]
          BY DEF FlightOrder
        <5>3. in_flight[i].frame <= produced' /\ in_flight[i].frame < f
          BY <1>a, <2>0, <5>1
        <5>4. ASSUME NEW j \in 1..Len(queue')
              PROVE  in_flight[i].frame < queue'[j]
          <6>1. CASE queue'[j] = f
            BY <5>3, <6>1
          <6>2. CASE \E k \in 1..Len(queue) : queue'[j] = queue[k]
            BY <5>2, <6>2
          <6>3. QED
            BY <3>5, <6>1, <6>2
        <5>5. QED
          BY <5>3, <5>4
      <4>2. QED
        BY <2>0, <4>1 DEF FlightOrder
    <3>8. WireOrder'
      <4>1. ASSUME NEW i \in 1..Len(wire)
            PROVE  /\ wire[i].frame <= produced'
                   /\ \A j \in 1..Len(queue') : wire[i].frame < queue'[j]
        <5>1. wire[i].frame <= produced /\ wire[i].frame \in Nat
          BY <1>a DEF WireOrder
        <5>2. \A k \in 1..Len(queue) : wire[i].frame < queue[k]
          BY DEF WireOrder
        <5>3. wire[i].frame <= produced' /\ wire[i].frame < f
          BY <1>a, <2>0, <5>1
        <5>4. ASSUME NEW j \in 1..Len(queue')
              PROVE  wire[i].frame < queue'[j]
          <6>1. CASE queue'[j] = f
            BY <5>3, <6>1
          <6>2. CASE \E k \in 1..Len(queue) : queue'[j] = queue[k]
            BY <5>2, <6>2
          <6>3. QED
            BY <3>5, <6>1, <6>2
        <5>5. QED
          BY <5>3, <5>4
      <4>2. QED
        BY <2>0, <4>1 DEF WireOrder, FramesNotInterleaved
    <3>9. QED
      BY <3>4, <3>7, <3>8
  <2>3. queue \in Seq(FrameIds)
    BY <1>0 DEF TypeOK
  <2>4. CASE Len(queue) >= Capacity /\ queue' = Append(Tail(queue), f)
    <3>1. queue # <<>>
      BY <2>3, <2>4, DcSenderAssumption
    <3>2. /\ Tail(queue) \in Seq(FrameIds)
          /\ Len(queue) \in Nat
          /\ Len(Tail(queue)) = Len(queue) - 1
          /\ \A i \in 1..Len(Tail(queue)) :
               i + 1 \in 1..Len(queue) /\ Tail(queue)[i] = queue[i + 1]
      BY <2>3, <3>1, TailElements, MoveHead
    <3>3. \A i, j \in 1..Len(Tail(queue)) :
            i < j => Tail(queue)[i] < Tail(queue)[j]
      BY <3>2 DEF QueueOrder
    <3>4. QED
      BY <2>2, <2>4, <3>2, <3>3, Zenon
  <2>5. CASE queue' = Append(queue, f)
    BY <2>2, <2>3, <2>5 DEF QueueOrder
  <2>6. QED
    BY <1>1, <2>1, <2>4, <2>5 DEF Send, PushBack, Full
<1>2. CASE RecvPop \/ RecvRecheck
  <2>1. in_flight = <<>> /\ UNCHANGED <<wire, produced>>
    BY <1>2 DEF RecvPop, CanRecv, RecvRecheck, TypeInv, NothingInFlight
  <2>2. CASE TakeFrame
    BY <1>0, <2>1, <2>2, TakeFrameOrder
  <2>3. CASE UNCHANGED <<queue, in_flight>>
    BY <2>1, <2>3 DEF QueueOrder, FlightOrder, WireOrder, FramesNotInterleaved
  <2>4. QED
    BY <1>2, <2>2, <2>3 DEF RecvPop, RecvRecheck
<1>3. CASE Dispatch
  <2> DEFINE p == Head(in_flight)
  <2>1. /\ in_flight \in Seq(Packet) /\ in_flight # <<>>
        /\ in_flight' = Tail(in_flight)
        /\ wire \in Seq(Packet)
        /\ wire' = wire \/ wire' = Append(wire, p)
        /\ UNCHANGED <<queue, produced>>
    BY <1>0, <1>3 DEF Dispatch, TypeOK
  <2>2. /\ Len(in_flight) \in Nat /\ Len(in_flight) > 0
        /\ Len(in_flight') = Len(in_flight) - 1
        /\ p = in_flight[1]
        /\ \A i \in 1..Len(in_flight') :
             i + 1 \in 1..Len(in_flight) /\ in_flight'[i] = in_flight[i + 1]
    BY <2>1, TailElements
  <2>3. p \in Packet
    BY <2>1, MoveHead
  <2>4. QueueOrder'
    BY <2>1 DEF QueueOrder
  <2>5. FlightOrder'
    BY <2>1, <2>2 DEF FlightOrder
  <2>6. \A j \in 1..Len(in_flight') : Before(p, in_flight'[j])
    BY <2>2 DEF FlightOrder
  <2>7. CASE wire' = wire
    BY <2>1, <2>2, <2>4, <2>5, <2>7 DEF WireOrder, FramesNotInterleaved
  <2>8. CASE wire' = Append(wire, p)
    <3>1. /\ Len(wire') = Len(wire) + 1 /\ Len(wire) \in Nat
          /\ wire'[Len(wire) + 1] = p
          /\ \A i \in 1..Len(wire) : wire'[i] = wire[i]
      BY <2>1, <2>3, <2>8, AppendElements
    <3>2. \A i \in 1..Len(wire) : Before(wire[i], p)
      BY <2>2 DEF WireOrder
    <3>3. FramesNotInterleaved'
      <4> SUFFICES ASSUME NEW i \in 1..Len(wire'), NEW j \in 1..Len(wire'), i < j
                   PROVE  Before(wire'[i], wire'[j])
        BY DEF FramesNotInterleaved, Before
      <4>1. i \in 1..Len(wire) /\ wire'[i] = wire[i]
        BY <3>1
      <4>2. CASE j \in 1..Len(wire)
        <5>1. Before(wire[i], wire[j])
          BY <4>1, <4>2 DEF WireOrder, FramesNotInterleaved
        <5> QED  BY <3>1, <4>1, <4>2, <5>1
      <4>3. CASE j = Len(wire) + 1
        BY <3>1, <3>2, <4>1, <4>3
      <4> QED  BY <3>1, <4>2, <4>3
    <3>4. /\ p.frame <= produced
          /\ \A j \in 1..Len(queue) : p.frame < queue[j]
      BY <2>2 DEF FlightOrder
    <3>5. \A i \in 1..Len(wire') :
            i \in 1..Len(wire) \/ (i = Len(wire) + 1 /\ wire'[i] = p)
      BY <3>1
    <3>6. \A i \in 1..Len(wire') : wire'[i].frame <= produced'
      <4>1. \A i \in 1..Len(wire) : wire'[i].frame <= produced'
        BY <2>1, <3>1 DEF WireOrder
      <4>2. p.frame <= produced'
        BY <2>1, <3>4
      <4>3. QED
        BY <3>5, <4>1, <4>2
    <3>7. \A i \in 1..Len(wire') : \A j \in 1..Len(in_flight') :
            Before(wire'[i], in_flight'[j])
      <4>1. \A i \in 1..Len(wire) : \A j \in 1..Len(in_flight') :
              Before(wire'[i], in_flight'[j])
        BY <2>2, <3>1 DEF WireOrder
      <4>2. QED
        BY <2>6, <3>5, <4>1
    <3>8. \A i \in 1..Len(wire') : \A j \in 1..Len(queue') :
            wire'[i].frame < queue'[j]
      <4>1. \A i \in 1..Len(wire) : \A j \in 1..Len(queue) :
              wire'[i].frame < queue[j]
        BY <3>1 DEF WireOrder
      <4>2. QED
        BY <2>1, <3>4, <3>5, <4>1
    <3>9. WireOrder'
      BY <3>3, <3>6, <3>7, <3>8 DEF WireOrder
    <3>10. QED
      BY <2>4, <2>5, <3>9
  <2>9. QED
    BY <2>1, <2>7, <2>8
<1>4. CASE Stop
  <2>1. queue' = <<>> /\ in_flight' = <<>> /\ UNCHANGED <<wire, produced>>
    BY <1>4 DEF Stop
  <2>2. QED
    BY <2>1 DEF QueueOrder, FlightOrder, WireOrder, FramesNotInterleaved
<1>5. CASE UNCHANGED <<queue, in_flight, wire, produced>>
  BY <1>5 DEF QueueOrder, FlightOrder, WireOrder, FramesNotInterleaved
<1>6. CASE NotifyOne \/ OnBytesSent \/ DrainDone \/ DcTransmit \/ CloseSession
  BY <1>5, <1>6 DEF NotifyOne, OnBytesSent, DrainDone, DcTransmit, CloseSession
<1>7. CASE UNCHANGED vars
  BY <1>5, <1>7 DEF vars
<1>8. QED
  BY <1>1, <1>2, <1>3, <1>4, <1>6, <1>7 DEF Next, SenderStep

LEMMA SpecOrderInv == Spec => []OrderInv
<1>1. Init => OrderInv
  BY DEF Init, OrderInv, QueueOrder, FlightOrder, WireOrder,
         FramesNotInterleaved
<1>2. TypeInv /\ OrderInv /\ [Next]_vars => OrderInv'
  BY NextOrderInv
<1>3. QED
  BY <1>1, <1>2, SpecTypeInv, PTL DEF Spec

\* The packets of a frame go to the channel in order, never interleaved with
\* another frame's and never twice, whatever is evicted, fails or closes.
THEOREM NoInterleaving == Spec => []FramesNotInterleaved
<1>1. OrderInv => FramesNotInterleaved
  BY DEF OrderInv, WireOrder
<1>2. QED
  BY <1>1, SpecOrderInv, PTL

-----------------------------------------------------------------------------
(***************************************************************************)
(* The byte counter                                                        *)
(***************************************************************************)

\* A rejected packet comes before everything that is still to be dispatched,
\* so no packet is rejected twice.
RejectedOrder ==
  \A r \in rejected :
    /\ r.frame <= produced
    /\ \A j \in 1..Len(in_flight) : Before(r, in_flight[j])
    /\ \A j \in 1..Len(queue) : r.frame < queue[j]

CountInv ==
  /\ IsFiniteSet(rejected)
  /\ RejectedOrder
  /\ BufferedAmountExact

\* Where the elements of the queue and of in_flight come from: a frame that
\* enters the queue is new, a packet that enters in_flight is of a queued
\* frame.
LEMMA NewElements ==
  ASSUME TypeInv, [Next]_vars
  PROVE  /\ produced' \in Nat /\ produced <= produced'
         /\ \A j \in 1..Len(queue') :
              \/ queue'[j] = produced + 1
              \/ \E k \in 1..Len(queue) : queue'[j] = queue[k]
         /\ \A j \in 1..Len(in_flight') :
              \/ \E k \in 1..Len(in_flight) : in_flight'[j] = in_flight[k]
              \/ \E k \in 1..Len(queue) : in_flight'[j].frame = queue[k]
<1>0. /\ TypeOK /\ produced \in Nat
      /\ queue \in Seq(FrameIds) /\ in_flight \in Seq(Packet)
  BY StateElements DEF TypeInv, TypeOK
<1>1. CASE UNCHANGED <<queue, in_flight, produced>>
  BY <1>0, <1>1
<1>2. CASE Send
  <2> DEFINE f == produced + 1
  <2>0. produced' = f /\ UNCHANGED in_flight /\ f \in FrameIds
    BY <1>0, <1>2, DcSenderAssumption DEF Send, FrameIds
  <2>1. CASE UNCHANGED queue
    BY <1>0, <2>0, <2>1
  <2>2. ASSUME NEW q \in Seq(FrameIds), queue' = Append(q, f),
               \A i \in 1..Len(q) : \E k \in 1..Len(queue) : q[i] = queue[k]
        PROVE  \A j \in 1..Len(queue') :
                 \/ queue'[j] = f
                 \/ \E k \in 1..Len(queue) : queue'[j] = queue[k]
    <3>1. /\ Len(queue') = Len(q) + 1 /\ Len(q) \in Nat
          /\ queue'[Len(q) + 1] = f
          /\ \A i \in 1..Len(q) : queue'[i] = q[i]
      BY <2>0, <2>2, AppendElements, ElementTypes
    <3>2. QED
      BY <2>2, <3>1
  <2>3. CASE Len(queue) >= Capacity /\ queue' = Append(Tail(queue), f)
    <3>1. queue # <<>>
      BY <1>0, <2>3, DcSenderAssumption
    <3>2. /\ Tail(queue) \in Seq(FrameIds)
          /\ \A i \in 1..Len(Tail(queue)) :
               i + 1 \in 1..Len(queue) /\ Tail(queue)[i] = queue[i + 1]
      BY <1>0, <3>1, TailElements, MoveHead
    <3>3. QED
      BY <1>0, <2>0, <2>2, <2>3, <3>2
  <2>4. CASE queue' = Append(queue, f)
    BY <1>0, <2>0, <2>2, <2>4
  <2>5. QED
    BY <1>2, <2>1, <2>3, <2>4 DEF Send, PushBack, Full
<1>3. CASE RecvPop \/ RecvRecheck
  <2>1. in_flight = <<>> /\ UNCHANGED produced
    BY <1>3 DEF RecvPop, CanRecv, RecvRecheck, TypeInv, NothingInFlight
  <2>2. CASE TakeFrame
    <3> DEFINE f == Head(queue)
    <3>1. /\ f \in FrameIds /\ in_flight' = PacketsOf(f)
          /\ queue' = Tail(queue) /\ queue # <<>>
      BY <1>0, <2>1, <2>2, TakeFrameEffect DEF TakeFrame
    <3>2. /\ f = queue[1] /\ 1 \in 1..Len(queue)
          /\ \A i \in 1..Len(queue') :
               i + 1 \in 1..Len(queue) /\ queue'[i] = queue[i + 1]
      BY <1>0, <3>1, TailElements
    <3>3. ASSUME NEW j \in 1..Len(in_flight') PROVE in_flight'[j].frame = f
      <4>1. in_flight'[j] = [frame |-> f, index |-> j]
        BY <3>1, PacketsOfType
      <4>2. QED
        BY <4>1
    <3>4. QED
      BY <1>0, <2>1, <3>2, <3>3
  <2>3. CASE UNCHANGED <<queue, in_flight>>
    BY <1>1, <2>1, <2>3
  <2>4. QED
    BY <1>3, <2>2, <2>3 DEF RecvPop, RecvRecheck
<1>4. CASE Dispatch
  <2>1. /\ in_flight # <<>> /\ in_flight' = Tail(in_flight)
        /\ UNCHANGED <<queue, produced>>
    BY <1>4 DEF Dispatch
  <2>2. \A i \in 1..Len(in_flight') :
          i + 1 \in 1..Len(in_flight) /\ in_flight'[i] = in_flight[i + 1]
    BY <1>0, <2>1, TailElements
  <2>3. QED
    BY <1>0, <2>1, <2>2
<1>5. CASE Stop
  <2>1. queue' = <<>> /\ in_flight' = <<>> /\ UNCHANGED produced
    BY <1>5 DEF Stop
  <2>2. QED
    BY <1>0, <2>1
<1>6. CASE NotifyOne \/ OnBytesSent \/ DrainDone \/ DcTransmit \/ CloseSession
  BY <1>1, <1>6 DEF NotifyOne, OnBytesSent, DrainDone, DcTransmit, CloseSession
<1>7. CASE UNCHANGED vars
  BY <1>1, <1>7 DEF vars
<1>8. QED
  BY <1>2, <1>3, <1>4, <1>5, <1>6, <1>7 DEF Next, SenderStep

\* The head of in_flight comes before everything else.
LEMMA HeadFirst ==
  ASSUME TypeInv, OrderInv, Dispatch
  PROVE  LET p == Head(in_flight)
         IN  /\ p \in Packet /\ p.frame <= produced
             /\ \E j \in 1..Len(in_flight) : p = in_flight[j]
             /\ \A j \in 1..Len(in_flight') : Before(p, in_flight'[j])
             /\ \A j \in 1..Len(queue) : p.frame < queue[j]
<1> DEFINE p == Head(in_flight)
<1>1. /\ in_flight \in Seq(Packet) /\ in_flight # <<>>
      /\ in_flight' = Tail(in_flight)
  BY DEF TypeInv, TypeOK, Dispatch
<1>2. /\ p = in_flight[1] /\ Len(in_flight) \in Nat /\ Len(in_flight) > 0
      /\ \A i \in 1..Len(in_flight') :
           i + 1 \in 1..Len(in_flight) /\ in_flight'[i] = in_flight[i + 1]
  BY <1>1, TailElements
<1>3. p \in Packet /\ 1 \in 1..Len(in_flight)
  BY <1>1, <1>2, MoveHead
<1>4. \A j \in 1..Len(in_flight') : Before(p, in_flight'[j])
  <2>1. ASSUME NEW j \in 1..Len(in_flight') PROVE Before(p, in_flight'[j])
    <3>1. j + 1 \in 1..Len(in_flight) /\ 1 < j + 1
      BY <1>2
    <3>2. QED
      BY <1>2, <1>3, <3>1 DEF OrderInv, FlightOrder
  <2>2. QED
    BY <2>1
<1>5. p.frame <= produced /\ \A j \in 1..Len(queue) : p.frame < queue[j]
  BY <1>2, <1>3 DEF OrderInv, FlightOrder
<1>6. QED
  BY <1>2, <1>3, <1>4, <1>5

LEMMA NextRejectedOrder ==
  ASSUME TypeInv, OrderInv, RejectedOrder, [Next]_vars
  PROVE  RejectedOrder'
<1>1. /\ produced' \in Nat /\ produced <= produced'
      /\ \A j \in 1..Len(queue') :
           \/ queue'[j] = produced + 1
           \/ \E k \in 1..Len(queue) : queue'[j] = queue[k]
      /\ \A j \in 1..Len(in_flight') :
           \/ \E k \in 1..Len(in_flight) : in_flight'[j] = in_flight[k]
           \/ \E k \in 1..Len(queue) : in_flight'[j].frame = queue[k]
  BY NewElements
<1>2. /\ TypeOK /\ produced \in Nat
      /\ \A r \in rejected : r.frame \in Nat
  BY StateElements DEF TypeInv, TypeOK, Packet, FrameIds
<1>3. ASSUME NEW r \in rejected
      PROVE  /\ r.frame <= produced'
             /\ \A j \in 1..Len(in_flight') : Before(r, in_flight'[j])
             /\ \A j \in 1..Len(queue') : r.frame < queue'[j]
  <2>1. /\ r.frame \in Nat /\ r.frame <= produced
        /\ \A j \in 1..Len(in_flight) : Before(r, in_flight[j])
        /\ \A j \in 1..Len(queue) : r.frame < queue[j]
    BY <1>2 DEF RejectedOrder
  <2>2. r.frame <= produced' /\ r.frame < produced + 1
    BY <1>1, <1>2, <2>1
  <2>3. \A j \in 1..Len(queue') : r.frame < queue'[j]
    BY <1>1, <2>1, <2>2
  <2>4. \A j \in 1..Len(in_flight') : Before(r, in_flight'[j])
    BY <1>1, <2>1 DEF Before
  <2>5. QED
    BY <2>2, <2>3, <2>4
<1>4. CASE UNCHANGED rejected
  BY <1>3, <1>4 DEF RejectedOrder
<1>5. CASE Dispatch
  <2> DEFINE p == Head(in_flight)
  <2>1. /\ p \in Packet /\ p.frame <= produced'
        /\ \A j \in 1..Len(in_flight') : Before(p, in_flight'[j])
        /\ \A j \in 1..Len(queue') : p.frame < queue'[j]
    BY <1>5, HeadFirst DEF Dispatch
  <2>2. rejected' = rejected \/ rejected' = rejected \cup {p}
    BY <1>5 DEF Dispatch
  <2>3. QED
    BY <1>3, <2>1, <2>2 DEF RejectedOrder
<1>6. CASE ~Dispatch
  <2>1. UNCHANGED rejected
    BY <1>6 DEF Next, SenderStep, Send, NotifyOne, RecvPop, RecvRecheck,
                OnBytesSent, DrainDone, Stop, DcTransmit, CloseSession, vars
  <2>2. QED
    BY <1>4, <2>1
<1>7. QED
  BY <1>5, <1>6

LEMMA NextCountInv ==
  ASSUME TypeInv, OrderInv, CountInv, [Next]_vars
  PROVE  CountInv'
<1> USE DEF CountInv
<1> DEFINE n == dcBuffer + dc_event_rx + Cardinality(rejected)
<1>1. RejectedOrder'
  BY NextRejectedOrder
<1>2. /\ dcBuffer \in Nat /\ dc_event_rx \in Nat /\ buffered_amount \in Nat
      /\ Cardinality(rejected) \in Nat
  BY FS_CardinalityType DEF TypeInv, TypeOK
<1>3. n \in Nat /\ buffered_amount = PacketSize * n
  BY <1>2 DEF BufferedAmountExact
<1>4. CASE UNCHANGED <<dcBuffer, dc_event_rx, buffered_amount, rejected>>
  BY <1>1, <1>4 DEF BufferedAmountExact
<1>5. CASE Dispatch
  <2> DEFINE p == Head(in_flight)
  <2>1. /\ p \in Packet /\ \E j \in 1..Len(in_flight) : p = in_flight[j]
    BY <1>5, HeadFirst
  <2>2. ~Before(p, p)
    BY <2>1 DEF Before, Packet, FrameIds
  <2>3. p \notin rejected
    BY <2>1, <2>2 DEF RejectedOrder
  <2>4. /\ IsFiniteSet(rejected \cup {p})
        /\ Cardinality(rejected \cup {p}) = Cardinality(rejected) + 1
    BY <2>3, FS_AddElement
  <2>5. n' = n + 1 /\ IsFiniteSet(rejected')
    <3>1. CASE dcBuffer' = dcBuffer + 1 /\ UNCHANGED rejected
      BY <1>2, <1>5, <3>1 DEF Dispatch
    <3>2. CASE rejected' = rejected \cup {p} /\ UNCHANGED dcBuffer
      BY <1>2, <1>5, <2>4, <3>2 DEF Dispatch
    <3>3. QED
      BY <1>5, <3>1, <3>2 DEF Dispatch
  <2>6. buffered_amount' = buffered_amount + PacketSize
    BY <1>5 DEF Dispatch
  <2>7. buffered_amount' = PacketSize * n'
    BY <1>3, <2>5, <2>6, OneMorePacket
  <2>8. QED
    BY <1>1, <2>5, <2>7 DEF BufferedAmountExact
<1>6. CASE OnBytesSent
  <2>1. n' \in Nat /\ n = n' + 1 /\ UNCHANGED rejected
    BY <1>2, <1>6 DEF OnBytesSent
  <2>2. /\ PacketSize * n = PacketSize * n' + PacketSize
        /\ PacketSize * n' \in Nat
    BY <2>1, OneMorePacket
  <2>3. buffered_amount' = buffered_amount - PacketSize
    BY <1>2, <1>3, <1>6, <2>2, DcSenderAssumption
    DEF OnBytesSent, AfterBytesSent
  <2>4. buffered_amount' = PacketSize * n'
    BY <1>2, <1>3, <2>2, <2>3, DcSenderAssumption
  <2>5. QED
    BY <1>1, <2>1, <2>4 DEF BufferedAmountExact
<1>7. CASE DcTransmit
  <2>1. n' = n /\ UNCHANGED <<buffered_amount, rejected>>
    BY <1>2, <1>7 DEF DcTransmit
  <2>2. QED
    BY <1>1, <1>3, <2>1 DEF BufferedAmountExact
<1>8. CASE ~Dispatch /\ ~OnBytesSent /\ ~DcTransmit
  <2>1. UNCHANGED <<dcBuffer, dc_event_rx, buffered_amount, rejected>>
    BY <1>8 DEF Next, SenderStep, Send, NotifyOne, RecvPop, RecvRecheck,
                DrainDone, Stop, CloseSession, vars
  <2>2. QED
    BY <1>4, <2>1
<1>9. QED
  BY <1>5, <1>6, <1>7, <1>8

\* The counter is exactly the bytes in the channel, those of the events still
\* to be received and those of the packets whose send failed, which nothing
\* takes away again: handle_bytes_sent never saturates.
THEOREM CounterExact == Spec => []BufferedAmountExact
<1>1. Init => CountInv
  <2>1. IsFiniteSet({}) /\ Cardinality({}) = 0
    BY FS_EmptySet
  <2>2. QED
    BY <2>1, DcSenderAssumption
    DEF Init, CountInv, RejectedOrder, BufferedAmountExact
<1>2. TypeInv /\ OrderInv /\ CountInv /\ [Next]_vars => CountInv'
  BY NextCountInv
<1>3. CountInv => BufferedAmountExact
  BY DEF CountInv
<1>4. QED
  BY <1>1, <1>2, <1>3, SpecTypeInv, SpecOrderInv, PTL DEF Spec

-----------------------------------------------------------------------------
\* Packets.

\* Sequence numbers, and the remainders they are made of.

LEMMA ModIn ==
  ASSUME NEW x \in Nat PROVE x % SequenceSpace \in 0..(SequenceSpace - 1)
BY PacketsAssumption

LEMMA ModUnder ==
  ASSUME NEW x \in 0..(SequenceSpace - 1) PROVE x % SequenceSpace = x
BY PacketsAssumption

LEMMA ModOver ==
  ASSUME NEW x \in SequenceSpace..(SequenceSpace + SequenceSpace - 1)
  PROVE  x % SequenceSpace = x - SequenceSpace
BY PacketsAssumption

\* The sequence number of chunk i of a frame whose first packet has number b.
At(b, i) == (b + i - 1) % SequenceSpace

LEMMA AtIs ==
  ASSUME NEW b \in 0..(SequenceSpace - 1), NEW i \in 1..SequenceSpace
  PROVE  /\ At(b, i) \in 0..(SequenceSpace - 1)
         /\ At(b, i) = IF b + i - 1 < SequenceSpace THEN b + i - 1
                       ELSE b + i - 1 - SequenceSpace
<1>1. PICK x : x = b + i - 1
  OBVIOUS
<1>2. /\ SequenceSpace \in Nat \ {0}
      /\ x \in 0..(SequenceSpace + SequenceSpace - 1)
  BY <1>1, PacketsAssumption
<1>3. At(b, i) = x % SequenceSpace
  BY <1>1 DEF At
<1>4. CASE x < SequenceSpace
  <2>1. x \in 0..(SequenceSpace - 1)
    BY <1>2, <1>4
  <2>2. x % SequenceSpace = x
    BY <2>1, ModUnder
  <2> QED  BY <1>1, <1>3, <1>4, <2>1, <2>2
<1>5. CASE ~(x < SequenceSpace)
  <2>1. x \in SequenceSpace..(SequenceSpace + SequenceSpace - 1)
    BY <1>2, <1>5
  <2>2. x % SequenceSpace = x - SequenceSpace
    BY <2>1, ModOver
  <2>3. x - SequenceSpace \in 0..(SequenceSpace - 1)
    BY <1>2, <1>5
  <2>4. ~(b + i - 1 < SequenceSpace)
    BY <1>1, <1>5
  <2>5. At(b, i) = b + i - 1 - SequenceSpace
    BY <1>1, <1>2, <1>3, <2>2
  <2> QED  BY <1>1, <1>3, <2>2, <2>3, <2>4, <2>5
<1> QED  BY <1>4, <1>5

\* The chunks of one frame have different sequence numbers.
LEMMA AtInjective ==
  ASSUME NEW b \in 0..(SequenceSpace - 1),
         NEW i \in 1..SequenceSpace, NEW j \in 1..SequenceSpace,
         At(b, i) = At(b, j)
  PROVE  i = j
<1>1. /\ At(b, i) = IF b + i - 1 < SequenceSpace THEN b + i - 1
                    ELSE b + i - 1 - SequenceSpace
      /\ At(b, j) = IF b + j - 1 < SequenceSpace THEN b + j - 1
                    ELSE b + j - 1 - SequenceSpace
  BY AtIs
<1>2. /\ SequenceSpace \in Nat
      /\ b \in Nat
      /\ i \in Nat
      /\ j \in Nat
      /\ i >= 1 /\ j >= 1
      /\ b <= SequenceSpace - 1
      /\ i <= SequenceSpace
      /\ j <= SequenceSpace
  BY PacketsAssumption
<1>3. (IF b + i - 1 < SequenceSpace THEN b + i - 1
       ELSE b + i - 1 - SequenceSpace)
      = (IF b + j - 1 < SequenceSpace THEN b + j - 1
         ELSE b + j - 1 - SequenceSpace)
  BY <1>1
<1>4. i = j
  <2> HIDE <1>1
  <2> QED  BY <1>2, <1>3
<1> QED  BY <1>4

\* finalize visits the numbers of a frame's chunks, in order.
LEMMA SpanOfFrame ==
  ASSUME NEW b \in 0..(SequenceSpace - 1), NEW n \in 1..SequenceSpace
  PROVE  Span(b, At(b, n)) = [i \in 1..n |-> At(b, i)]
<1> DEFINE d == At(b, n) + SequenceSpace - b
<1>1. d % SequenceSpace = n - 1
  <2>1. CASE b + n - 1 < SequenceSpace
    <3>1. d = n - 1 + SequenceSpace
      BY <2>1, AtIs, PacketsAssumption
    <3>2. d \in SequenceSpace..(SequenceSpace + SequenceSpace - 1)
      BY <3>1, PacketsAssumption
    <3>3. d % SequenceSpace = d - SequenceSpace
      <4> HIDE DEF d
      <4> QED  BY <3>2, ModOver
    <3> HIDE DEF d
    <3> QED  BY <3>1, <3>3, PacketsAssumption
  <2>2. CASE ~(b + n - 1 < SequenceSpace)
    <3>1. d = n - 1
      BY <2>2, AtIs, PacketsAssumption
    <3>2. n - 1 \in 0..(SequenceSpace - 1)
      BY PacketsAssumption
    <3> HIDE DEF d
    <3> QED  BY <3>1, <3>2, ModUnder
  <2> QED  BY <2>1, <2>2
<1>2. (d % SequenceSpace) + 1 = n
  <2> HIDE DEF d
  <2> QED  BY <1>1
<1>3. Span(b, At(b, n)) = [i \in 1..n |-> (b + i - 1) % SequenceSpace]
  BY <1>2 DEF Span
<1> QED  BY <1>3 DEF At

\* finalize visits the last number, from wherever it began.
LEMMA SpanEnds ==
  ASSUME NEW first \in 0..(SequenceSpace - 1),
         NEW last \in 0..(SequenceSpace - 1)
  PROVE  \E n \in 1..SequenceSpace :
           /\ Span(first, last) = [i \in 1..n |-> At(first, i)]
           /\ At(first, n) = last
<1> DEFINE n == IF first <= last THEN last - first + 1
                ELSE last - first + 1 + SequenceSpace
<1>1. /\ SequenceSpace \in Nat
      /\ first \in Nat /\ first <= SequenceSpace - 1
      /\ last \in Nat /\ last <= SequenceSpace - 1
  BY PacketsAssumption
<1>2. n \in 1..SequenceSpace
  BY <1>1
<1>3. At(first, n) = IF first + n - 1 < SequenceSpace THEN first + n - 1
                     ELSE first + n - 1 - SequenceSpace
  <2> HIDE DEF n
  <2> QED  BY <1>2, AtIs
<1>4. At(first, n) = last
  <2>1. (IF first + n - 1 < SequenceSpace THEN first + n - 1
         ELSE first + n - 1 - SequenceSpace) = last
    BY <1>1
  <2> QED  BY <1>3, <2>1
<1>5. Span(first, At(first, n)) = [i \in 1..n |-> At(first, i)]
  <2> HIDE DEF n
  <2> QED  BY <1>2, SpanOfFrame
<1> HIDE DEF n
<1> QED  BY <1>2, <1>4, <1>5

-----------------------------------------------------------------------------
\* Chunk i of frame f, found under sequence number s.
IsChunk(base, f, i, s, x) ==
  x = Payload(f, i) /\ s = At(base[f], i)

\* Packet p carries chunk i of frame f.
Carries(base, p, f, i) ==
  /\ p.marker = Marker(i, frames[f])
  /\ p.frame_number = f % FrameSpace
  /\ IsChunk(base, f, i, p.sequence, p.payload)

NetInv(base) ==
  \A p \in net : \E f \in DOMAIN frames : \E i \in 1..frames[f] :
    Carries(base, p, f, i)

\* What is held for a frame are its chunks, or those of frames with the same
\* number.
Holds(base, d) ==
  /\ d.begun \in DOMAIN frames
  /\ d.frame_number = d.begun % FrameSpace
  /\ d.start_sequence = base[d.begun]
  /\ \A s \in DOMAIN d.payloads :
       \E f \in DOMAIN frames : \E i \in 1..frames[f] :
         /\ IsChunk(base, f, i, s, d.payloads[s])
         /\ f % FrameSpace = d.begun % FrameSpace

PartialInv(base) == \A d \in partial : Holds(base, d)

\* The first i chunks of frame f, under their sequence numbers.
HasFirst(base, d, f, i) ==
  /\ d.begun = f
  /\ DOMAIN d.payloads = {At(base[f], j) : j \in 1..i}
  /\ \A j \in 1..i : d.payloads[At(base[f], j)] = Payload(f, j)

StreakInv(base) ==
  streak # Payload(0, 0) =>
    \E f \in DOMAIN frames : \E i \in 1..frames[f] :
      /\ streak = Payload(f, i)
      /\ i < frames[f] /\ i <= MaxBuffer =>
           \E d \in partial : HasFirst(base, d, f, i)
      /\ i = frames[f] /\ i <= MaxBuffer => Frame(f, Whole(f)) \in delivered

Bases == [1..MaxFrames -> 0..(SequenceSpace - 1)]

\* What was delivered: Good(d) is what FramesWhole says of d.
Good(d) ==
  \/ d.payload = Whole(d.begun)
  \/ \E p \in Range(d.payload) : /\ p.frame # d.begun
                                 /\ (p.frame % FrameSpace) = (d.begun % FrameSpace)

DeliveredInv == \A d \in delivered : d.begun \in DOMAIN frames /\ Good(d)

\* The types, and at most one frame under way.
Types ==
  /\ frames \in Seq(Sizes)
  /\ Len(frames) <= MaxFrames
  /\ sequence \in 0..(SequenceSpace - 1)
  /\ partial \subseteq PartialFrames
  /\ \A d, e \in partial : d = e

Inv ==
  /\ Types
  /\ \E base \in Bases : NetInv(base) /\ PartialInv(base) /\ StreakInv(base)
  /\ DeliveredInv

-----------------------------------------------------------------------------
LEMMA FrameFacts ==
  ASSUME Types, NEW base \in Bases, NEW f \in DOMAIN frames
  PROVE  /\ f \in 1..MaxFrames
         /\ f \in 1..Len(frames)
         /\ frames[f] \in Sizes
         /\ frames[f] \in 0..SequenceSpace
         /\ base[f] \in 0..(SequenceSpace - 1)
<1>1. f \in 1..Len(frames) /\ Len(frames) \in Nat /\ frames[f] \in Sizes
  BY DEF Types
<1>2. f \in 1..MaxFrames
  BY <1>1, PacketsAssumption DEF Types
<1> QED  BY <1>1, <1>2, PacketsAssumption DEF Bases

LEMMA ChunkFacts ==
  ASSUME Types, NEW base \in Bases,
         NEW f \in DOMAIN frames, NEW i \in 1..frames[f]
  PROVE  /\ i \in 1..SequenceSpace
         /\ i \in Nat
         /\ frames[f] \in Nat
         /\ Payload(f, i) \in Payloads
         /\ Payload(f, i) # Payload(0, 0)
         /\ At(base[f], i) \in 0..(SequenceSpace - 1)
<1>1. i \in 1..SequenceSpace /\ i \in Nat /\ frames[f] \in Nat
  BY FrameFacts, PacketsAssumption
<1>2. f \in 1..MaxFrames
  BY FrameFacts
<1>3. f \in 0..MaxFrames /\ i \in 0..SequenceSpace
  BY <1>1, <1>2, PacketsAssumption
<1>4. Payload(f, i) \in Payloads
  BY <1>3 DEF Payload, Payloads
<1>5. Payload(f, i).frame # Payload(0, 0).frame
  BY <1>2, PacketsAssumption DEF Payload
<1> QED  BY <1>1, <1>4, <1>5, FrameFacts, AtIs

LEMMA MarkerIs ==
  ASSUME NEW n \in Nat, NEW i \in 1..n
  PROVE  /\ Marker(i, n) = "Single" <=> n = 1
         /\ Marker(i, n) = "Start" <=> n > 1 /\ i = 1
         /\ Marker(i, n) = "Final" <=> n > 1 /\ i = n
         /\ Marker(i, n) = "Inter" <=> n > 1 /\ i > 1 /\ i < n
<1>1. CASE n <= 1
  <2>1. Marker(i, n) = "Single"
    BY <1>1 DEF Marker
  <2> QED  BY <1>1, <2>1
<1>2. CASE n > 1 /\ i = 1
  <2>1. Marker(i, n) = "Start"
    BY <1>2 DEF Marker
  <2> QED  BY <1>2, <2>1
<1>3. CASE n > 1 /\ i = n
  <2>1. Marker(i, n) = "Final"
    BY <1>3 DEF Marker
  <2> QED  BY <1>3, <2>1
<1>4. CASE n > 1 /\ i # 1 /\ i # n
  <2>1. Marker(i, n) = "Inter"
    BY <1>4 DEF Marker
  <2> QED  BY <1>4, <2>1
<1> QED  BY <1>1, <1>2, <1>3, <1>4

\* Payloads held for a frame under way.
LEMMA HeldIsFunction ==
  ASSUME Types, NEW d \in partial
  PROVE  /\ d \in PartialFrames
         /\ DOMAIN d.payloads \subseteq 0..(SequenceSpace - 1)
         /\ d.payloads \in [DOMAIN d.payloads -> Payloads]
<1>1. d \in PartialFrames
  BY DEF Types
<1>2. PICK S \in SUBSET (0..(SequenceSpace - 1)) : d.payloads \in [S -> Payloads]
  BY <1>1 DEF PartialFrames
<1>3. S = DOMAIN d.payloads
  BY <1>2
<1> QED  BY <1>1, <1>2, <1>3

LEMMA HeldType ==
  ASSUME NEW S \in SUBSET (0..(SequenceSpace - 1)),
         NEW g \in [S -> Payloads],
         NEW f \in 1..MaxFrames,
         NEW num \in 0..(FrameSpace - 1),
         NEW first \in 0..(SequenceSpace - 1)
  PROVE  [begun |-> f, frame_number |-> num, start_sequence |-> first,
          payloads |-> g] \in PartialFrames
<1>1. g \in UNION {[T -> Payloads] : T \in SUBSET (0..(SequenceSpace - 1))}
  OBVIOUS
<1> QED  BY <1>1 DEF PartialFrames

LEMMA FrameNumber ==
  ASSUME NEW f \in Nat PROVE f % FrameSpace \in 0..(FrameSpace - 1)
BY PacketsAssumption

\* A packet that joins a frame under way.
Joined(d, p) == [d EXCEPT !.payloads = Insert(@, p.sequence, p.payload)]

LEMMA JoinedIs ==
  ASSUME Types, NEW d \in partial, NEW p
  PROVE  /\ Joined(d, p).begun = d.begun
         /\ Joined(d, p).frame_number = d.frame_number
         /\ Joined(d, p).start_sequence = d.start_sequence
         /\ DOMAIN Joined(d, p).payloads = DOMAIN d.payloads \cup {p.sequence}
         /\ Joined(d, p).payloads[p.sequence] = p.payload
         /\ \A s \in DOMAIN d.payloads : s # p.sequence =>
              Joined(d, p).payloads[s] = d.payloads[s]
<1> DEFINE g == Insert(d.payloads, p.sequence, p.payload)
<1>1. d \in PartialFrames
  BY HeldIsFunction
<1>2. /\ Joined(d, p).begun = d.begun
      /\ Joined(d, p).frame_number = d.frame_number
      /\ Joined(d, p).start_sequence = d.start_sequence
      /\ Joined(d, p).payloads = g
  <2> HIDE DEF g
  <2>1. Joined(d, p) = [d EXCEPT !.payloads = g]
    BY DEF Joined, g
  <2> QED  BY <1>1, <2>1 DEF PartialFrames
<1>3. DOMAIN g = {p.sequence} \cup DOMAIN d.payloads
  BY DEF Insert
<1>4. \A s \in DOMAIN g :
        g[s] = IF s = p.sequence THEN p.payload ELSE d.payloads[s]
  BY DEF Insert
<1> HIDE DEF g
<1> QED  BY <1>2, <1>3, <1>4

\* A frame that joins a packet of its own number still holds chunks only.
LEMMA JoinedHolds ==
  ASSUME Types, NEW base \in Bases, NEW d \in partial, Holds(base, d),
         NEW p, NEW f \in DOMAIN frames, NEW i \in 1..frames[f],
         Carries(base, p, f, i), d.frame_number = p.frame_number
  PROVE  /\ Holds(base, Joined(d, p))
         /\ Joined(d, p) \in PartialFrames
<1> DEFINE e == Joined(d, p)
<1>1. /\ e.begun = d.begun
      /\ e.frame_number = d.frame_number
      /\ e.start_sequence = d.start_sequence
      /\ DOMAIN e.payloads = DOMAIN d.payloads \cup {p.sequence}
      /\ e.payloads[p.sequence] = p.payload
      /\ \A s \in DOMAIN d.payloads : s # p.sequence =>
           e.payloads[s] = d.payloads[s]
  BY JoinedIs
<1>2. f % FrameSpace = d.begun % FrameSpace
  BY DEF Carries, Holds
<1>3. IsChunk(base, f, i, p.sequence, p.payload)
  BY DEF Carries
<1>4. Holds(base, e)
  <2> HIDE DEF e
  <2>1. ASSUME NEW s \in DOMAIN e.payloads
        PROVE  \E g \in DOMAIN frames : \E j \in 1..frames[g] :
                 /\ IsChunk(base, g, j, s, e.payloads[s])
                 /\ g % FrameSpace = e.begun % FrameSpace
    <3>1. CASE s = p.sequence
      BY <3>1, <1>1, <1>2, <1>3
    <3>2. CASE s # p.sequence
      <4>1. s \in DOMAIN d.payloads /\ e.payloads[s] = d.payloads[s]
        BY <3>2, <1>1
      <4>2. PICK g \in DOMAIN frames : \E j \in 1..frames[g] :
              /\ IsChunk(base, g, j, s, d.payloads[s])
              /\ g % FrameSpace = d.begun % FrameSpace
        BY <4>1 DEF Holds
      <4>3. PICK j \in 1..frames[g] :
              /\ IsChunk(base, g, j, s, d.payloads[s])
              /\ g % FrameSpace = d.begun % FrameSpace
        BY <4>2
      <4>4. /\ IsChunk(base, g, j, s, e.payloads[s])
            /\ g % FrameSpace = e.begun % FrameSpace
        BY <4>1, <4>3, <1>1
      <4> QED  BY <4>4
    <3> QED  BY <3>1, <3>2
  <2> QED  BY <1>1, <2>1 DEF Holds
<1>5. e \in PartialFrames
  <2> DEFINE S == DOMAIN d.payloads \cup {p.sequence}
             g == Insert(d.payloads, p.sequence, p.payload)
  <2>1. p.sequence \in 0..(SequenceSpace - 1) /\ p.payload \in Payloads
    BY <1>3, ChunkFacts DEF IsChunk
  <2>2. S \in SUBSET (0..(SequenceSpace - 1))
    BY <2>1, HeldIsFunction
  <2>3. g \in [S -> Payloads]
    BY <2>1, HeldIsFunction DEF Insert
  <2>4. d \in PartialFrames
    BY HeldIsFunction
  <2>5. d.begun \in 1..MaxFrames /\ d.frame_number \in 0..(FrameSpace - 1)
        /\ d.start_sequence \in 0..(SequenceSpace - 1)
    BY <2>4 DEF PartialFrames
  <2>6. e = [begun |-> d.begun, frame_number |-> d.frame_number,
             start_sequence |-> d.start_sequence, payloads |-> g]
    <3>1. e = [d EXCEPT !.payloads = g]
      BY DEF Joined
    <3> HIDE DEF g, e
    <3> QED  BY <3>1, <2>4 DEF PartialFrames
  <2> HIDE DEF g, S, e
  <2>7. [begun |-> d.begun, frame_number |-> d.frame_number,
         start_sequence |-> d.start_sequence, payloads |-> g]
        \in PartialFrames
    BY <2>2, <2>3, <2>5, HeldType
  <2> QED  BY <2>6, <2>7
<1> QED  BY <1>4, <1>5

\* What finalize puts together is a frame that was published, unless packets
\* of another frame with the same number took part.
LEMMA FinalizeGood ==
  ASSUME Types, NEW base \in Bases, NEW e, Holds(base, e),
         e.payloads \in [DOMAIN e.payloads -> Payloads],
         NEW p, NEW f \in DOMAIN frames,
         frames[f] \in Nat \ {0}, Carries(base, p, f, frames[f]),
         p.sequence \in DOMAIN e.payloads, e.payloads[p.sequence] = p.payload,
         NEW span, span = Span(e.start_sequence, p.sequence),
         Range(span) \subseteq DOMAIN e.payloads
  PROVE  Good(Frame(e.begun, [i \in DOMAIN span |-> e.payloads[span[i]]]))
<1> DEFINE pl == [i \in DOMAIN span |-> e.payloads[span[i]]]
           r == e.begun
<1> SUFFICES Good(Frame(r, pl))
  OBVIOUS
<1>1. /\ r \in DOMAIN frames
      /\ e.start_sequence = base[r]
      /\ base[r] \in 0..(SequenceSpace - 1)
  BY FrameFacts DEF Holds
<1>2. p.sequence \in 0..(SequenceSpace - 1)
  <2>1. frames[f] \in 1..frames[f]
    OBVIOUS
  <2> QED  BY <2>1, ChunkFacts DEF Carries, IsChunk
<1>3. PICK n \in 1..SequenceSpace :
        /\ span = [i \in 1..n |-> At(base[r], i)]
        /\ At(base[r], n) = p.sequence
  <2> HIDE DEF pl, r
  <2>1. \E n \in 1..SequenceSpace :
          /\ Span(base[r], p.sequence) = [i \in 1..n |-> At(base[r], i)]
          /\ At(base[r], n) = p.sequence
    BY <1>1, <1>2, SpanEnds, Zenon
  <2>2. span = Span(base[r], p.sequence)
    BY <1>1
  <2> QED  BY <2>1, <2>2, Zenon
<1>4. n \in Nat /\ n >= 1
  BY PacketsAssumption
<1>5. /\ DOMAIN span = 1..n
      /\ \A i \in 1..n : /\ span[i] = At(base[r], i)
                         /\ span[i] \in DOMAIN e.payloads
                         /\ pl[i] = e.payloads[span[i]]
  BY <1>3 DEF Range
<1>6. \A i \in 1..n : \E g \in DOMAIN frames : \E j \in 1..frames[g] :
        /\ IsChunk(base, g, j, span[i], pl[i])
        /\ g % FrameSpace = r % FrameSpace
  BY <1>5 DEF Holds
<1>7. CASE \E i \in 1..n : pl[i].frame # r
  <2>1. PICK i \in 1..n : pl[i].frame # r
    BY <1>7
  <2>2. PICK g \in DOMAIN frames : \E j \in 1..frames[g] :
          /\ IsChunk(base, g, j, span[i], pl[i])
          /\ g % FrameSpace = r % FrameSpace
    BY <1>6
  <2>3. pl[i].frame = g
    BY <2>2 DEF IsChunk, Payload
  <2>4. pl[i].frame % FrameSpace = r % FrameSpace
    BY <2>2, <2>3
  <2>5. pl[i] \in Range(pl)
    BY <1>5 DEF Range
  <2>6. \E q \in Range(pl) : q.frame # r /\ q.frame % FrameSpace = r % FrameSpace
    BY <2>1, <2>4, <2>5, Zenon
  <2> HIDE DEF pl
  <2> QED  BY <2>6 DEF Good, Frame
<1>8. CASE \A i \in 1..n : pl[i].frame = r
  <2>1. n \in 1..n
    BY <1>4
  <2>2. pl[n] = p.payload
    BY <2>1, <1>3, <1>5
  <2>3. p.payload.frame = f
    BY DEF Carries, IsChunk, Payload
  <2>4. f = r
    BY <1>8, <2>1, <2>2, <2>3
  <2>5. p.sequence = At(base[r], frames[r])
    BY <2>4 DEF Carries, IsChunk
  <2>6. frames[r] \in 1..SequenceSpace
    BY <2>4, FrameFacts, PacketsAssumption
  <2>7. n = frames[r]
    BY <2>5, <2>6, <1>1, <1>3, AtInjective
  <2>8. ASSUME NEW i \in 1..n PROVE pl[i] = Payload(r, i)
    <3>1. PICK g \in DOMAIN frames : \E j \in 1..frames[g] :
            /\ IsChunk(base, g, j, span[i], pl[i])
            /\ g % FrameSpace = r % FrameSpace
      BY <1>6
    <3>2. PICK j \in 1..frames[g] : IsChunk(base, g, j, span[i], pl[i])
      BY <3>1
    <3>3. g = r
      BY <1>8, <3>2 DEF IsChunk, Payload
    <3>4. At(base[r], j) = At(base[r], i)
      BY <3>2, <3>3, <1>5 DEF IsChunk
    <3>5. j \in 1..SequenceSpace /\ i \in 1..SequenceSpace
      BY <2>6, <2>7, <3>3, PacketsAssumption
    <3>6. j = i
      BY <3>4, <3>5, <1>1, AtInjective
    <3> QED  BY <3>2, <3>3, <3>6 DEF IsChunk
  <2>9. pl = [i \in 1..frames[r] |-> Payload(r, i)]
    BY <2>7, <2>8, <1>5
  <2> HIDE DEF pl
  <2> QED  BY <2>9 DEF Good, Frame, Whole
<1> QED  BY <1>7, <1>8

-----------------------------------------------------------------------------
\* A frame that has its first i chunks has room for another, as long as the
\* buffer takes more than i.
LEMMA RoomLeft ==
  ASSUME NEW base, NEW d, NEW f, NEW i \in Nat, HasFirst(base, d, f, i),
         i < MaxBuffer
  PROVE  /\ Cardinality(DOMAIN d.payloads) \in Nat
         /\ Cardinality(DOMAIN d.payloads) < MaxBuffer
<1> DEFINE S == DOMAIN d.payloads
           m == [j \in 1..i |-> At(base[f], j)]
<1>1. S = {At(base[f], j) : j \in 1..i}
  BY DEF HasFirst
<1>2. m \in Surjection(1..i, S)
  BY <1>1 DEF Surjection
<1>3. IsFiniteSet(1..i) /\ Cardinality(1..i) = i
  <2>1. IsFiniteSet(1..i) /\ Cardinality(1..i) = IF 1 > i THEN 0 ELSE i - 1 + 1
    BY FS_Interval
  <2> QED  BY <2>1
<1>4. IsFiniteSet(S) /\ Cardinality(S) <= i
  <2> HIDE DEF S, m
  <2> QED  BY <1>2, <1>3, FS_Surjection
<1>5. Cardinality(S) \in Nat
  <2> HIDE DEF S
  <2> QED  BY <1>4, FS_CardinalityType
<1> HIDE DEF S
<1>6. Cardinality(S) < MaxBuffer
  BY <1>4, <1>5, PacketsAssumption
<1> QED  BY <1>5, <1>6 DEF S

\* A frame that has its first chunks, and gets the next one.
LEMMA NextChunk ==
  ASSUME Types, NEW base \in Bases, NEW d \in partial,
         NEW f \in DOMAIN frames, NEW i \in 2..frames[f],
         HasFirst(base, d, f, i - 1), NEW p, Carries(base, p, f, i)
  PROVE  HasFirst(base, Joined(d, p), f, i)
<1> DEFINE e == Joined(d, p)
<1>1. /\ e.begun = d.begun
      /\ DOMAIN e.payloads = DOMAIN d.payloads \cup {p.sequence}
      /\ e.payloads[p.sequence] = p.payload
      /\ \A s \in DOMAIN d.payloads : s # p.sequence =>
           e.payloads[s] = d.payloads[s]
  BY JoinedIs
<1>2. p.sequence = At(base[f], i) /\ p.payload = Payload(f, i)
  BY DEF Carries, IsChunk
<1>3. /\ frames[f] \in 0..SequenceSpace
      /\ base[f] \in 0..(SequenceSpace - 1)
      /\ SequenceSpace \in Nat
  BY FrameFacts, PacketsAssumption
<1>4. /\ i \in 1..SequenceSpace
      /\ 1..i = (1..(i - 1)) \cup {i}
      /\ 1..i \subseteq 1..SequenceSpace
  BY <1>3
<1>5. /\ DOMAIN d.payloads = {At(base[f], j) : j \in 1..(i - 1)}
      /\ \A j \in 1..(i - 1) : d.payloads[At(base[f], j)] = Payload(f, j)
      /\ d.begun = f
  BY DEF HasFirst
<1> HIDE DEF e
<1>6. DOMAIN e.payloads = {At(base[f], j) : j \in 1..i}
  BY <1>1, <1>2, <1>4, <1>5
<1>7. ASSUME NEW j \in 1..i
      PROVE  e.payloads[At(base[f], j)] = Payload(f, j)
  <2>1. CASE j = i
    BY <2>1, <1>1, <1>2
  <2>2. CASE j # i
    <3>1. j \in 1..(i - 1) /\ j \in 1..SequenceSpace
      BY <2>2, <1>4
    <3>2. At(base[f], j) # At(base[f], i)
      BY <2>2, <3>1, <1>3, <1>4, AtInjective
    <3>3. At(base[f], j) \in DOMAIN d.payloads
      BY <3>1, <1>5
    <3> QED  BY <3>1, <3>2, <3>3, <1>1, <1>2, <1>5
  <2> QED  BY <2>1, <2>2
<1>8. HasFirst(base, e, f, i)
  BY <1>1, <1>5, <1>6, <1>7 DEF HasFirst
<1> QED  BY <1>8 DEF e

\* A frame that has all its chunks is whole once finalized.
LEMMA FinalizeWhole ==
  ASSUME Types, NEW base \in Bases, NEW f \in DOMAIN frames,
         NEW e, Holds(base, e), HasFirst(base, e, f, frames[f]),
         frames[f] \in Nat \ {0},
         NEW span, span = Span(e.start_sequence, At(base[f], frames[f]))
  PROVE  /\ Range(span) \subseteq DOMAIN e.payloads
         /\ Frame(e.begun, [i \in DOMAIN span |-> e.payloads[span[i]]])
              = Frame(f, Whole(f))
<1>1. /\ e.begun = f
      /\ e.start_sequence = base[f]
      /\ base[f] \in 0..(SequenceSpace - 1)
      /\ frames[f] \in 1..SequenceSpace
  BY FrameFacts, PacketsAssumption DEF Holds, HasFirst
<1>2. span = [i \in 1..frames[f] |-> At(base[f], i)]
  BY <1>1, SpanOfFrame
<1>3. Range(span) \subseteq DOMAIN e.payloads
  BY <1>2 DEF HasFirst, Range
<1>4. \A i \in 1..frames[f] : e.payloads[span[i]] = Payload(f, i)
  BY <1>2 DEF HasFirst
<1>5. [i \in DOMAIN span |-> e.payloads[span[i]]]
        = [i \in 1..frames[f] |-> Payload(f, i)]
  BY <1>2, <1>4
<1> QED  BY <1>1, <1>3, <1>5 DEF Whole

-----------------------------------------------------------------------------
\* What the parts of the invariant say of a frame does not depend on frames
\* that come later.
LEMMA PacketizeKeeps ==
  ASSUME Types, NEW base \in Bases, NetInv(base), PartialInv(base),
         StreakInv(base), DeliveredInv, NEW n \in Sizes, Packetize(n)
  PROVE  Inv'
<1>0. PICK k : k = Len(frames) + 1
  OBVIOUS
<1>1. PICK b2 : b2 = [base EXCEPT ![k] = sequence]
  OBVIOUS
<1>2. /\ Len(frames) \in Nat
      /\ Len(frames) < MaxFrames
      /\ MaxFrames \in Nat
      /\ frames \in Seq(Sizes)
      /\ sequence \in 0..(SequenceSpace - 1)
      /\ n \in 0..SequenceSpace
      /\ n \in Nat
      /\ DOMAIN frames = 1..Len(frames)
  BY PacketsAssumption DEF Types, Packetize
<1>3. b2 \in Bases
  BY <1>0, <1>1, <1>2 DEF Bases
<1>4. /\ frames' = Append(frames, n)
      /\ sequence' = (sequence + n) % SequenceSpace
      /\ net' = net \cup FramePackets(k, n, sequence)
      /\ UNCHANGED <<partial, delivered, streak>>
  BY <1>0 DEF Packetize
<1>5. /\ Len(frames') = k
      /\ DOMAIN frames' = 1..k
      /\ frames'[k] = n
      /\ \A f \in DOMAIN frames : frames'[f] = frames[f]
      /\ frames' \in Seq(Sizes)
  BY <1>0, <1>2, <1>4
<1>6. ASSUME NEW f \in DOMAIN frames
      PROVE  f \in DOMAIN frames' /\ frames'[f] = frames[f] /\ b2[f] = base[f]
             /\ f # k
  <2>1. f \in 1..MaxFrames /\ f # k /\ f \in 1..k
    BY <1>0, <1>2
  <2> QED  BY <2>1, <1>1, <1>5 DEF Bases
<1>7. b2[k] = sequence /\ k \in 1..MaxFrames
  BY <1>0, <1>1, <1>2 DEF Bases
<1>8. Types'
  <2>1. sequence' \in 0..(SequenceSpace - 1)
    <3>1. sequence + n \in Nat
      BY <1>2
    <3> QED  BY <1>4, <3>1, ModIn
  <2>2. Len(frames') <= MaxFrames
    BY <1>0, <1>2, <1>5
  <2>3. partial' \subseteq PartialFrames /\ \A d, e \in partial' : d = e
    BY <1>4 DEF Types
  <2> QED  BY <2>1, <2>2, <2>3, <1>5 DEF Types
<1>9. NetInv(b2)'
  <2> SUFFICES ASSUME NEW p \in net'
               PROVE  \E f \in DOMAIN frames' : \E i \in 1..frames'[f] :
                        Carries(b2, p, f, i)'
    BY DEF NetInv
  <2>1. CASE p \in net
    <3>1. PICK f \in DOMAIN frames : \E i \in 1..frames[f] : Carries(base, p, f, i)
      BY <2>1 DEF NetInv
    <3>2. PICK i \in 1..frames[f] : Carries(base, p, f, i)
      BY <3>1
    <3>3. Carries(b2, p, f, i)'
      BY <3>2, <1>6 DEF Carries, IsChunk
    <3> QED  BY <3>3, <1>6
  <2>2. CASE p \in FramePackets(k, n, sequence)
    <3>1. PICK i \in 1..n :
            p = [marker |-> Marker(i, n), frame_number |-> k % FrameSpace,
                 sequence |-> (sequence + i - 1) % SequenceSpace,
                 payload |-> Payload(k, i)]
      BY <2>2 DEF FramePackets
    <3>2. /\ p.marker = Marker(i, n)
          /\ p.frame_number = k % FrameSpace
          /\ p.sequence = (sequence + i - 1) % SequenceSpace
          /\ p.payload = Payload(k, i)
      BY <3>1
    <3>3. Carries(b2, p, k, i)'
      BY <3>2, <1>5, <1>7 DEF Carries, IsChunk, At
    <3> QED  BY <3>3, <1>5, <1>2, <1>0
  <2> QED  BY <2>1, <2>2, <1>4
<1>10. PartialInv(b2)'
  <2> SUFFICES ASSUME NEW d \in partial PROVE Holds(b2, d)'
    BY <1>4 DEF PartialInv
  <2>1. Holds(base, d)
    BY DEF PartialInv
  <2>2. /\ d.begun \in DOMAIN frames'
        /\ d.start_sequence = b2[d.begun]
        /\ d.frame_number = d.begun % FrameSpace
    BY <2>1, <1>6 DEF Holds
  <2>3. ASSUME NEW s \in DOMAIN d.payloads
        PROVE  \E f \in DOMAIN frames' : \E i \in 1..frames'[f] :
                 /\ IsChunk(b2, f, i, s, d.payloads[s])
                 /\ f % FrameSpace = d.begun % FrameSpace
    <3>1. PICK f \in DOMAIN frames : \E i \in 1..frames[f] :
            /\ IsChunk(base, f, i, s, d.payloads[s])
            /\ f % FrameSpace = d.begun % FrameSpace
      BY <2>1 DEF Holds
    <3>2. PICK i \in 1..frames[f] :
            /\ IsChunk(base, f, i, s, d.payloads[s])
            /\ f % FrameSpace = d.begun % FrameSpace
      BY <3>1
    <3>3. IsChunk(b2, f, i, s, d.payloads[s])
      BY <3>2, <1>6 DEF IsChunk
    <3> QED  BY <3>2, <3>3, <1>6
  <2> QED  BY <2>2, <2>3 DEF Holds
<1>11. StreakInv(b2)'
  <2> SUFFICES ASSUME streak # Payload(0, 0)
               PROVE  (\E f \in DOMAIN frames : \E i \in 1..frames[f] :
                        /\ streak = Payload(f, i)
                        /\ i < frames[f] /\ i <= MaxBuffer =>
                             \E d \in partial : HasFirst(b2, d, f, i)
                        /\ i = frames[f] /\ i <= MaxBuffer =>
                             Frame(f, Whole(f)) \in delivered)'
    BY <1>4 DEF StreakInv
  <2>1. PICK f \in DOMAIN frames : \E i \in 1..frames[f] :
          /\ streak = Payload(f, i)
          /\ i < frames[f] /\ i <= MaxBuffer =>
               \E d \in partial : HasFirst(base, d, f, i)
          /\ i = frames[f] /\ i <= MaxBuffer => Frame(f, Whole(f)) \in delivered
    BY DEF StreakInv
  <2>2. PICK i \in 1..frames[f] :
          /\ streak = Payload(f, i)
          /\ i < frames[f] /\ i <= MaxBuffer =>
               \E d \in partial : HasFirst(base, d, f, i)
          /\ i = frames[f] /\ i <= MaxBuffer => Frame(f, Whole(f)) \in delivered
    BY <2>1
  <2>3. \A d : HasFirst(base, d, f, i) => HasFirst(b2, d, f, i)
    BY <1>6 DEF HasFirst
  <2>4. Whole(f)' = Whole(f)
    BY <1>6 DEF Whole
  <2>5. /\ f \in DOMAIN frames'
        /\ frames'[f] = frames[f]
    BY <1>6
  <2> QED  BY <2>2, <2>3, <2>4, <2>5, <1>4
<1>12. DeliveredInv'
  <2> SUFFICES ASSUME NEW d \in delivered
               PROVE  d.begun \in DOMAIN frames' /\ Good(d)'
    BY <1>4 DEF DeliveredInv
  <2>1. d.begun \in DOMAIN frames /\ Good(d)
    BY DEF DeliveredInv
  <2>2. Whole(d.begun)' = Whole(d.begun)
    BY <2>1, <1>6 DEF Whole
  <2> QED  BY <2>1, <2>2, <1>6 DEF Good
<1> QED  BY <1>3, <1>8, <1>9, <1>10, <1>11, <1>12 DEF Inv

\* Packets that leave the network leave the rest of the invariant alone.
LEMMA LoseKeeps ==
  ASSUME Inv, net' \subseteq net,
         UNCHANGED <<frames, sequence, partial, delivered, streak>>
  PROVE  Inv'
<1>1. PICK base \in Bases : NetInv(base) /\ PartialInv(base) /\ StreakInv(base)
  BY DEF Inv
<1>2. NetInv(base)'
  BY <1>1 DEF NetInv, Carries
<1>3. PartialInv(base)'
  BY <1>1 DEF PartialInv, Holds
<1>4. StreakInv(base)'
  BY <1>1 DEF StreakInv, Whole
<1>5. Types' /\ DeliveredInv'
  BY DEF Inv, Types, DeliveredInv, Good, Whole
<1> QED  BY <1>2, <1>3, <1>4, <1>5 DEF Inv

-----------------------------------------------------------------------------
\* What is said of packets, chunks and frames when no frame is packetized.
LEMMA SameFrames ==
  ASSUME UNCHANGED frames, NEW base
  PROVE  /\ \A d : Holds(base, d)' <=> Holds(base, d)
         /\ \A d : Good(d)' <=> Good(d)
         /\ \A f : Whole(f)' = Whole(f)
<1>1. \A f : Whole(f)' = Whole(f)
  BY DEF Whole
<1> QED  BY <1>1 DEF Holds, Good

LEMMA PushNet ==
  ASSUME NEW base, NetInv(base), UNCHANGED frames, net' \subseteq net
  PROVE  NetInv(base)'
BY DEF NetInv, Carries

\* A packet that continues a streak, and what the frame under way has then.
LEMMA StreakGoesOn ==
  ASSUME Types, NEW base \in Bases, StreakInv(base), NEW p,
         NEW f \in DOMAIN frames, NEW i \in 1..frames[f],
         Carries(base, p, f, i), Streak(p), streak' # Payload(0, 0)
  PROVE  /\ streak' = Payload(f, i)
         /\ i > 1 /\ i <= MaxBuffer =>
              \E d \in partial : HasFirst(base, d, f, i - 1)
<1>1. p.payload.frame = f /\ p.payload.chunk = i
  BY DEF Carries, IsChunk, Payload
<1>2. i \in Nat /\ frames[f] \in Nat
  BY ChunkFacts
<1>3. streak' = IF i = 1 THEN Payload(f, 1)
                ELSE IF streak = Payload(f, i - 1) THEN Payload(f, i)
                ELSE Payload(0, 0)
  BY <1>1 DEF Streak
<1>4. streak' = Payload(f, i)
  BY <1>3
<1>5. ASSUME i > 1, i <= MaxBuffer
      PROVE  \E d \in partial : HasFirst(base, d, f, i - 1)
  <2>1. streak = Payload(f, i - 1)
    BY <1>3, <1>5, <1>2
  <2>2. f # 0
    BY FrameFacts
  <2>3. Payload(f, i - 1).frame # Payload(0, 0).frame
    BY <2>2 DEF Payload
  <2>4. streak # Payload(0, 0)
    BY <2>1, <2>3
  <2>5. PICK g \in DOMAIN frames : \E j \in 1..frames[g] :
          /\ streak = Payload(g, j)
          /\ j < frames[g] /\ j <= MaxBuffer =>
               \E d \in partial : HasFirst(base, d, g, j)
    BY <2>4 DEF StreakInv
  <2>6. PICK j \in 1..frames[g] :
          /\ streak = Payload(g, j)
          /\ j < frames[g] /\ j <= MaxBuffer =>
               \E d \in partial : HasFirst(base, d, g, j)
    BY <2>5
  <2>7. Payload(f, i - 1).frame = Payload(g, j).frame
        /\ Payload(f, i - 1).chunk = Payload(g, j).chunk
    BY <2>1, <2>6
  <2>8. g = f /\ j = i - 1
    BY <2>7 DEF Payload
  <2>9. i - 1 < frames[f] /\ i - 1 <= MaxBuffer
    BY <1>2, <1>5, PacketsAssumption
  <2> QED  BY <2>6, <2>8, <2>9
<1> QED  BY <1>4, <1>5

\* What is left to show of the streak after the push of chunk i of frame f.
StreakNext(base, f, i) ==
  /\ i < frames[f] /\ i <= MaxBuffer =>
       \E d \in partial' : HasFirst(base, d, f, i)
  /\ i = frames[f] /\ i <= MaxBuffer => Frame(f, Whole(f)) \in delivered'

LEMMA StreakKept ==
  ASSUME Types, NEW base \in Bases, StreakInv(base), NEW p,
         NEW f \in DOMAIN frames, NEW i \in 1..frames[f],
         Carries(base, p, f, i), Streak(p), UNCHANGED frames,
         streak' # Payload(0, 0) => StreakNext(base, f, i)
  PROVE  StreakInv(base)'
<1> SUFFICES ASSUME streak' # Payload(0, 0)
             PROVE  (\E g \in DOMAIN frames : \E j \in 1..frames[g] :
                      /\ streak = Payload(g, j)
                      /\ j < frames[g] /\ j <= MaxBuffer =>
                           \E d \in partial : HasFirst(base, d, g, j)
                      /\ j = frames[g] /\ j <= MaxBuffer =>
                           Frame(g, Whole(g)) \in delivered)'
  BY DEF StreakInv, Payload
<1>1. streak' = Payload(f, i)
  BY StreakGoesOn
<1>2. Whole(f)' = Whole(f)
  BY SameFrames
<1> QED  BY <1>1, <1>2 DEF StreakNext

\* FrameFromSingle: a frame of one chunk.
LEMMA SingleKeeps ==
  ASSUME Types, NEW base \in Bases, StreakInv(base), DeliveredInv, NEW p,
         NEW f \in DOMAIN frames, NEW i \in 1..frames[f],
         Carries(base, p, f, i), Streak(p), FrameFromSingle(p),
         UNCHANGED <<frames, sequence>>
  PROVE  Types' /\ PartialInv(base)' /\ StreakInv(base)' /\ DeliveredInv'
<1>1. /\ p.marker = "Single"
      /\ partial' = {}
      /\ delivered' = delivered \cup {Frame(p.payload.frame, <<p.payload>>)}
  BY DEF FrameFromSingle
<1>2. frames[f] = 1 /\ i = 1
  <2>1. frames[f] \in Nat /\ i \in Nat
    BY ChunkFacts
  <2>2. Marker(i, frames[f]) = "Single"
    BY <1>1 DEF Carries
  <2>3. frames[f] = 1
    BY <2>1, <2>2, MarkerIs
  <2> QED  BY <2>1, <2>3
<1>3. p.payload = Payload(f, 1) /\ p.payload.frame = f
  BY <1>2 DEF Carries, IsChunk, Payload
<1>4. Whole(f) = <<Payload(f, 1)>>
  BY <1>2 DEF Whole
<1>5. Frame(p.payload.frame, <<p.payload>>) = Frame(f, Whole(f))
  BY <1>3, <1>4
<1>6. StreakInv(base)'
  <2>1. StreakNext(base, f, i)
    BY <1>1, <1>2, <1>5 DEF StreakNext
  <2> QED  BY <2>1, StreakKept
<1>7. DeliveredInv'
  <2>1. Good(Frame(f, Whole(f))) /\ Frame(f, Whole(f)).begun = f
    BY DEF Good, Frame
  <2> QED  BY <1>1, <1>5, <2>1, SameFrames DEF DeliveredInv
<1>8. Types' /\ PartialInv(base)'
  BY <1>1 DEF Types, PartialInv
<1> QED  BY <1>6, <1>7, <1>8

\* BeginPartial: the first of several chunks.
LEMMA BeginKeeps ==
  ASSUME Types, NEW base \in Bases, StreakInv(base), DeliveredInv, NEW p,
         NEW f \in DOMAIN frames, NEW i \in 1..frames[f],
         Carries(base, p, f, i), Streak(p), BeginPartial(p),
         UNCHANGED <<frames, sequence>>
  PROVE  Types' /\ PartialInv(base)' /\ StreakInv(base)' /\ DeliveredInv'
<1> DEFINE d == PartialFrame(p)
           g == [s \in {p.sequence} |-> p.payload]
<1>1. /\ p.marker = "Start"
      /\ partial' = {d}
      /\ UNCHANGED delivered
  BY DEF BeginPartial
<1>2. frames[f] > 1 /\ i = 1 /\ i \in Nat /\ frames[f] \in Nat
  <2>1. frames[f] \in Nat /\ i \in Nat
    BY ChunkFacts
  <2>2. Marker(i, frames[f]) = "Start"
    BY <1>1 DEF Carries
  <2> QED  BY <2>1, <2>2, MarkerIs
<1>3. /\ p.frame_number = f % FrameSpace
      /\ p.sequence = At(base[f], 1)
      /\ p.payload = Payload(f, 1)
      /\ p.payload.frame = f
      /\ IsChunk(base, f, i, p.sequence, p.payload)
  BY <1>2 DEF Carries, IsChunk, Payload
<1>4. At(base[f], 1) = base[f] /\ base[f] \in 0..(SequenceSpace - 1)
  <2>1. base[f] \in 0..(SequenceSpace - 1) /\ 1 \in 1..SequenceSpace
    BY FrameFacts, PacketsAssumption
  <2>2. At(base[f], 1) = IF base[f] + 1 - 1 < SequenceSpace THEN base[f] + 1 - 1
                         ELSE base[f] + 1 - 1 - SequenceSpace
    BY <2>1, AtIs
  <2> QED  BY <2>1, <2>2, PacketsAssumption
<1>5. d = [begun |-> f, frame_number |-> f % FrameSpace,
           start_sequence |-> base[f], payloads |-> g]
  BY <1>3, <1>4 DEF PartialFrame
<1>6. DOMAIN g = {p.sequence} /\ g[p.sequence] = p.payload
  OBVIOUS
<1>7. d \in PartialFrames
  <2>1. g \in [{p.sequence} -> Payloads]
    BY <1>3, ChunkFacts
  <2>2. f \in 1..MaxFrames /\ f \in Nat
    BY FrameFacts
  <2>3. {p.sequence} \in SUBSET (0..(SequenceSpace - 1))
    BY <1>3, <1>4
  <2>4. f % FrameSpace \in 0..(FrameSpace - 1)
    BY <2>2, FrameNumber
  <2> HIDE DEF g, d
  <2> QED  BY <1>4, <1>5, <2>1, <2>2, <2>3, <2>4, HeldType
<1>8. Holds(base, d) /\ HasFirst(base, d, f, 1)
  <2>1. /\ d.begun = f
        /\ d.frame_number = f % FrameSpace
        /\ d.start_sequence = base[f]
        /\ d.payloads = g
    <3> HIDE DEF g, d
    <3> QED  BY <1>5
  <2> HIDE DEF g, d
  <2>2. Holds(base, d)
    BY <2>1, <1>3, <1>6 DEF Holds
  <2>3. HasFirst(base, d, f, 1)
    <3>1. {At(base[f], j) : j \in 1..1} = {p.sequence}
      BY <1>3
    <3>2. \A j \in 1..1 : g[At(base[f], j)] = Payload(f, j)
      BY <1>3, <1>6
    <3> QED  BY <2>1, <3>1, <3>2, <1>6 DEF HasFirst
  <2> QED  BY <2>2, <2>3
<1> HIDE DEF g, d
<1>9. StreakInv(base)'
  <2>1. StreakNext(base, f, i)
    BY <1>1, <1>2, <1>8 DEF StreakNext
  <2> QED  BY <2>1, StreakKept
<1>10. DeliveredInv'
  BY <1>1, SameFrames DEF DeliveredInv
<1>11. Types'
  BY <1>1, <1>7 DEF Types
<1>12. PartialInv(base)'
  BY <1>1, <1>8, SameFrames DEF PartialInv
<1> QED  BY <1>9, <1>10, <1>11, <1>12

\* A later chunk finds its frame, with room for it, if the chunks before it
\* came in order.
LEMMA StreakFinds ==
  ASSUME Types, NEW base \in Bases, PartialInv(base), StreakInv(base), NEW p,
         NEW f \in DOMAIN frames, NEW i \in 1..frames[f],
         Carries(base, p, f, i), Streak(p), streak' # Payload(0, 0),
         i > 1, i <= MaxBuffer
  PROVE  \E d \in partial : /\ HasFirst(base, d, f, i - 1)
                            /\ d.frame_number = p.frame_number
                            /\ ~(Cardinality(DOMAIN d.payloads) >= MaxBuffer)
<1>1. PICK d \in partial : HasFirst(base, d, f, i - 1)
  BY StreakGoesOn
<1>2. d.frame_number = p.frame_number
  <2>1. Holds(base, d)
    BY DEF PartialInv
  <2> QED  BY <1>1, <2>1 DEF Holds, HasFirst, Carries
<1>3. i - 1 \in Nat /\ i - 1 < MaxBuffer
  BY ChunkFacts, PacketsAssumption
<1>4. /\ Cardinality(DOMAIN d.payloads) \in Nat
      /\ Cardinality(DOMAIN d.payloads) < MaxBuffer
  BY <1>1, <1>3, RoomLeft
<1>5. ~(Cardinality(DOMAIN d.payloads) >= MaxBuffer)
  BY <1>4, PacketsAssumption
<1> QED  BY <1>1, <1>2, <1>5

LEMMA LaterChunk ==
  ASSUME Types, NEW base \in Bases, NEW p,
         NEW f \in DOMAIN frames, NEW i \in 1..frames[f],
         Carries(base, p, f, i), p.marker \in {"Inter", "Final"}
  PROVE  /\ i > 1 /\ i \in 2..frames[f]
         /\ p.marker = "Final" <=> i = frames[f]
<1>1. frames[f] \in Nat /\ i \in Nat
  BY ChunkFacts
<1>2. Marker(i, frames[f]) = p.marker
  BY DEF Carries
<1> QED  BY <1>1, <1>2, MarkerIs

\* push_to_partial for a packet that is not of the frame under way, or finds
\* the buffer full.
DropsPartial(p) ==
  /\ p.marker \in {"Inter", "Final"}
  /\ \A d \in partial : \/ d.frame_number # p.frame_number
                        \/ Cardinality(DOMAIN d.payloads) >= MaxBuffer
  /\ partial' = {}
  /\ UNCHANGED delivered

\* push_to_partial for a packet that joins the frame d.
JoinsPartial(d, p) ==
  /\ p.marker \in {"Inter", "Final"}
  /\ d.frame_number = p.frame_number
  /\ \/ /\ p.marker = "Final"
        /\ partial' = {}
        /\ Finalize(Joined(d, p), p.sequence)
     \/ /\ p.marker = "Inter"
        /\ partial' = {Joined(d, p)}
        /\ UNCHANGED delivered

LEMMA PushToPartialCases ==
  ASSUME NEW p, PushToPartial(p)
  PROVE  DropsPartial(p) \/ \E d \in partial : JoinsPartial(d, p)
BY DEF PushToPartial, DropsPartial, JoinsPartial, Joined

LEMMA DropKeeps ==
  ASSUME Types, NEW base \in Bases, PartialInv(base), StreakInv(base),
         DeliveredInv, NEW p,
         NEW f \in DOMAIN frames, NEW i \in 1..frames[f],
         Carries(base, p, f, i), Streak(p), DropsPartial(p),
         UNCHANGED <<frames, sequence>>
  PROVE  Types' /\ PartialInv(base)' /\ StreakInv(base)' /\ DeliveredInv'
<1>1. /\ p.marker \in {"Inter", "Final"}
      /\ partial' = {}
      /\ UNCHANGED delivered
  BY DEF DropsPartial
<1>2. i > 1
  BY <1>1, LaterChunk
<1>3. StreakInv(base)'
  <2>1. ASSUME streak' # Payload(0, 0) PROVE StreakNext(base, f, i)
    <3>1. ~(i <= MaxBuffer)
      BY <2>1, <1>2, StreakFinds DEF DropsPartial
    <3> QED  BY <3>1 DEF StreakNext
  <2> QED  BY <2>1, StreakKept
<1>4. Types' /\ PartialInv(base)'
  BY <1>1 DEF Types, PartialInv
<1>5. DeliveredInv'
  BY <1>1, SameFrames DEF DeliveredInv
<1> QED  BY <1>3, <1>4, <1>5

LEMMA JoinKeeps ==
  ASSUME Types, NEW base \in Bases, PartialInv(base), StreakInv(base),
         DeliveredInv, NEW p,
         NEW f \in DOMAIN frames, NEW i \in 1..frames[f],
         Carries(base, p, f, i), Streak(p),
         NEW d \in partial, JoinsPartial(d, p),
         UNCHANGED <<frames, sequence>>
  PROVE  Types' /\ PartialInv(base)' /\ StreakInv(base)' /\ DeliveredInv'
<1>1. PICK e : e = Joined(d, p)
  OBVIOUS
<1>2. /\ p.marker \in {"Inter", "Final"}
      /\ d.frame_number = p.frame_number
      /\ \/ /\ p.marker = "Final"
            /\ partial' = {}
            /\ Finalize(e, p.sequence)
         \/ /\ p.marker = "Inter"
            /\ partial' = {e}
            /\ UNCHANGED delivered
  BY <1>1 DEF JoinsPartial
<1>3. i > 1 /\ i \in 2..frames[f] /\ (p.marker = "Final" <=> i = frames[f])
  BY <1>2, LaterChunk
<1>4. Holds(base, d)
  BY DEF PartialInv
<1>5. Holds(base, e) /\ e \in PartialFrames
  BY <1>1, <1>2, <1>4, JoinedHolds
<1>6. /\ DOMAIN e.payloads = DOMAIN d.payloads \cup {p.sequence}
      /\ e.payloads[p.sequence] = p.payload
  BY <1>1, JoinedIs
<1>7. ASSUME streak' # Payload(0, 0), i <= MaxBuffer
      PROVE  HasFirst(base, e, f, i)
  <2>1. PICK x \in partial : HasFirst(base, x, f, i - 1)
    BY <1>3, <1>7, StreakFinds
  <2>2. x = d
    BY DEF Types
  <2> QED  BY <1>1, <1>3, <2>1, <2>2, NextChunk
<1>8. frames[f] \in Nat \ {0} /\ i \in Nat
  BY ChunkFacts
<1>9. CASE p.marker = "Inter" /\ partial' = {e} /\ UNCHANGED delivered
  <2>1. i # frames[f]
    BY <1>3, <1>9
  <2>2. StreakInv(base)'
    <3>1. streak' # Payload(0, 0) => StreakNext(base, f, i)
      BY <1>7, <1>9, <2>1 DEF StreakNext
    <3> QED  BY <3>1, StreakKept
  <2>3. Types' /\ PartialInv(base)' /\ DeliveredInv'
    BY <1>5, <1>9, SameFrames DEF Types, PartialInv, DeliveredInv
  <2> QED  BY <2>2, <2>3
<1>10. CASE p.marker = "Final" /\ partial' = {} /\ Finalize(e, p.sequence)
  <2>1. PICK span : span = Span(e.start_sequence, p.sequence)
    OBVIOUS
  <2>2. PICK new : new = Frame(e.begun, [j \in DOMAIN span |-> e.payloads[span[j]]])
    OBVIOUS
  <2>3. delivered' = IF Range(span) \subseteq DOMAIN e.payloads
                     THEN delivered \cup {new} ELSE delivered
    BY <1>10, <2>1, <2>2 DEF Finalize
  <2>4. i = frames[f]
    BY <1>3, <1>10
  <2>5. Carries(base, p, f, frames[f])
    BY <2>4
  <2>6. e.payloads \in [DOMAIN e.payloads -> Payloads]
    <3>1. PICK S \in SUBSET (0..(SequenceSpace - 1)) : e.payloads \in [S -> Payloads]
      BY <1>5 DEF PartialFrames
    <3> QED  BY <3>1
  <2>7. Range(span) \subseteq DOMAIN e.payloads => Good(new)
    BY <2>1, <2>2, <2>5, <2>6, <1>5, <1>6, <1>8, FinalizeGood
  <2>8. new.begun \in DOMAIN frames
    BY <2>2, <1>5 DEF Frame, Holds
  <2>9. DeliveredInv'
    BY <2>3, <2>7, <2>8, SameFrames DEF DeliveredInv
  <2>10. StreakInv(base)'
    <3>1. ASSUME streak' # Payload(0, 0), i <= MaxBuffer
          PROVE  Frame(f, Whole(f)) \in delivered'
      <4>1. HasFirst(base, e, f, frames[f])
        BY <1>7, <2>4, <3>1
      <4>2. span = Span(e.start_sequence, At(base[f], frames[f]))
        BY <2>1, <2>5 DEF Carries, IsChunk
      <4>3. Range(span) \subseteq DOMAIN e.payloads /\ new = Frame(f, Whole(f))
        BY <4>1, <4>2, <2>2, <1>5, <1>8, FinalizeWhole
      <4> QED  BY <4>3, <2>3
    <3>2. streak' # Payload(0, 0) => StreakNext(base, f, i)
      BY <3>1, <2>4, <1>8 DEF StreakNext
    <3> QED  BY <3>2, StreakKept
  <2>11. Types' /\ PartialInv(base)'
    BY <1>10 DEF Types, PartialInv
  <2> QED  BY <2>9, <2>10, <2>11
<1> QED  BY <1>2, <1>9, <1>10

LEMMA PushKeeps ==
  ASSUME Inv, NEW p \in net, Push(p) PROVE Inv'
<1>1. PICK base \in Bases : NetInv(base) /\ PartialInv(base) /\ StreakInv(base)
  BY DEF Inv
<1>2. Types /\ DeliveredInv
  BY DEF Inv
<1>3. PICK f \in DOMAIN frames : \E i \in 1..frames[f] : Carries(base, p, f, i)
  BY <1>1 DEF NetInv
<1>4. PICK i \in 1..frames[f] : Carries(base, p, f, i)
  BY <1>3
<1>5. /\ net' \subseteq net
      /\ Streak(p)
      /\ FrameFromSingle(p) \/ BeginPartial(p) \/ PushToPartial(p)
      /\ UNCHANGED <<frames, sequence>>
  BY DEF Push
<1>6. NetInv(base)'
  BY <1>1, <1>5, PushNet
<1>7. Types' /\ PartialInv(base)' /\ StreakInv(base)' /\ DeliveredInv'
  <2>1. CASE FrameFromSingle(p)
    BY <2>1, <1>1, <1>2, <1>4, <1>5, SingleKeeps
  <2>2. CASE BeginPartial(p)
    BY <2>2, <1>1, <1>2, <1>4, <1>5, BeginKeeps
  <2>3. CASE PushToPartial(p)
    <3>1. CASE DropsPartial(p)
      BY <3>1, <1>1, <1>2, <1>4, <1>5, DropKeeps
    <3>2. CASE \E d \in partial : JoinsPartial(d, p)
      BY <3>2, <1>1, <1>2, <1>4, <1>5, JoinKeeps
    <3> QED  BY <2>3, <3>1, <3>2, PushToPartialCases
  <2> QED  BY <1>5, <2>1, <2>2, <2>3
<1> QED  BY <1>6, <1>7 DEF Inv

LEMMA InitInv == PacketsInit => Inv
<1> SUFFICES ASSUME PacketsInit PROVE Inv
  OBVIOUS
<1>1. PICK base : base = [f \in 1..MaxFrames |-> 0]
  OBVIOUS
<1>2. 0 \in 0..(SequenceSpace - 1)
  BY PacketsAssumption
<1>3. base \in Bases
  BY <1>1, <1>2 DEF Bases
<1>4. NetInv(base) /\ PartialInv(base) /\ StreakInv(base) /\ DeliveredInv
  BY DEF PacketsInit, NetInv, PartialInv, StreakInv, DeliveredInv
<1>5. Types
  <2>1. frames = <<>>
    BY DEF PacketsInit
  <2>2. frames \in Seq(Sizes) /\ Len(frames) <= MaxFrames
    BY <2>1, PacketsAssumption
  <2> QED  BY <1>2, <2>2 DEF PacketsInit, Types
<1> QED  BY <1>3, <1>4, <1>5 DEF Inv

LEMMA StepInv == Inv /\ [PacketsNext]_packetsVars => Inv'
<1> SUFFICES ASSUME Inv, [PacketsNext]_packetsVars PROVE Inv'
  OBVIOUS
<1>1. ASSUME NEW n \in Sizes, Packetize(n) PROVE Inv'
  BY <1>1, PacketizeKeeps DEF Inv
<1>2. ASSUME NEW p \in net, Push(p) PROVE Inv'
  BY <1>2, PushKeeps
<1>3. ASSUME NEW p \in net, Lose(p) PROVE Inv'
  BY <1>3, LoseKeeps DEF Lose
<1>4. CASE UNCHANGED packetsVars
  BY <1>4, LoseKeeps DEF packetsVars
<1> QED  BY <1>1, <1>2, <1>3, <1>4 DEF PacketsNext

LEMMA SpecInv == PacketsSpec => []Inv
<1>1. PacketsInit => Inv
  BY InitInv
<1>2. Inv /\ [PacketsNext]_packetsVars => Inv'
  BY StepInv
<1> QED  BY <1>1, <1>2, PTL DEF PacketsSpec

-----------------------------------------------------------------------------
\* A frame that Depacketizer::push returns is a frame that was packetized,
\* with all its chunks in their order, whatever was lost, reordered or
\* repeated on the way and wherever the sequence numbers wrap; only packets of
\* frames whose numbers are equal after wrapping can be taken for one frame.
THEOREM OnlyWholeFrames == PacketsSpec => []FramesWhole
<1>1. Inv => FramesWhole
  BY DEF Inv, DeliveredInv, Good, FramesWhole
<1> QED  BY <1>1, SpecInv, PTL

\* A frame whose packets arrive in order and on end is delivered whatever the
\* frames before it have left in the depacketizer, as long as the buffer takes
\* its packets: begin_partial and frame_from_single need no clean state.
THEOREM CleanFramesDelivered == PacketsSpec => []CleanFrameDelivered
<1>1. Inv => CleanFrameDelivered
  <2> SUFFICES ASSUME Inv, streak.frame # 0, streak.chunk = frames[streak.frame]
               PROVE  \/ Frame(streak.frame, Whole(streak.frame)) \in delivered
                      \/ streak.chunk > MaxBuffer
    BY DEF CleanFrameDelivered
  <2>1. PICK base \in Bases : StreakInv(base)
    BY DEF Inv
  <2>2. streak # Payload(0, 0)
    BY DEF Payload
  <2>3. PICK f \in DOMAIN frames : \E i \in 1..frames[f] :
          /\ streak = Payload(f, i)
          /\ i = frames[f] /\ i <= MaxBuffer => Frame(f, Whole(f)) \in delivered
    BY <2>1, <2>2 DEF StreakInv
  <2>4. PICK i \in 1..frames[f] :
          /\ streak = Payload(f, i)
          /\ i = frames[f] /\ i <= MaxBuffer => Frame(f, Whole(f)) \in delivered
    BY <2>3
  <2>5. streak.frame = f /\ streak.chunk = i
    BY <2>4 DEF Payload
  <2>6. i \in Nat
    BY <2>1, ChunkFacts DEF Inv
  <2> QED  BY <2>4, <2>5, <2>6, PacketsAssumption
<1> QED  BY <1>1, SpecInv, PTL

-----------------------------------------------------------------------------
\* LocalTracks.

\* Answers of the SFU, and requests to it.
AnswerEvents ==
  [type : {"SfuPublished", "SfuRefused", "SfuUnpublishResponse"},
   track : Tracks]
RequestEvents ==
  [type : {"SfuPublishRequest", "SfuUnpublishRequest"}, track : Tracks]

\* The type invariant, by groups of variables, with narrower channels.
QueuesOK ==
  /\ event_in \in Seq(InputEvents)
  /\ event_out \in Seq(OutputEvents)
  /\ toSfu \in Seq(RequestEvents)
  /\ fromSfu \in Seq(AnswerEvents)
  /\ lost \subseteq InputEvents

ManagerOK ==
  /\ descriptors \in [Tracks -> {"none", "pending", "active"}]
  /\ allocated \in Nat
  /\ manager \in {"running", "republishing", "closing", "ended"}
  /\ todo \subseteq Tracks
  /\ joining \in Tracks \cup {NoTrack}

TracksOK ==
  /\ state \in [Tracks -> PublishStates]
  /\ task \in [Tracks -> {"none", "running", "ending", "done"}]
  /\ seen \in [Tracks -> PublishStates]
  /\ frame_rx \in [Tracks -> Nat]

UsersOK ==
  /\ result \in [Tracks -> {"none", "track", "error"}]
  /\ forwarder \in [Tracks -> {"none", "waiting", "done"}]
  /\ user \in [Tracks -> {"idle", "asking", "timedout", "holding", "released",
                          "failed"}]

NetOK ==
  /\ forwarding \in BOOLEAN
  /\ link \in {"up", "down", "closed"}
  /\ sfu \subseteq Tracks
  /\ pushed \in Nat
  /\ restarts \in Nat

ChannelInv == QueuesOK /\ ManagerOK /\ TracksOK /\ UsersOK /\ NetOK

\* Event e is in queue q.
Has(q, e) == \E i \in 1..Len(q) : q[i] = e

\* Event e is in q once at most.
Once(q, e) == \A i, j \in 1..Len(q) : q[i] = e /\ q[j] = e => i = j

\* No f stands behind an e.
NoneBehind(q, e, f) ==
  \A i, j \in 1..Len(q) : q[i] = e /\ i < j => q[j] # f

\* An event of F stands behind every e.
Followed(q, e, F) ==
  \A i \in 1..Len(q) : q[i] = e =>
    \E j \in 1..Len(q) : i < j /\ q[j] \in F

\* On its way to the SFU, or back to the manager.
Outbound(e) == Has(event_out, e) \/ Has(toSfu, e)
Inbound(e) == Has(fromSfu, e) \/ Has(event_in, e)

\* Until the room is closed the manager runs.
LiveInv ==
  /\ forwarding
  /\ manager \in {"running", "republishing"}
  /\ ~Has(event_in, Global("Shutdown"))

\* A publish_track that the manager has not accepted has left no trace.
Unaccepted(c) ==
  /\ forwarder[c] = "none" =>
       /\ descriptors[c] = "none" /\ task[c] = "none" /\ result[c] = "none"
       /\ user[c] \notin {"holding", "released"}
       /\ c \notin sfu
       /\ \A t \in OutputTypes : ~Outbound(Event(t, c))
       /\ \A t \in InputTypes \ {"PublishRequest"} : ~Inbound(Event(t, c))
  /\ user[c] = "idle" \/ Has(event_in, Event("PublishRequest", c)) =>
       forwarder[c] = "none"
  /\ Has(event_in, Event("PublishRequest", c)) =>
       user[c] \in {"asking", "timedout"}
  /\ Once(event_in, Event("PublishRequest", c))

\* The stages of a publication.
Stage(c) ==
  /\ forwarder[c] = "waiting" => user[c] \in {"asking", "timedout"}
  /\ forwarder[c] = "waiting" /\ result[c] = "track" => task[c] # "none"
  /\ user[c] = "holding" => task[c] # "none"
  /\ descriptors[c] = "pending" =>
       /\ task[c] = "none"
       /\ forwarder[c] = "waiting" => result[c] = "none"
       /\ forwarder[c] = "done" => user[c] = "timedout"
  /\ descriptors[c] = "active" =>
       /\ task[c] = "running"
          \/ (task[c] # "none" /\ Has(event_in, Event("UnpublishRequest", c)))
       /\ user[c] \in {"asking", "holding"} =>
            task[c] = "running" /\ state[c] \in {"Published", "Republishing"}

\* The SFU is not asked to publish a track behind a request to unpublish it.
Order(c) ==
  /\ Outbound(Event("SfuUnpublishRequest", c)) => descriptors[c] = "none"
  /\ Has(toSfu, Event("SfuUnpublishRequest", c)) =>
       ~Has(event_out, Event("SfuPublishRequest", c))
  /\ \A q \in {event_out, toSfu} :
       NoneBehind(q, Event("SfuUnpublishRequest", c),
                  Event("SfuPublishRequest", c))

\* A track that the SFU publishes, or will, has somebody to look after it.
Looked(c) ==
  /\ c \in sfu \/ Outbound(Event("SfuPublishRequest", c)) =>
       \/ task[c] \in {"none", "running"}
       \/ Has(event_in, Event("UnpublishRequest", c))
       \/ Outbound(Event("SfuUnpublishRequest", c))
  /\ c \in sfu /\ task[c] = "none" =>
       \/ Outbound(Event("SfuUnpublishRequest", c))
       \/ Inbound(Event("SfuPublished", c))
       \/ user[c] = "timedout"
       \/ Event("SfuPublished", c) \in lost

\* What tells the manager that the SFU has forgotten a track.
Forgotten(c) == {Event("SfuUnpublishResponse", c), Global("RepublishTracks")}

\* A published track that its caller keeps, or is about to get.
Kept(c) ==
  /\ descriptors[c] = "active"
  /\ state[c] = "Published"
  /\ user[c] \in {"asking", "holding"}

\* Without a lost event, an answer that the SFU has published a track is true,
\* or what tells that it is true no longer is behind it.
Served(c) ==
  lost = {} =>
    /\ \/ c \in sfu \/ link = "down"
       \/ Followed(fromSfu, Event("SfuPublished", c), Forgotten(c))
    /\ \/ c \in sfu \/ link = "down"
       \/ Has(fromSfu, Event("SfuUnpublishResponse", c))
       \/ Followed(event_in, Event("SfuPublished", c), Forgotten(c))
    /\ Kept(c) =>
         \/ c \in sfu \/ link = "down"
         \/ manager = "republishing" /\ c \in todo
         \/ Inbound(Event("SfuUnpublishResponse", c))
         \/ Has(event_in, Global("RepublishTracks"))

TrackInv(c) == Unaccepted(c) /\ Stage(c) /\ Order(c) /\ Looked(c) /\ Served(c)

TracksInv == link # "closed" => LiveInv /\ \A c \in Tracks : TrackInv(c)

\* Queue p is q with x put behind it.
Added(q, p, x) ==
  /\ \A e : Has(p, e) <=> Has(q, e) \/ e = x
  /\ \A e : Once(q, e) /\ (e = x => ~Has(q, e)) => Once(p, e)
  /\ \A e, f : NoneBehind(q, e, f) /\ (f = x => ~Has(q, e)) =>
       NoneBehind(p, e, f)
  /\ \A e, F : e # x /\ (x \in F \/ Followed(q, e, F)) => Followed(p, e, F)

\* Queue p is q without x, its head.
Taken(q, p, x) ==
  /\ \A e : Has(q, e) <=> Has(p, e) \/ e = x
  /\ \A e : Once(q, e) => Once(p, e) /\ (e = x => ~Has(p, e))
  /\ \A e, f : NoneBehind(q, e, f) =>
       NoneBehind(p, e, f) /\ (e = x => ~Has(p, f))
  /\ \A e, F : Followed(q, e, F) =>
       Followed(p, e, F) /\ (e = x => \E f \in F : Has(p, f))

LEMMA AppendAdded ==
  ASSUME NEW S, NEW q \in Seq(S), NEW x \in S
  PROVE  Added(q, Append(q, x), x)
<1> DEFINE p == Append(q, x)
<1>1. /\ Len(p) = Len(q) + 1 /\ Len(q) \in Nat /\ p[Len(q) + 1] = x
      /\ \A i \in 1..Len(q) : p[i] = q[i]
  OBVIOUS
<1> HIDE DEF p
<1>2. \A e : Has(p, e) <=> Has(q, e) \/ e = x
  BY <1>1 DEF Has
<1>3. ASSUME NEW e, Once(q, e), e = x => ~Has(q, e) PROVE Once(p, e)
  <2> SUFFICES ASSUME NEW i \in 1..Len(p), NEW j \in 1..Len(p),
                      p[i] = e, p[j] = e
               PROVE  i = j
    BY DEF Once
  <2>1. CASE i \in 1..Len(q) /\ j \in 1..Len(q)
    BY <1>1, <1>3, <2>1 DEF Once
  <2>2. CASE i = Len(q) + 1 /\ j = Len(q) + 1
    BY <2>2
  <2>3. CASE i \in 1..Len(q) /\ j = Len(q) + 1
    BY <1>1, <1>3, <2>3 DEF Has
  <2>4. CASE j \in 1..Len(q) /\ i = Len(q) + 1
    BY <1>1, <1>3, <2>4 DEF Has
  <2> QED
    BY <1>1, <2>1, <2>2, <2>3, <2>4
<1>4. ASSUME NEW e, NEW f, NoneBehind(q, e, f), f = x => ~Has(q, e)
      PROVE  NoneBehind(p, e, f)
  <2> SUFFICES ASSUME NEW i \in 1..Len(p), NEW j \in 1..Len(p),
                      p[i] = e, i < j, p[j] = f
               PROVE  FALSE
    BY DEF NoneBehind
  <2>1. i \in 1..Len(q)
    BY <1>1
  <2>2. CASE j \in 1..Len(q)
    BY <1>1, <1>4, <2>1, <2>2 DEF NoneBehind
  <2>3. CASE j = Len(q) + 1
    BY <1>1, <1>4, <2>1, <2>3 DEF Has
  <2> QED
    BY <1>1, <2>2, <2>3
<1>5. ASSUME NEW e, NEW F, e # x, x \in F \/ Followed(q, e, F)
      PROVE  Followed(p, e, F)
  <2> SUFFICES ASSUME NEW i \in 1..Len(p), p[i] = e
               PROVE  \E j \in 1..Len(p) : i < j /\ p[j] \in F
    BY DEF Followed
  <2>1. i \in 1..Len(q) /\ q[i] = e
    BY <1>1, <1>5
  <2>2. CASE x \in F
    BY <1>1, <2>1, <2>2
  <2>3. CASE Followed(q, e, F)
    <3>1. PICK j \in 1..Len(q) : i < j /\ q[j] \in F
      BY <2>1, <2>3 DEF Followed
    <3> QED
      BY <1>1, <3>1
  <2> QED
    BY <1>5, <2>2, <2>3
<1> QED
  BY <1>2, <1>3, <1>4, <1>5 DEF Added, p

LEMMA TailTaken ==
  ASSUME NEW S, NEW q \in Seq(S), q # <<>>
  PROVE  Taken(q, Tail(q), Head(q))
<1> DEFINE p == Tail(q)
           x == Head(q)
<1>1. /\ Len(q) \in Nat \ {0} /\ Len(p) = Len(q) - 1
      /\ q[1] = x
      /\ \A i \in 1..Len(p) : p[i] = q[i + 1]
  OBVIOUS
<1>2. \A i \in 1..Len(q) : i # 1 => i - 1 \in 1..Len(p) /\ q[i] = p[i - 1]
  BY <1>1
<1> HIDE DEF p, x
<1>3. ASSUME NEW e PROVE Has(q, e) <=> Has(p, e) \/ e = x
  <2>1. ASSUME NEW i \in 1..Len(q), q[i] = e PROVE Has(p, e) \/ e = x
    BY <1>1, <1>2, <2>1 DEF Has
  <2>2. ASSUME NEW i \in 1..Len(p), p[i] = e PROVE Has(q, e)
    <3>1. i + 1 \in 1..Len(q) /\ q[i + 1] = e
      BY <1>1, <2>2
    <3> QED
      BY <3>1 DEF Has
  <2>3. e = x => Has(q, e)
    BY <1>1 DEF Has
  <2> QED
    BY <2>1, <2>2, <2>3 DEF Has
<1>4. ASSUME NEW e, Once(q, e)
      PROVE  Once(p, e) /\ (e = x => ~Has(p, e))
  <2>1. ASSUME NEW i \in 1..Len(p), NEW j \in 1..Len(p), p[i] = e, p[j] = e
        PROVE  i = j
    <3>1. i + 1 \in 1..Len(q) /\ j + 1 \in 1..Len(q)
      BY <1>1
    <3>2. q[i + 1] = e /\ q[j + 1] = e
      BY <1>1, <2>1
    <3>3. i + 1 = j + 1
      BY <1>4, <3>1, <3>2 DEF Once
    <3> QED
      BY <3>3
  <2>2. ASSUME e = x, NEW i \in 1..Len(p), p[i] = e PROVE FALSE
    <3>1. i + 1 \in 1..Len(q) /\ 1 \in 1..Len(q)
      BY <1>1
    <3>2. q[i + 1] = e /\ q[1] = e
      BY <1>1, <2>2
    <3>3. i + 1 = 1
      BY <1>4, <3>1, <3>2 DEF Once
    <3> QED
      BY <3>3
  <2> QED
    BY <2>1, <2>2 DEF Once, Has
<1>5. ASSUME NEW e, NEW f, NoneBehind(q, e, f)
      PROVE  NoneBehind(p, e, f) /\ (e = x => ~Has(p, f))
  <2>1. ASSUME NEW i \in 1..Len(p), NEW j \in 1..Len(p), p[i] = e, i < j
        PROVE  p[j] # f
    <3>1. i + 1 \in 1..Len(q) /\ j + 1 \in 1..Len(q) /\ i + 1 < j + 1
      BY <1>1, <2>1
    <3>2. q[i + 1] = e /\ q[j + 1] = p[j]
      BY <1>1, <2>1
    <3> QED
      BY <1>5, <3>1, <3>2 DEF NoneBehind
  <2>2. ASSUME e = x, NEW i \in 1..Len(p) PROVE p[i] # f
    <3>1. i + 1 \in 1..Len(q) /\ 1 \in 1..Len(q) /\ 1 < i + 1
      BY <1>1
    <3>2. q[1] = e /\ q[i + 1] = p[i]
      BY <1>1, <2>2
    <3> QED
      BY <1>5, <3>1, <3>2 DEF NoneBehind
  <2> QED
    BY <2>1, <2>2 DEF NoneBehind, Has
<1>6. ASSUME NEW e, NEW F, Followed(q, e, F)
      PROVE  Followed(p, e, F) /\ (e = x => \E f \in F : Has(p, f))
  <2>1. ASSUME NEW i \in 1..Len(p), p[i] = e
        PROVE  \E j \in 1..Len(p) : i < j /\ p[j] \in F
    <3>1. i + 1 \in 1..Len(q) /\ q[i + 1] = e
      BY <1>1, <2>1
    <3>2. PICK j \in 1..Len(q) : i + 1 < j /\ q[j] \in F
      BY <1>6, <3>1 DEF Followed
    <3>3. j - 1 \in 1..Len(p) /\ i < j - 1 /\ p[j - 1] = q[j]
      BY <1>1, <1>2, <3>2
    <3> QED
      BY <3>2, <3>3
  <2>2. ASSUME e = x PROVE \E f \in F : Has(p, f)
    <3>1. 1 \in 1..Len(q) /\ q[1] = e
      BY <1>1, <2>2
    <3>2. PICK j \in 1..Len(q) : 1 < j /\ q[j] \in F
      BY <1>6, <3>1 DEF Followed
    <3>3. j - 1 \in 1..Len(p) /\ p[j - 1] = q[j]
      BY <1>1, <1>2, <3>2
    <3> QED
      BY <3>2, <3>3 DEF Has
  <2> QED
    BY <2>1, <2>2 DEF Followed
<1> QED
  BY <1>3, <1>4, <1>5, <1>6 DEF Taken, p, x

\* What holds of an empty queue, and of one without the event.
LEMMA EmptyHasNone ==
  /\ \A e : ~Has(<<>>, e)
  /\ \A e : Once(<<>>, e)
  /\ \A e, f : NoneBehind(<<>>, e, f)
  /\ \A e, F : Followed(<<>>, e, F)
  BY DEF Has, Once, NoneBehind, Followed

LEMMA AbsentFollowed ==
  ASSUME NEW q, NEW e, NEW F, ~Has(q, e)
  PROVE  Followed(q, e, F)
  BY DEF Has, Followed

\* The first part of a queue has nothing else in it.
LEMMA PrefixHas ==
  ASSUME NEW S, NEW q \in Seq(S), NEW n \in 0..Len(q), NEW e,
         Has(SubSeq(q, 1, n), e)
  PROVE  Has(q, e)
<1>1. PICK i \in 1..Len(SubSeq(q, 1, n)) : SubSeq(q, 1, n)[i] = e
  BY DEF Has
<1>2. i \in 1..Len(q) /\ q[i] = e
  BY <1>1
<1> QED
  BY <1>2 DEF Has

\* Events are equal when they say the same of the same track.
LEMMA EventEq ==
  /\ \A t, u, c, d : Event(t, c) = Event(u, d) <=> t = u /\ c = d
  /\ \A t, c : Event(t, c).type = t /\ Event(t, c).track = c
  BY DEF Event

LEMMA ForgottenIs ==
  \A c, e : e \in Forgotten(c) <=>
    \/ e = Event("SfuUnpublishResponse", c)
    \/ e = Event("RepublishTracks", NoTrack)
  BY DEF Forgotten, Global

-----------------------------------------------------------------------------
\* The types of the events and of the channels.
LEMMA EventTypes ==
  /\ \A c \in Tracks :
       /\ \A t \in InputTypes : Event(t, c) \in InputEvents
       /\ \A t \in OutputTypes : Event(t, c) \in OutputEvents
       /\ Event("SfuPublished", c) \in AnswerEvents
       /\ Event("SfuRefused", c) \in AnswerEvents
       /\ Event("SfuUnpublishResponse", c) \in AnswerEvents
  /\ Global("RepublishTracks") \in InputEvents
  /\ Global("Shutdown") \in InputEvents
<1>1. \A c \in Tracks :
        /\ \A t \in InputTypes :
             Event(t, c) \in [type : InputTypes, track : Tracks]
        /\ \A t \in OutputTypes : Event(t, c) \in OutputEvents
  BY DEF Event, OutputEvents
<1>2. \A c \in Tracks :
        /\ Event("SfuPublished", c) \in AnswerEvents
        /\ Event("SfuRefused", c) \in AnswerEvents
        /\ Event("SfuUnpublishResponse", c) \in AnswerEvents
  BY DEF Event, AnswerEvents
<1> QED
  BY <1>1, <1>2, Zenon DEF InputEvents

LEMMA AnswersAndRequests ==
  /\ AnswerEvents \subseteq InputEvents
  /\ \A e \in AnswerEvents :
       /\ e = Event(e.type, e.track)
       /\ e.track \in Tracks
       /\ e.type \in {"SfuPublished", "SfuRefused", "SfuUnpublishResponse"}
  /\ \A e \in RequestEvents :
       /\ e = Event(e.type, e.track)
       /\ e.track \in Tracks
       /\ e.type \in {"SfuPublishRequest", "SfuUnpublishRequest"}
  /\ \A e \in OutputEvents :
       e.type # "PacketsAvailable" => e \in RequestEvents
<1>1. AnswerEvents \subseteq [type : InputTypes, track : Tracks]
  BY DEF AnswerEvents, InputTypes
<1>2. \A e \in AnswerEvents :
       /\ e = Event(e.type, e.track)
       /\ e.track \in Tracks
       /\ e.type \in {"SfuPublished", "SfuRefused", "SfuUnpublishResponse"}
  BY DEF AnswerEvents, Event
<1>3. \A e \in RequestEvents :
       /\ e = Event(e.type, e.track)
       /\ e.track \in Tracks
       /\ e.type \in {"SfuPublishRequest", "SfuUnpublishRequest"}
  BY DEF RequestEvents, Event
<1>4. \A e \in OutputEvents :
       e.type # "PacketsAvailable" => e \in RequestEvents
  BY DEF RequestEvents, OutputEvents, OutputTypes
<1> QED
  BY <1>1, <1>2, <1>3, <1>4, Zenon DEF InputEvents

LEMMA QueueTypes ==
  ASSUME NEW S, NEW q \in Seq(S)
  PROVE  /\ \A x \in S : Append(q, x) \in Seq(S)
         /\ q # <<>> => Tail(q) \in Seq(S) /\ Head(q) \in S
         /\ \A n \in 0..Len(q) : SubSeq(q, 1, n) \in Seq(S)
         /\ <<>> \in Seq(S)
  OBVIOUS

LEMMA SeqWider ==
  ASSUME NEW S, NEW T, S \subseteq T, NEW q \in Seq(S)
  PROVE  q \in Seq(T)
  OBVIOUS

\* What the ways to write a channel or a state do.
LEMMA TrySendTypes ==
  ASSUME ChannelInv, NEW e \in InputEvents, TrySend(e)
  PROVE  event_in' \in Seq(InputEvents) /\ lost' \subseteq InputEvents
  <1>1. event_in \in Seq(InputEvents) /\ lost \subseteq InputEvents
    BY DEF ChannelInv, QueuesOK
  <1>2. Append(event_in, e) \in Seq(InputEvents)
    BY <1>1, QueueTypes
  <1> QED
    BY <1>1, <1>2, Zenon DEF TrySend

LEMMA EmitTypes ==
  ASSUME ChannelInv, NEW e \in OutputEvents, Emit(e)
  PROVE  event_out' \in Seq(OutputEvents)
  <1>1. event_out \in Seq(OutputEvents)
    BY DEF ChannelInv, QueuesOK
  <1>2. Append(event_out, e) \in Seq(OutputEvents)
    BY <1>1, QueueTypes
  <1> QED
    BY <1>1, <1>2, Zenon DEF Emit

LEMMA SetStateTypes ==
  ASSUME ChannelInv, NEW c \in Tracks, NEW s \in PublishStates, SetState(c, s)
  PROVE  state' \in [Tracks -> PublishStates]
  BY DEF ChannelInv, TracksOK, SetState

LEMMA TakeTypes ==
  ASSUME ChannelInv, NEW t, NEW c, Take(t, c)
  PROVE  event_in' \in Seq(InputEvents)
  BY QueueTypes DEF ChannelInv, QueuesOK, Take

LEMMA ChannelsTyped == ChannelInv => LocalTracksTypeOK
<1>1. fromSfu \in Seq(AnswerEvents) => fromSfu \in Seq(InputEvents)
  BY AnswersAndRequests, SeqWider
<1>2. toSfu \in Seq(RequestEvents) => toSfu \in Seq(OutputEvents)
  <2>1. RequestEvents \subseteq OutputEvents
    BY DEF RequestEvents, OutputEvents, OutputTypes
  <2> QED
    BY <2>1, SeqWider
<1> QED
  BY <1>1, <1>2, Zenon DEF ChannelInv, LocalTracksTypeOK, QueuesOK, ManagerOK,
     TracksOK, UsersOK, NetOK

\* Every step keeps the types.
LEMMA ChannelStep ==
  ASSUME ChannelInv, [LocalTracksNext]_localTracksVars
  PROVE  ChannelInv'
<1>0. /\ QueuesOK /\ ManagerOK /\ TracksOK /\ UsersOK /\ NetOK
      /\ NoTrack \notin Tracks
  BY LocalTracksAssumption DEF ChannelInv
<1> USE DEF mgrVars, trackVars, userVars, netVars, countVars
<1>1. ASSUME NEW c \in Tracks, PublishTrack(c) PROVE ChannelInv'
  <2>1. Event("PublishRequest", c) \in InputEvents
    BY EventTypes DEF InputTypes
  <2>2. QueuesOK'
    <3>1. Append(event_in, Event("PublishRequest", c)) \in Seq(InputEvents)
      BY <1>0, <2>1, QueueTypes DEF QueuesOK
    <3> QED
      BY <1>0, <1>1, <3>1 DEF PublishTrack, QueuesOK
  <2>3. UsersOK'
    BY <1>0, <1>1 DEF PublishTrack, UsersOK
  <2>4. ManagerOK' /\ TracksOK' /\ NetOK'
    BY <1>0, <1>1 DEF PublishTrack, ManagerOK, TracksOK, NetOK
  <2> QED
    BY <2>2, <2>3, <2>4 DEF ChannelInv
<1>2. ASSUME NEW c \in Tracks, PublishTimeout(c) PROVE ChannelInv'
  <2>1. UsersOK'
    BY <1>0, <1>2 DEF PublishTimeout, UsersOK
  <2>2. QueuesOK' /\ ManagerOK' /\ TracksOK' /\ NetOK'
    BY <1>0, <1>2 DEF PublishTimeout, QueuesOK, ManagerOK, TracksOK, NetOK
  <2> QED
    BY <2>1, <2>2 DEF ChannelInv
<1>3. ASSUME NEW c \in Tracks, ForwardResult(c) PROVE ChannelInv'
  <2>1. UsersOK'
    BY <1>0, <1>3 DEF ForwardResult, UsersOK
  <2>2. TracksOK'
    BY <1>0, <1>3 DEF ForwardResult, TracksOK, SetState, PublishStates
  <2>3. QueuesOK' /\ ManagerOK' /\ NetOK'
    BY <1>0, <1>3 DEF ForwardResult, QueuesOK, ManagerOK, NetOK
  <2> QED
    BY <2>1, <2>2, <2>3 DEF ChannelInv
<1>4. ASSUME NEW c \in Tracks, ForwardCancel(c) PROVE ChannelInv'
  <2>1. Event("PublishCancelled", c) \in InputEvents
    BY EventTypes DEF InputTypes
  <2>2. QueuesOK'
    BY <1>0, <1>4, <2>1, TrySendTypes DEF ForwardCancel, QueuesOK
  <2>3. UsersOK'
    BY <1>0, <1>4 DEF ForwardCancel, UsersOK
  <2>4. ManagerOK' /\ TracksOK' /\ NetOK'
    BY <1>0, <1>4 DEF ForwardCancel, ManagerOK, TracksOK, NetOK
  <2> QED
    BY <2>2, <2>3, <2>4 DEF ChannelInv
<1>5. ASSUME NEW c \in Tracks, Unpublish(c) PROVE ChannelInv'
  <2>1. UsersOK'
    BY <1>0, <1>5 DEF Unpublish, UsersOK
  <2>2. TracksOK'
    BY <1>0, <1>5 DEF Unpublish, TracksOK, SetState, PublishStates
  <2>3. QueuesOK' /\ ManagerOK' /\ NetOK'
    BY <1>0, <1>5 DEF Unpublish, QueuesOK, ManagerOK, NetOK
  <2> QED
    BY <2>1, <2>2, <2>3 DEF ChannelInv
<1>6. ASSUME NEW c \in Tracks, TryPush(c) PROVE ChannelInv'
  <2>1. TracksOK'
    BY <1>0, <1>6 DEF TryPush, TracksOK
  <2>2. QueuesOK' /\ ManagerOK' /\ UsersOK' /\ NetOK'
    BY <1>0, <1>6 DEF TryPush, QueuesOK, ManagerOK, UsersOK, NetOK
  <2> QED
    BY <2>1, <2>2 DEF ChannelInv
<1>7. ASSUME NEW c \in Tracks, TaskObserve(c) PROVE ChannelInv'
  <2>1. Event("UnpublishRequest", c) \in InputEvents
    BY EventTypes DEF InputTypes
  <2>2. QueuesOK'
    <3>1. Append(event_in, Event("UnpublishRequest", c)) \in Seq(InputEvents)
      BY <1>0, <2>1, QueueTypes DEF QueuesOK
    <3> QED
      BY <1>0, <1>7, <3>1 DEF TaskObserve, QueuesOK
  <2>3. TracksOK'
    BY <1>0, <1>7 DEF TaskObserve, TracksOK
  <2>4. ManagerOK' /\ UsersOK' /\ NetOK'
    BY <1>0, <1>7 DEF TaskObserve, ManagerOK, UsersOK, NetOK
  <2> QED
    BY <2>2, <2>3, <2>4 DEF ChannelInv
<1>8. ASSUME NEW c \in Tracks, TaskFrame(c) PROVE ChannelInv'
  <2>1. Event("PacketsAvailable", c) \in OutputEvents
    BY EventTypes DEF OutputTypes
  <2>2. QueuesOK'
    BY <1>0, <1>8, <2>1, EmitTypes DEF TaskFrame, QueuesOK
  <2>3. TracksOK'
    BY <1>0, <1>8 DEF TaskFrame, TracksOK
  <2>4. ManagerOK' /\ UsersOK' /\ NetOK'
    BY <1>0, <1>8 DEF TaskFrame, ManagerOK, UsersOK, NetOK
  <2> QED
    BY <2>2, <2>3, <2>4 DEF ChannelInv
<1>9. ASSUME NEW c \in Tracks, TaskEnd(c) PROVE ChannelInv'
  <2>1. TracksOK'
    BY <1>0, <1>9 DEF TaskEnd, TracksOK
  <2>2. QueuesOK' /\ ManagerOK' /\ UsersOK' /\ NetOK'
    BY <1>0, <1>9 DEF TaskEnd, QueuesOK, ManagerOK, UsersOK, NetOK
  <2> QED
    BY <2>1, <2>2 DEF ChannelInv
<1>10. ASSUME NEW c \in Tracks, OnPublishRequest(c) PROVE ChannelInv'
  <2>1. Event("SfuPublishRequest", c) \in OutputEvents
    BY EventTypes DEF OutputTypes
  <2>2. QueuesOK'
    BY <1>0, <1>10, <2>1, EmitTypes, TakeTypes DEF OnPublishRequest, QueuesOK
  <2>3. UsersOK'
    BY <1>0, <1>10 DEF OnPublishRequest, UsersOK
  <2>4. ManagerOK'
    BY <1>0, <1>10 DEF OnPublishRequest, ManagerOK
  <2>5. TracksOK' /\ NetOK'
    BY <1>0, <1>10 DEF OnPublishRequest, TracksOK, NetOK
  <2> QED
    BY <2>2, <2>3, <2>4, <2>5 DEF ChannelInv
<1>11. ASSUME NEW c \in Tracks, OnPublishCancelled(c) PROVE ChannelInv'
  <2>1. QueuesOK'
    BY <1>0, <1>11, TakeTypes DEF OnPublishCancelled, QueuesOK
  <2>2. ManagerOK'
    BY <1>0, <1>11 DEF OnPublishCancelled, ManagerOK
  <2>3. TracksOK' /\ UsersOK' /\ NetOK'
    BY <1>0, <1>11 DEF OnPublishCancelled, TracksOK, UsersOK, NetOK
  <2> QED
    BY <2>1, <2>2, <2>3 DEF ChannelInv
<1>12. ASSUME NEW c \in Tracks,
              OnUnpublishRequest(c) \/ OnSfuUnpublishResponse(c)
       PROVE  ChannelInv'
  <2>1. Event("SfuUnpublishRequest", c) \in OutputEvents
    BY EventTypes DEF OutputTypes
  <2>2. QueuesOK'
    BY <1>0, <1>12, <2>1, EmitTypes, TakeTypes
       DEF OnUnpublishRequest, OnSfuUnpublishResponse, QueuesOK
  <2>3. ManagerOK'
    BY <1>0, <1>12 DEF OnUnpublishRequest, OnSfuUnpublishResponse,
       RemoveDescriptor, ManagerOK
  <2>4. TracksOK'
    BY <1>0, <1>12 DEF OnUnpublishRequest, OnSfuUnpublishResponse,
       RemoveDescriptor, SetState, PublishStates, TracksOK
  <2>5. UsersOK' /\ NetOK'
    BY <1>0, <1>12 DEF OnUnpublishRequest, OnSfuUnpublishResponse, UsersOK,
       NetOK
  <2> QED
    BY <2>2, <2>3, <2>4, <2>5 DEF ChannelInv
<1>13. ASSUME NEW c \in Tracks, NEW ok \in BOOLEAN, OnSfuPublishResponse(c, ok)
       PROVE  ChannelInv'
  <2>1. Event("SfuUnpublishRequest", c) \in OutputEvents
    BY EventTypes DEF OutputTypes
  <2>2. event_in' \in Seq(InputEvents)
    <3>1. PICK t : Take(t, c)
      BY <1>13, Zenon DEF OnSfuPublishResponse
    <3> QED
      BY <3>1, TakeTypes
  <2>3. /\ lost' = lost /\ toSfu' = toSfu /\ fromSfu' = fromSfu
        /\ \/ UnknownPublished(c)
           \/ PendingPublished(c, ok)
           \/ ActivePublished(c, ok)
        /\ UNCHANGED <<allocated, manager, todo, joining, forwarder, user,
                       netVars, countVars>>
    BY <1>13 DEF OnSfuPublishResponse
  <2>4. QueuesOK'
    <3>1. event_out' \in Seq(OutputEvents)
      BY <1>0, <2>1, <2>3, EmitTypes
         DEF UnknownPublished, PendingPublished, ActivePublished, QueuesOK
    <3> QED
      BY <1>0, <2>2, <2>3, <3>1 DEF QueuesOK
  <2>5. ManagerOK'
    BY <1>0, <2>3 DEF UnknownPublished, PendingPublished, ActivePublished,
       CreateLocalTrack, ManagerOK
  <2>6. TracksOK'
    BY <1>0, <2>3 DEF UnknownPublished, PendingPublished, ActivePublished,
       CreateLocalTrack, SetState, PublishStates, TracksOK
  <2>7. UsersOK'
    BY <1>0, <2>3 DEF UnknownPublished, PendingPublished, ActivePublished,
       UsersOK
  <2>8. NetOK'
    BY <1>0, <2>3 DEF NetOK
  <2> QED
    BY <2>4, <2>5, <2>6, <2>7, <2>8 DEF ChannelInv
<1>14. ASSUME OnRepublishTracks \/ OnShutdown PROVE ChannelInv'
  <2>1. QueuesOK'
    BY <1>0, <1>14, TakeTypes DEF OnRepublishTracks, OnShutdown, QueuesOK
  <2>2. ManagerOK'
    BY <1>0, <1>14 DEF OnRepublishTracks, OnShutdown, ManagerOK
  <2>3. TracksOK' /\ UsersOK' /\ NetOK'
    BY <1>0, <1>14
       DEF OnRepublishTracks, OnShutdown, TracksOK, UsersOK, NetOK
  <2> QED
    BY <2>1, <2>2, <2>3 DEF ChannelInv
<1>15. ASSUME NEW c \in Tracks, RepublishTrack(c) PROVE ChannelInv'
  <2>1. Event("SfuPublishRequest", c) \in OutputEvents
    BY EventTypes DEF OutputTypes
  <2>2. QueuesOK'
    BY <1>0, <1>15, <2>1, EmitTypes
       DEF RepublishTrack, RepublishPending, RepublishActive, QueuesOK
  <2>3. ManagerOK'
    BY <1>0, <1>15
       DEF RepublishTrack, RepublishPending, RepublishActive, ManagerOK
  <2>4. TracksOK'
    BY <1>0, <1>15 DEF RepublishTrack, RepublishPending, RepublishActive,
       SetState, PublishStates, TracksOK
  <2>5. UsersOK'
    BY <1>0, <1>15
       DEF RepublishTrack, RepublishPending, RepublishActive, UsersOK
  <2>6. NetOK'
    BY <1>0, <1>15 DEF RepublishTrack, NetOK
  <2> QED
    BY <2>2, <2>3, <2>4, <2>5, <2>6 DEF ChannelInv
<1>16. ASSUME RepublishDone \/ ShutdownJoined PROVE ChannelInv'
  <2>1. ManagerOK'
    BY <1>0, <1>16 DEF RepublishDone, ShutdownJoined, ManagerOK
  <2>2. QueuesOK' /\ TracksOK' /\ UsersOK' /\ NetOK'
    BY <1>0, <1>16
       DEF RepublishDone, ShutdownJoined, QueuesOK, TracksOK, UsersOK, NetOK
  <2> QED
    BY <2>1, <2>2 DEF ChannelInv
<1>17. ASSUME NEW c \in Tracks, ShutdownTrack(c) PROVE ChannelInv'
  <2>1. ManagerOK'
    BY <1>0, <1>17
       DEF ShutdownTrack, ShutdownPending, ShutdownActive, ManagerOK
  <2>2. TracksOK'
    BY <1>0, <1>17 DEF ShutdownTrack, ShutdownPending, ShutdownActive,
       SetState, PublishStates, TracksOK
  <2>3. UsersOK'
    BY <1>0, <1>17
       DEF ShutdownTrack, ShutdownPending, ShutdownActive, UsersOK
  <2>4. QueuesOK' /\ NetOK'
    BY <1>0, <1>17 DEF ShutdownTrack, QueuesOK, NetOK
  <2> QED
    BY <2>1, <2>2, <2>3, <2>4 DEF ChannelInv
<1>18. ASSUME ManagerEnd PROVE ChannelInv'
  <2>1. QueuesOK'
    BY <1>0, <1>18 DEF ManagerEnd, QueuesOK
  <2>2. ManagerOK'
    BY <1>0, <1>18 DEF ManagerEnd, ManagerOK
  <2>3. UsersOK'
    BY <1>0, <1>18 DEF ManagerEnd, UsersOK
  <2>4. TracksOK' /\ NetOK'
    BY <1>0, <1>18 DEF ManagerEnd, TracksOK, NetOK
  <2> QED
    BY <2>1, <2>2, <2>3, <2>4 DEF ChannelInv
<1>19. ASSUME ForwardOut PROVE ChannelInv'
  <2>1. QueuesOK'
    <3>1. /\ Tail(event_out) \in Seq(OutputEvents)
          /\ Head(event_out) \in OutputEvents
      BY <1>0, <1>19, QueueTypes DEF ForwardOut, QueuesOK
    <3>2. CASE Head(event_out).type # "PacketsAvailable"
      <4>1. Append(toSfu, Head(event_out)) \in Seq(RequestEvents)
        BY <1>0, <3>1, <3>2, AnswersAndRequests, QueueTypes DEF QueuesOK
      <4> QED
        BY <1>0, <1>19, <3>1, <4>1 DEF ForwardOut, QueuesOK
    <3>3. CASE Head(event_out).type = "PacketsAvailable"
      BY <1>0, <1>19, <3>1, <3>3 DEF ForwardOut, QueuesOK
    <3> QED
      BY <3>2, <3>3
  <2>2. ManagerOK' /\ TracksOK' /\ UsersOK' /\ NetOK'
    BY <1>0, <1>19 DEF ForwardOut, ManagerOK, TracksOK, UsersOK, NetOK
  <2> QED
    BY <2>1, <2>2 DEF ChannelInv
<1>20. ASSUME SfuServe PROVE ChannelInv'
  <2> DEFINE c == Head(toSfu).track
  <2>1. Tail(toSfu) \in Seq(RequestEvents) /\ c \in Tracks
    BY <1>0, <1>20, QueueTypes, AnswersAndRequests DEF SfuServe, QueuesOK
  <2>2. \A t \in {"SfuPublished", "SfuRefused", "SfuUnpublishResponse"} :
          Append(fromSfu, Event(t, c)) \in Seq(AnswerEvents)
    BY <1>0, <2>1, EventTypes, QueueTypes DEF QueuesOK
  <2>3. QueuesOK'
    <3> HIDE DEF c
    <3>1. \/ fromSfu' = fromSfu
          \/ \E t \in {"SfuPublished", "SfuRefused", "SfuUnpublishResponse"} :
               fromSfu' = Append(fromSfu, Event(t, c))
      BY <1>20 DEF SfuServe, c
    <3>2. fromSfu' \in Seq(AnswerEvents)
      BY <1>0, <2>2, <3>1 DEF QueuesOK
    <3> QED
      BY <1>0, <1>20, <2>1, <3>2 DEF SfuServe, QueuesOK
  <2>4. NetOK'
    BY <1>0, <1>20, <2>1 DEF SfuServe, NetOK
  <2>5. ManagerOK' /\ TracksOK' /\ UsersOK'
    BY <1>0, <1>20 DEF SfuServe, ManagerOK, TracksOK, UsersOK
  <2> QED
    BY <2>3, <2>4, <2>5 DEF ChannelInv
<1>21. ASSUME NEW c \in Tracks, SfuUnpublish(c) PROVE ChannelInv'
  <2>1. Append(fromSfu, Event("SfuUnpublishResponse", c)) \in Seq(AnswerEvents)
    BY <1>0, EventTypes, QueueTypes DEF QueuesOK
  <2>2. QueuesOK'
    BY <1>0, <1>21, <2>1 DEF SfuUnpublish, QueuesOK
  <2>3. ManagerOK' /\ TracksOK' /\ UsersOK' /\ NetOK'
    BY <1>0, <1>21 DEF SfuUnpublish, ManagerOK, TracksOK, UsersOK, NetOK
  <2> QED
    BY <2>2, <2>3 DEF ChannelInv
<1>22. ASSUME Deliver PROVE ChannelInv'
  <2>1. Tail(fromSfu) \in Seq(AnswerEvents) /\ Head(fromSfu) \in InputEvents
    BY <1>0, <1>22, QueueTypes, AnswersAndRequests DEF Deliver, QueuesOK
  <2>2. QueuesOK'
    BY <1>0, <1>22, <2>1, TrySendTypes DEF Deliver, QueuesOK
  <2>3. ManagerOK' /\ TracksOK' /\ UsersOK' /\ NetOK'
    BY <1>0, <1>22 DEF Deliver, ManagerOK, TracksOK, UsersOK, NetOK
  <2> QED
    BY <2>2, <2>3 DEF ChannelInv
<1>23. ASSUME LinkDown PROVE ChannelInv'
  <2>1. QueuesOK'
    BY <1>0, <1>23, QueueTypes DEF LinkDown, QueuesOK
  <2>2. ManagerOK' /\ TracksOK' /\ UsersOK' /\ NetOK'
    BY <1>0, <1>23 DEF LinkDown, ManagerOK, TracksOK, UsersOK, NetOK
  <2> QED
    BY <2>1, <2>2 DEF ChannelInv
<1>24. ASSUME Restarted PROVE ChannelInv'
  <2>1. QueuesOK'
    BY <1>0, <1>24, EventTypes, TrySendTypes DEF Restarted, QueuesOK
  <2>2. ManagerOK' /\ TracksOK' /\ UsersOK' /\ NetOK'
    BY <1>0, <1>24 DEF Restarted, ManagerOK, TracksOK, UsersOK, NetOK
  <2> QED
    BY <2>1, <2>2 DEF ChannelInv
<1>25. ASSUME CloseRoom PROVE ChannelInv'
  <2>1. QueuesOK'
    BY <1>0, <1>25 DEF CloseRoom, QueuesOK
  <2>2. ManagerOK' /\ TracksOK' /\ UsersOK' /\ NetOK'
    BY <1>0, <1>25 DEF CloseRoom, ManagerOK, TracksOK, UsersOK, NetOK
  <2> QED
    BY <2>1, <2>2 DEF ChannelInv
<1>26. ASSUME ForwardStop PROVE ChannelInv'
  <2>1. QueuesOK'
    BY <1>0, <1>26, EventTypes, TrySendTypes DEF ForwardStop, QueuesOK
  <2>2. ManagerOK' /\ TracksOK' /\ UsersOK' /\ NetOK'
    BY <1>0, <1>26 DEF ForwardStop, ManagerOK, TracksOK, UsersOK, NetOK
  <2> QED
    BY <2>1, <2>2 DEF ChannelInv
<1>27. ASSUME UNCHANGED localTracksVars PROVE ChannelInv'
  BY <1>0, <1>27 DEF localTracksVars, ChannelInv, QueuesOK, ManagerOK,
     TracksOK, UsersOK, NetOK
<1> QED
  BY <1>1, <1>2, <1>3, <1>4, <1>5, <1>6, <1>7, <1>8, <1>9, <1>10, <1>11,
     <1>12, <1>13, <1>14, <1>15, <1>16, <1>17, <1>18, <1>19, <1>20, <1>21,
     <1>22, <1>23, <1>24, <1>25, <1>26, <1>27, Zenon
     DEF LocalTracksNext, Progress, ManagerStep, RoomStep, TaskStep,
     ForwarderStep

-----------------------------------------------------------------------------
\* What the ways to read and write a channel do to it.
LEMMA TrySendView ==
  ASSUME ChannelInv, NEW e \in InputEvents, TrySend(e)
  PROVE  \/ Added(event_in, event_in', e) /\ lost' = lost
         \/ event_in' = event_in /\ e \in lost' /\ lost \subseteq lost'
<1>1. Added(event_in, Append(event_in, e), e)
  BY AppendAdded DEF ChannelInv, QueuesOK
<1> QED
  BY <1>1 DEF TrySend

LEMMA EmitView ==
  ASSUME ChannelInv, forwarding, NEW e \in OutputEvents, Emit(e)
  PROVE  Added(event_out, event_out', e)
<1>1. Added(event_out, Append(event_out, e), e)
  BY AppendAdded DEF ChannelInv, QueuesOK
<1> QED
  BY <1>1 DEF Emit

LEMMA TakeView ==
  ASSUME ChannelInv, NEW t, NEW c, Take(t, c)
  PROVE  Taken(event_in, event_in', Event(t, c))
<1>1. Taken(event_in, Tail(event_in), Head(event_in))
  BY TailTaken DEF ChannelInv, QueuesOK, Take
<1> QED
  BY <1>1 DEF Take

\* What the invariant says of one track while the room is open.
LEMMA TrackFacts ==
  ASSUME ChannelInv, TracksInv, link # "closed", NEW c \in Tracks
  PROVE  /\ forwarding /\ manager \in {"running", "republishing"}
         /\ Unaccepted(c) /\ Stage(c) /\ Order(c) /\ Looked(c) /\ Served(c)
         /\ ~Has(event_in, Event("Shutdown", NoTrack))
         /\ c # NoTrack
  BY LocalTracksAssumption DEF TracksInv, TrackInv, LiveInv, Global

-----------------------------------------------------------------------------
\* One lemma per action: it keeps what is said of every track.

-----------------------------------------------------------------------------
\* One lemma per action: it keeps what is said of every track.
LEMMA PublishTrackStep ==
  ASSUME ChannelInv, TracksInv, link # "closed",
         NEW d \in Tracks, PublishTrack(d)
  PROVE  LiveInv' /\ \A c \in Tracks : TrackInv(c)'
<1> DEFINE x == Event("PublishRequest", d)
<1>1. x \in InputEvents
  BY EventTypes DEF InputTypes
<1>2. Added(event_in, Append(event_in, x), x)
  BY <1>1, AppendAdded DEF ChannelInv, QueuesOK
<1>3. /\ UNCHANGED <<event_out, descriptors, manager, todo, state, task, result,
                     forwarder, forwarding, link, toSfu, fromSfu, sfu, lost>>
      /\ user[d] = "idle"
      /\ \A c \in Tracks \ {d} : user'[c] = user[c]
      /\ \/ Added(event_in, event_in', x) /\ user'[d] = "asking"
         \/ event_in' = event_in /\ user'[d] = "failed"
  BY <1>2 DEF PublishTrack, mgrVars, trackVars, netVars, ChannelInv, UsersOK
<1>4. LiveInv'
  BY <1>3, EventEq DEF TracksInv, LiveInv, Global, Added
<1> SUFFICES ASSUME NEW c \in Tracks PROVE TrackInv(c)'
  BY <1>4
<1>5. Unaccepted(c) /\ Stage(c) /\ Order(c) /\ Looked(c) /\ Served(c)
  BY TrackFacts
<1>6. Unaccepted(c)'
  BY <1>3, <1>5, EventEq DEF Unaccepted, Outbound, Inbound, Added
<1>7. Stage(c)'
  BY <1>3, <1>5 DEF Stage, Unaccepted, Added
<1>8. Order(c)'
  BY <1>3, <1>5 DEF Order, Outbound
<1>9. Looked(c)'
  BY <1>3, <1>5 DEF Looked, Outbound, Inbound, Added
<1>10. Served(c)'
  BY <1>3, <1>5, EventEq DEF Served, Kept, Unaccepted, Inbound, Added
<1> QED
  BY <1>6, <1>7, <1>8, <1>9, <1>10 DEF TrackInv

LEMMA PublishTimeoutStep ==
  ASSUME ChannelInv, TracksInv, link # "closed",
         NEW d \in Tracks, PublishTimeout(d)
  PROVE  LiveInv' /\ \A c \in Tracks : TrackInv(c)'
<1>1. /\ UNCHANGED <<event_in, event_out, descriptors, manager, todo, state,
                     task, result, forwarder, forwarding, link, toSfu,
                     fromSfu, sfu, lost>>
      /\ user[d] = "asking" /\ user'[d] = "timedout"
      /\ \A c \in Tracks \ {d} : user'[c] = user[c]
  BY DEF PublishTimeout, mgrVars, trackVars, netVars, ChannelInv, UsersOK
<1>2. LiveInv'
  BY <1>1 DEF TracksInv, LiveInv
<1> SUFFICES ASSUME NEW c \in Tracks PROVE TrackInv(c)'
  BY <1>2
<1>3. Unaccepted(c) /\ Stage(c) /\ Order(c) /\ Looked(c) /\ Served(c)
  BY TrackFacts
<1>4. Unaccepted(c)'
  BY <1>1, <1>3 DEF Unaccepted, Outbound, Inbound
<1>5. Stage(c)'
  BY <1>1, <1>3 DEF Stage
<1>6. Order(c)'
  BY <1>1, <1>3 DEF Order, Outbound
<1>7. Looked(c)'
  BY <1>1, <1>3 DEF Looked, Outbound, Inbound
<1>8. Served(c)'
  BY <1>1, <1>3 DEF Served, Kept, Inbound
<1> QED
  BY <1>4, <1>5, <1>6, <1>7, <1>8 DEF TrackInv

LEMMA ForwardResultStep ==
  ASSUME ChannelInv, TracksInv, link # "closed",
         NEW d \in Tracks, ForwardResult(d)
  PROVE  LiveInv' /\ \A c \in Tracks : TrackInv(c)'
<1>1. /\ UNCHANGED <<event_in, event_out, descriptors, manager, todo, task,
                     result, forwarding, link, toSfu, fromSfu, sfu, lost>>
      /\ \A c \in Tracks \ {d} :
           user'[c] = user[c] /\ forwarder'[c] = forwarder[c]
           /\ state'[c] = state[c]
      /\ forwarder[d] = "waiting" /\ result[d] # "none"
      /\ forwarder'[d] = "done"
      /\ \/ /\ user[d] = "asking" /\ state'[d] = state[d]
            /\ \/ result[d] = "track" /\ user'[d] = "holding"
               \/ user'[d] = "failed"
         \/ user[d] # "asking" /\ user'[d] = user[d]
  BY DEF ForwardResult, SetState, mgrVars, netVars, ChannelInv, TracksOK,
     UsersOK
<1>2. LiveInv'
  BY <1>1 DEF TracksInv, LiveInv
<1> SUFFICES ASSUME NEW c \in Tracks PROVE TrackInv(c)'
  BY <1>2
<1>3. Unaccepted(c) /\ Stage(c) /\ Order(c) /\ Looked(c) /\ Served(c)
  BY TrackFacts
<1>4. Unaccepted(c)'
  BY <1>1, <1>3 DEF Unaccepted, Outbound, Inbound
<1>5. Stage(c)'
  BY <1>1, <1>3 DEF Stage
<1>6. Order(c)'
  BY <1>1, <1>3 DEF Order, Outbound
<1>7. Looked(c)'
  BY <1>1, <1>3 DEF Looked, Outbound, Inbound
<1>8. Served(c)'
  BY <1>1, <1>3 DEF Served, Kept, Stage, Inbound
<1> QED
  BY <1>4, <1>5, <1>6, <1>7, <1>8 DEF TrackInv

LEMMA ForwardCancelStep ==
  ASSUME ChannelInv, TracksInv, link # "closed",
         NEW d \in Tracks, ForwardCancel(d)
  PROVE  LiveInv' /\ \A c \in Tracks : TrackInv(c)'
<1> DEFINE x == Event("PublishCancelled", d)
<1>1. x \in InputEvents
  BY EventTypes DEF InputTypes
<1>2. \/ Added(event_in, event_in', x) /\ lost' = lost
      \/ event_in' = event_in /\ x \in lost' /\ lost \subseteq lost'
  BY <1>1, TrySendView DEF ForwardCancel
<1>3. /\ UNCHANGED <<event_out, descriptors, manager, todo, state, task, result,
                     user, forwarding, link, toSfu, fromSfu, sfu>>
      /\ \A c \in Tracks \ {d} : forwarder'[c] = forwarder[c]
      /\ forwarder[d] = "waiting" /\ user[d] # "asking"
      /\ forwarder'[d] = "done"
      /\ \/ Added(event_in, event_in', x) /\ lost' = lost
         \/ event_in' = event_in /\ x \in lost' /\ lost \subseteq lost'
  BY <1>2 DEF ForwardCancel, mgrVars, trackVars, netVars, ChannelInv, UsersOK
<1>4. LiveInv'
  BY <1>3, EventEq DEF TracksInv, LiveInv, Global, Added
<1> SUFFICES ASSUME NEW c \in Tracks PROVE TrackInv(c)'
  BY <1>4
<1>5. Unaccepted(c) /\ Stage(c) /\ Order(c) /\ Looked(c) /\ Served(c)
  BY TrackFacts
<1>6. Unaccepted(c)'
  BY <1>3, <1>5, EventEq DEF Unaccepted, Outbound, Inbound, Added
<1>7. Stage(c)'
  BY <1>3, <1>5 DEF Stage, Added
<1>8. Order(c)'
  BY <1>3, <1>5 DEF Order, Outbound
<1>9. Looked(c)'
  BY <1>3, <1>5 DEF Looked, Outbound, Inbound, Added
<1>10. Served(c)'
  BY <1>3, <1>5, EventEq DEF Served, Kept, Inbound, Added
<1> QED
  BY <1>6, <1>7, <1>8, <1>9, <1>10 DEF TrackInv

LEMMA UnpublishStep ==
  ASSUME ChannelInv, TracksInv, link # "closed", NEW d \in Tracks, Unpublish(d)
  PROVE  LiveInv' /\ \A c \in Tracks : TrackInv(c)'
<1>1. /\ UNCHANGED <<event_in, event_out, descriptors, manager, todo, task,
                     result, forwarder, forwarding, link, toSfu, fromSfu, sfu,
                     lost>>
      /\ \A c \in Tracks \ {d} :
           user'[c] = user[c] /\ state'[c] = state[c]
      /\ user[d] = "holding" /\ user'[d] = "released"
  BY DEF Unpublish, SetState, mgrVars, netVars, ChannelInv, UsersOK
<1>2. LiveInv'
  BY <1>1 DEF TracksInv, LiveInv
<1> SUFFICES ASSUME NEW c \in Tracks PROVE TrackInv(c)'
  BY <1>2
<1>3. Unaccepted(c) /\ Stage(c) /\ Order(c) /\ Looked(c) /\ Served(c)
  BY TrackFacts
<1>4. Unaccepted(c)'
  BY <1>1, <1>3 DEF Unaccepted, Outbound, Inbound
<1>5. Stage(c)'
  BY <1>1, <1>3 DEF Stage
<1>6. Order(c)'
  BY <1>1, <1>3 DEF Order, Outbound
<1>7. Looked(c)'
  BY <1>1, <1>3 DEF Looked, Outbound, Inbound
<1>8. Served(c)'
  BY <1>1, <1>3 DEF Served, Kept, Inbound
<1> QED
  BY <1>4, <1>5, <1>6, <1>7, <1>8 DEF TrackInv

LEMMA TaskObserveStep ==
  ASSUME ChannelInv, TracksInv, link # "closed",
         NEW d \in Tracks, TaskObserve(d)
  PROVE  LiveInv' /\ \A c \in Tracks : TrackInv(c)'
<1> DEFINE x == Event("UnpublishRequest", d)
<1>1. x \in InputEvents
  BY EventTypes DEF InputTypes
<1>2. Added(event_in, Append(event_in, x), x)
  BY <1>1, AppendAdded DEF ChannelInv, QueuesOK
<1>3. /\ UNCHANGED <<event_out, descriptors, manager, todo, state, result,
                     forwarder, user, forwarding, link, toSfu, fromSfu, sfu,
                     lost>>
      /\ \A c \in Tracks \ {d} : task'[c] = task[c]
      /\ task[d] = "running"
      /\ \/ /\ state[d] = "Unpublished" /\ task'[d] = "ending"
            /\ Added(event_in, event_in', x)
         \/ event_in' = event_in /\ task'[d] = task[d]
  BY <1>2, TrackFacts DEF TaskObserve, mgrVars, userVars, netVars, ChannelInv,
     TracksOK
<1>4. LiveInv'
  BY <1>3, EventEq DEF TracksInv, LiveInv, Global, Added
<1> SUFFICES ASSUME NEW c \in Tracks PROVE TrackInv(c)'
  BY <1>4
<1>5. Unaccepted(c) /\ Stage(c) /\ Order(c) /\ Looked(c) /\ Served(c)
  BY TrackFacts
<1>6. Unaccepted(c)'
  BY <1>3, <1>5, EventEq DEF Unaccepted, Outbound, Inbound, Added
<1>7. Stage(c)'
  BY <1>3, <1>5 DEF Stage, Added
<1>8. Order(c)'
  BY <1>3, <1>5 DEF Order, Outbound
<1>9. Looked(c)'
  BY <1>3, <1>5 DEF Looked, Outbound, Inbound, Added
<1>10. Served(c)'
  BY <1>3, <1>5, EventEq DEF Served, Kept, Inbound, Added
<1> QED
  BY <1>6, <1>7, <1>8, <1>9, <1>10 DEF TrackInv

LEMMA TaskFrameStep ==
  ASSUME ChannelInv, TracksInv, link # "closed", NEW d \in Tracks, TaskFrame(d)
  PROVE  LiveInv' /\ \A c \in Tracks : TrackInv(c)'
<1> DEFINE x == Event("PacketsAvailable", d)
<1>1. x \in OutputEvents
  BY EventTypes DEF OutputTypes
<1>2. Added(event_out, event_out', x) \/ event_out' = event_out
  BY <1>1, EmitView, TrackFacts DEF TaskFrame
<1>3. /\ UNCHANGED <<event_in, descriptors, manager, todo, state, task, result,
                     forwarder, user, forwarding, link, toSfu, fromSfu, sfu,
                     lost>>
      /\ task[d] = "running"
      /\ Added(event_out, event_out', x) \/ event_out' = event_out
  BY <1>2 DEF TaskFrame, mgrVars, userVars, netVars
<1>4. LiveInv'
  BY <1>3 DEF TracksInv, LiveInv
<1> SUFFICES ASSUME NEW c \in Tracks PROVE TrackInv(c)'
  BY <1>4
<1>5. Unaccepted(c) /\ Stage(c) /\ Order(c) /\ Looked(c) /\ Served(c)
  BY TrackFacts
<1>6. Unaccepted(c)'
  BY <1>3, <1>5, EventEq DEF Unaccepted, Outbound, Inbound, Added
<1>7. Stage(c)'
  BY <1>3, <1>5 DEF Stage
<1>8. Order(c)'
  BY <1>3, <1>5, EventEq DEF Order, Outbound, Added
<1>9. Looked(c)'
  BY <1>3, <1>5, EventEq DEF Looked, Outbound, Inbound, Added
<1>10. Served(c)'
  BY <1>3, <1>5 DEF Served, Kept, Inbound
<1> QED
  BY <1>6, <1>7, <1>8, <1>9, <1>10 DEF TrackInv

LEMMA TaskEndStep ==
  ASSUME ChannelInv, TracksInv, link # "closed", NEW d \in Tracks, TaskEnd(d)
  PROVE  LiveInv' /\ \A c \in Tracks : TrackInv(c)'
<1>1. /\ UNCHANGED <<event_in, event_out, descriptors, manager, todo, state,
                     result, forwarder, user, forwarding, link, toSfu, fromSfu,
                     sfu, lost>>
      /\ \A c \in Tracks \ {d} : task'[c] = task[c]
      /\ task[d] = "ending" /\ task'[d] = "done"
  BY DEF TaskEnd, mgrVars, userVars, netVars, ChannelInv, TracksOK
<1>2. LiveInv'
  BY <1>1 DEF TracksInv, LiveInv
<1> SUFFICES ASSUME NEW c \in Tracks PROVE TrackInv(c)'
  BY <1>2
<1>3. Unaccepted(c) /\ Stage(c) /\ Order(c) /\ Looked(c) /\ Served(c)
  BY TrackFacts
<1>4. Unaccepted(c)'
  BY <1>1, <1>3 DEF Unaccepted, Outbound, Inbound
<1>5. Stage(c)'
  BY <1>1, <1>3 DEF Stage
<1>6. Order(c)'
  BY <1>1, <1>3 DEF Order, Outbound
<1>7. Looked(c)'
  BY <1>1, <1>3 DEF Looked, Outbound, Inbound
<1>8. Served(c)'
  BY <1>1, <1>3 DEF Served, Kept, Inbound
<1> QED
  BY <1>4, <1>5, <1>6, <1>7, <1>8 DEF TrackInv

LEMMA OnPublishRequestStep ==
  ASSUME ChannelInv, TracksInv, link # "closed",
         NEW d \in Tracks, OnPublishRequest(d)
  PROVE  LiveInv' /\ \A c \in Tracks : TrackInv(c)'
<1> DEFINE x == Event("PublishRequest", d)
           y == Event("SfuPublishRequest", d)
<1>1. Taken(event_in, event_in', x)
  BY TakeView DEF OnPublishRequest
<1>2. y \in OutputEvents
  BY EventTypes DEF OutputTypes
<1>3. Emit(y) => Added(event_out, event_out', y)
  BY <1>2, EmitView, TrackFacts
<1>4. /\ UNCHANGED <<manager, todo, state, task, result, forwarding, link,
                     toSfu, fromSfu, sfu, lost>>
      /\ Taken(event_in, event_in', x)
      /\ \A c \in Tracks \ {d} : user'[c] = user[c]
           /\ descriptors'[c] = descriptors[c] /\ forwarder'[c] = forwarder[c]
      /\ \/ /\ UNCHANGED <<event_out, descriptors, forwarder>>
            /\ user'[d] = IF user[d] = "asking" THEN "failed" ELSE user[d]
         \/ /\ descriptors'[d] = "pending" /\ forwarder'[d] = "waiting"
            /\ Added(event_out, event_out', y)
            /\ user'[d] = user[d]
  BY <1>1, <1>3 DEF OnPublishRequest, trackVars, netVars, ChannelInv,
     ManagerOK, UsersOK
<1>5. LiveInv'
  BY <1>4 DEF TracksInv, LiveInv, Taken
<1> SUFFICES ASSUME NEW c \in Tracks PROVE TrackInv(c)'
  BY <1>5
<1>6. Unaccepted(c) /\ Stage(c) /\ Order(c) /\ Looked(c) /\ Served(c)
  BY TrackFacts
<1>7. Unaccepted(c)'
  BY <1>4, <1>6, EventEq DEF Unaccepted, Outbound, Inbound, Added, Taken
<1>8. Stage(c)'
  BY <1>4, <1>6, EventEq DEF Stage, Unaccepted, Taken
<1>9. Order(c)'
  BY <1>4, <1>6, EventEq DEF Order, Unaccepted, Outbound, OutputTypes, Added,
     Taken
<1>10. Looked(c)'
  BY <1>4, <1>6, EventEq DEF Looked, Unaccepted, Outbound, Inbound, Added, Taken
<1>11. Served(c)'
  BY <1>4, <1>6, EventEq DEF Served, Kept, Inbound, Global, Taken
<1> QED
  BY <1>7, <1>8, <1>9, <1>10, <1>11 DEF TrackInv

LEMMA OnPublishCancelledStep ==
  ASSUME ChannelInv, TracksInv, link # "closed",
         NEW d \in Tracks, OnPublishCancelled(d)
  PROVE  LiveInv' /\ \A c \in Tracks : TrackInv(c)'
<1> DEFINE x == Event("PublishCancelled", d)
<1>1. Taken(event_in, event_in', x)
  BY TakeView DEF OnPublishCancelled
<1>2. /\ UNCHANGED <<event_out, manager, todo, state, task, result, forwarder,
                     user, forwarding, link, toSfu, fromSfu, sfu, lost>>
      /\ Taken(event_in, event_in', x)
      /\ \A c \in Tracks \ {d} : descriptors'[c] = descriptors[c]
      /\ descriptors'[d] = "none"
  BY <1>1 DEF OnPublishCancelled, trackVars, userVars, netVars, ChannelInv,
     ManagerOK
<1>3. LiveInv'
  BY <1>2 DEF TracksInv, LiveInv, Taken
<1> SUFFICES ASSUME NEW c \in Tracks PROVE TrackInv(c)'
  BY <1>3
<1>4. Unaccepted(c) /\ Stage(c) /\ Order(c) /\ Looked(c) /\ Served(c)
  BY TrackFacts
<1>5. Unaccepted(c)'
  BY <1>2, <1>4 DEF Unaccepted, Outbound, Inbound, Taken
<1>6. Stage(c)'
  BY <1>2, <1>4, EventEq DEF Stage, Taken
<1>7. Order(c)'
  BY <1>2, <1>4 DEF Order, Outbound
<1>8. Looked(c)'
  BY <1>2, <1>4, EventEq DEF Looked, Outbound, Inbound, Taken
<1>9. Served(c)'
  BY <1>2, <1>4, EventEq DEF Served, Kept, Inbound, Global, Taken
<1> QED
  BY <1>5, <1>6, <1>7, <1>8, <1>9 DEF TrackInv

LEMMA OnUnpublishRequestStep ==
  ASSUME ChannelInv, TracksInv, link # "closed",
         NEW d \in Tracks, OnUnpublishRequest(d)
  PROVE  LiveInv' /\ \A c \in Tracks : TrackInv(c)'
<1> DEFINE x == Event("UnpublishRequest", d)
           y == Event("SfuUnpublishRequest", d)
<1>1. Taken(event_in, event_in', x)
  BY TakeView DEF OnUnpublishRequest
<1>2. y \in OutputEvents
  BY EventTypes DEF OutputTypes
<1>3. Added(event_out, event_out', y)
  BY <1>2, EmitView, TrackFacts DEF OnUnpublishRequest
<1>4. /\ UNCHANGED <<manager, todo, task, result, forwarder, user, forwarding,
                     link, toSfu, fromSfu, sfu, lost>>
      /\ Taken(event_in, event_in', x)
      /\ Added(event_out, event_out', y)
      /\ \A c \in Tracks \ {d} :
           descriptors'[c] = descriptors[c] /\ state'[c] = state[c]
      /\ descriptors'[d] = "none"
  BY <1>1, <1>3 DEF OnUnpublishRequest, RemoveDescriptor, SetState, userVars,
     netVars, ChannelInv, ManagerOK, TracksOK
<1>5. LiveInv'
  BY <1>4 DEF TracksInv, LiveInv, Taken
<1> SUFFICES ASSUME NEW c \in Tracks PROVE TrackInv(c)'
  BY <1>5
<1>6. Unaccepted(c) /\ Stage(c) /\ Order(c) /\ Looked(c) /\ Served(c)
  BY TrackFacts
<1>7. Unaccepted(c)'
  BY <1>4, <1>6, EventEq DEF Unaccepted, Outbound, Inbound, InputTypes, Added,
     Taken
<1>8. Stage(c)'
  BY <1>4, <1>6, EventEq DEF Stage, Taken
<1>9. Order(c)'
  BY <1>4, <1>6, EventEq DEF Order, Outbound, Added
<1>10. Looked(c)'
  BY <1>4, <1>6, EventEq DEF Looked, Outbound, Inbound, Added, Taken
<1>11. Served(c)'
  BY <1>4, <1>6, EventEq DEF Served, Kept, Inbound, Global, Taken
<1> QED
  BY <1>7, <1>8, <1>9, <1>10, <1>11 DEF TrackInv

LEMMA OnSfuUnpublishResponseStep ==
  ASSUME ChannelInv, TracksInv, link # "closed",
         NEW d \in Tracks, OnSfuUnpublishResponse(d)
  PROVE  LiveInv' /\ \A c \in Tracks : TrackInv(c)'
<1> DEFINE x == Event("SfuUnpublishResponse", d)
<1>1. Taken(event_in, event_in', x)
  BY TakeView DEF OnSfuUnpublishResponse
<1>2. /\ UNCHANGED <<event_out, manager, todo, task, result, forwarder, user,
                     forwarding, link, toSfu, fromSfu, sfu, lost>>
      /\ Taken(event_in, event_in', x)
      /\ \A c \in Tracks \ {d} :
           descriptors'[c] = descriptors[c] /\ state'[c] = state[c]
      /\ descriptors'[d] = "none"
  BY <1>1 DEF OnSfuUnpublishResponse, RemoveDescriptor, SetState, userVars,
     netVars, ChannelInv, ManagerOK, TracksOK
<1>3. LiveInv'
  BY <1>2 DEF TracksInv, LiveInv, Taken
<1> SUFFICES ASSUME NEW c \in Tracks PROVE TrackInv(c)'
  BY <1>3
<1>4. Unaccepted(c) /\ Stage(c) /\ Order(c) /\ Looked(c) /\ Served(c)
  BY TrackFacts
<1>5. Unaccepted(c)'
  BY <1>2, <1>4 DEF Unaccepted, Outbound, Inbound, Taken
<1>6. Stage(c)'
  BY <1>2, <1>4, EventEq DEF Stage, Taken
<1>7. Order(c)'
  BY <1>2, <1>4 DEF Order, Outbound
<1>8. Looked(c)'
  BY <1>2, <1>4, EventEq DEF Looked, Outbound, Inbound, Taken
<1>9. Served(c)'
  BY <1>2, <1>4, EventEq DEF Served, Kept, Inbound, Global, Taken
<1> QED
  BY <1>5, <1>6, <1>7, <1>8, <1>9 DEF TrackInv

LEMMA UnknownPublishedStep ==
  ASSUME ChannelInv, TracksInv, link # "closed", NEW d \in Tracks,
         NEW ok \in BOOLEAN, OnSfuPublishResponse(d, ok),
         UnknownPublished(d)
  PROVE  LiveInv' /\ \A c \in Tracks : TrackInv(c)'
<1> DEFINE x == Event(IF ok THEN "SfuPublished" ELSE "SfuRefused", d)
           y == Event("SfuUnpublishRequest", d)
<1>1. Taken(event_in, event_in', x)
  BY TakeView DEF OnSfuPublishResponse
<1>2. y \in OutputEvents
  BY EventTypes DEF OutputTypes
<1>3. Added(event_out, event_out', y)
  BY <1>2, EmitView, TrackFacts DEF UnknownPublished
<1>4. /\ UNCHANGED <<descriptors, manager, todo, state, task, result, forwarder,
                     user, forwarding, link, toSfu, fromSfu, sfu, lost>>
      /\ Taken(event_in, event_in', x)
      /\ Added(event_out, event_out', y)
      /\ descriptors[d] = "none"
  BY <1>1, <1>3 DEF OnSfuPublishResponse, UnknownPublished, trackVars, netVars
<1>5. LiveInv'
  BY <1>4 DEF TracksInv, LiveInv, Taken
<1> SUFFICES ASSUME NEW c \in Tracks PROVE TrackInv(c)'
  BY <1>5
<1>6. Unaccepted(c) /\ Stage(c) /\ Order(c) /\ Looked(c) /\ Served(c)
  BY TrackFacts
<1>7. Unaccepted(c)'
  BY <1>4, <1>6, EventEq DEF Unaccepted, Outbound, Inbound, InputTypes, Added,
     Taken
<1>8. Stage(c)'
  BY <1>4, <1>6, EventEq DEF Stage, Taken
<1>9. Order(c)'
  BY <1>4, <1>6, EventEq DEF Order, Outbound, Added
<1>10. Looked(c)'
  BY <1>4, <1>6, EventEq DEF Looked, Outbound, Inbound, Added, Taken
<1>11. Served(c)'
  BY <1>4, <1>6, EventEq DEF Served, Kept, Inbound, Global, Taken
<1> QED
  BY <1>7, <1>8, <1>9, <1>10, <1>11 DEF TrackInv

LEMMA PendingPublishedStep ==
  ASSUME ChannelInv, TracksInv, link # "closed", NEW d \in Tracks,
         NEW ok \in BOOLEAN, OnSfuPublishResponse(d, ok),
         PendingPublished(d, ok)
  PROVE  LiveInv' /\ \A c \in Tracks : TrackInv(c)'
<1> DEFINE x == Event(IF ok THEN "SfuPublished" ELSE "SfuRefused", d)
<1>1. Taken(event_in, event_in', x)
  BY TakeView DEF OnSfuPublishResponse
<1>2. /\ UNCHANGED <<event_out, manager, todo, forwarder, user, forwarding,
                     link, toSfu, fromSfu, sfu, lost>>
      /\ Taken(event_in, event_in', x)
      /\ manager = "running"
      /\ \A c \in Tracks \ {d} :
           /\ descriptors'[c] = descriptors[c] /\ state'[c] = state[c]
           /\ task'[c] = task[c] /\ result'[c] = result[c]
      /\ descriptors[d] = "pending"
      /\ \/ /\ forwarder[d] = "done" /\ descriptors'[d] = "none"
            /\ UNCHANGED <<state, task, result>>
         \/ /\ forwarder[d] = "waiting" /\ ok /\ result'[d] = "track"
            /\ descriptors'[d] = "active" /\ state'[d] = "Published"
            /\ task'[d] = "running"
         \/ /\ forwarder[d] = "waiting" /\ ~ok /\ result'[d] = "error"
            /\ descriptors'[d] = "none"
            /\ UNCHANGED <<state, task>>
  BY <1>1 DEF OnSfuPublishResponse, PendingPublished, CreateLocalTrack, Take,
     netVars, ChannelInv, ManagerOK, TracksOK, UsersOK
<1>3. LiveInv'
  BY <1>2 DEF TracksInv, LiveInv, Taken
<1> SUFFICES ASSUME NEW c \in Tracks PROVE TrackInv(c)'
  BY <1>3
<1>4. Unaccepted(c) /\ Stage(c) /\ Order(c) /\ Looked(c) /\ Served(c)
  BY TrackFacts
<1>5. Unaccepted(c)'
  BY <1>2, <1>4 DEF Unaccepted, Outbound, Inbound, Taken
<1>6. Stage(c)'
  BY <1>2, <1>4, EventEq DEF Stage, Taken
<1>7. Order(c)'
  BY <1>2, <1>4 DEF Order, Outbound
<1>8. Looked(c)'
  BY <1>2, <1>4, EventEq DEF Looked, Stage, Outbound, Inbound, Taken
<1>9. Served(c)'
  BY <1>2, <1>4, EventEq, ForgottenIs DEF Served, Kept, Inbound, Global, Taken
<1> QED
  BY <1>5, <1>6, <1>7, <1>8, <1>9 DEF TrackInv

LEMMA ActivePublishedStep ==
  ASSUME ChannelInv, TracksInv, link # "closed", NEW d \in Tracks,
         NEW ok \in BOOLEAN, OnSfuPublishResponse(d, ok),
         ActivePublished(d, ok)
  PROVE  LiveInv' /\ \A c \in Tracks : TrackInv(c)'
<1> DEFINE x == Event(IF ok THEN "SfuPublished" ELSE "SfuRefused", d)
<1>1. Taken(event_in, event_in', x)
  BY TakeView DEF OnSfuPublishResponse
<1>2. /\ UNCHANGED <<event_out, manager, todo, task, result, forwarder, user,
                     forwarding, link, toSfu, fromSfu, sfu, lost>>
      /\ Taken(event_in, event_in', x)
      /\ manager = "running"
      /\ \A c \in Tracks \ {d} :
           descriptors'[c] = descriptors[c] /\ state'[c] = state[c]
      /\ descriptors[d] = "active"
      /\ \/ /\ ok /\ UNCHANGED descriptors
            /\ state'[d] = "Published" \/ task[d] = "done"
         \/ descriptors'[d] = "none" /\ UNCHANGED state
      /\ task[d] = "done" => UNCHANGED state
  BY <1>1 DEF OnSfuPublishResponse, ActivePublished, SetState, Take, netVars,
     ChannelInv, ManagerOK, TracksOK
<1>3. LiveInv'
  BY <1>2 DEF TracksInv, LiveInv, Taken
<1> SUFFICES ASSUME NEW c \in Tracks PROVE TrackInv(c)'
  BY <1>3
<1>4. Unaccepted(c) /\ Stage(c) /\ Order(c) /\ Looked(c) /\ Served(c)
  BY TrackFacts
<1>5. Unaccepted(c)'
  BY <1>2, <1>4 DEF Unaccepted, Outbound, Inbound, Taken
<1>6. Stage(c)'
  BY <1>2, <1>4, EventEq DEF Stage, Taken
<1>7. Order(c)'
  BY <1>2, <1>4 DEF Order, Outbound
<1>8. Looked(c)'
  BY <1>2, <1>4, EventEq DEF Looked, Stage, Outbound, Inbound, Taken
<1>9. Served(c)'
  BY <1>2, <1>4, EventEq, ForgottenIs DEF Served, Kept, Inbound, Global, Taken
<1> QED
  BY <1>5, <1>6, <1>7, <1>8, <1>9 DEF TrackInv

LEMMA OnRepublishTracksStep ==
  ASSUME ChannelInv, TracksInv, link # "closed", OnRepublishTracks
  PROVE  LiveInv' /\ \A c \in Tracks : TrackInv(c)'
<1> DEFINE x == Event("RepublishTracks", NoTrack)
<1>1. Taken(event_in, event_in', x)
  BY TakeView DEF OnRepublishTracks
<1>2. /\ UNCHANGED <<event_out, descriptors, state, task, result, forwarder,
                     user, forwarding, link, toSfu, fromSfu, sfu, lost>>
      /\ Taken(event_in, event_in', x)
      /\ manager' = "republishing"
      /\ todo' = {c \in Tracks : descriptors[c] # "none"}
      /\ NoTrack \notin Tracks
  BY <1>1, LocalTracksAssumption DEF OnRepublishTracks, trackVars, userVars,
     netVars
<1>3. LiveInv'
  BY <1>2 DEF TracksInv, LiveInv, Taken
<1> SUFFICES ASSUME NEW c \in Tracks PROVE TrackInv(c)'
  BY <1>3
<1>4. Unaccepted(c) /\ Stage(c) /\ Order(c) /\ Looked(c) /\ Served(c)
  BY TrackFacts
<1>5. Unaccepted(c)'
  BY <1>2, <1>4 DEF Unaccepted, Outbound, Inbound, Taken
<1>6. Stage(c)'
  BY <1>2, <1>4, EventEq DEF Stage, Taken
<1>7. Order(c)'
  BY <1>2, <1>4 DEF Order, Outbound
<1>8. Looked(c)'
  BY <1>2, <1>4, EventEq DEF Looked, Outbound, Inbound, Taken
<1>9. Served(c)'
  BY <1>2, <1>4 DEF Served, Kept, Taken
<1> QED
  BY <1>5, <1>6, <1>7, <1>8, <1>9 DEF TrackInv

LEMMA RepublishPendingStep ==
  ASSUME ChannelInv, TracksInv, link # "closed",
         NEW d \in Tracks, RepublishTrack(d),
         RepublishPending(d)
  PROVE  LiveInv' /\ \A c \in Tracks : TrackInv(c)'
<1>1. /\ UNCHANGED <<event_in, event_out, manager, state, task, forwarder, user,
                     forwarding, link, toSfu, fromSfu, sfu, lost>>
      /\ todo' = todo \ {d}
      /\ \A c \in Tracks \ {d} :
           descriptors'[c] = descriptors[c] /\ result'[c] = result[c]
      /\ descriptors[d] = "pending" /\ descriptors'[d] = "none"
      /\ result'[d] = IF forwarder[d] = "waiting" THEN "error" ELSE result[d]
  BY DEF RepublishTrack, RepublishPending, netVars, ChannelInv, ManagerOK,
     UsersOK
<1>2. LiveInv'
  BY <1>1 DEF TracksInv, LiveInv
<1> SUFFICES ASSUME NEW c \in Tracks PROVE TrackInv(c)'
  BY <1>2
<1>3. Unaccepted(c) /\ Stage(c) /\ Order(c) /\ Looked(c) /\ Served(c)
  BY TrackFacts
<1>4. Unaccepted(c)'
  BY <1>1, <1>3 DEF Unaccepted, Outbound, Inbound
<1>5. Stage(c)'
  BY <1>1, <1>3 DEF Stage
<1>6. Order(c)'
  BY <1>1, <1>3 DEF Order, Outbound
<1>7. Looked(c)'
  BY <1>1, <1>3 DEF Looked, Outbound, Inbound
<1>8. Served(c)'
  BY <1>1, <1>3 DEF Served, Kept, Inbound
<1> QED
  BY <1>4, <1>5, <1>6, <1>7, <1>8 DEF TrackInv

LEMMA RepublishActiveStep ==
  ASSUME ChannelInv, TracksInv, link # "closed",
         NEW d \in Tracks, RepublishTrack(d),
         RepublishActive(d)
  PROVE  LiveInv' /\ \A c \in Tracks : TrackInv(c)'
<1> DEFINE y == Event("SfuPublishRequest", d)
<1>1. y \in OutputEvents
  BY EventTypes DEF OutputTypes
<1>2. Added(event_out, event_out', y)
  BY <1>1, EmitView, TrackFacts DEF RepublishActive
<1>3. /\ UNCHANGED <<event_in, descriptors, manager, task, result, forwarder,
                     user, forwarding, link, toSfu, fromSfu, sfu, lost>>
      /\ Added(event_out, event_out', y)
      /\ todo' = todo \ {d}
      /\ \A c \in Tracks \ {d} : state'[c] = state[c]
      /\ descriptors[d] = "active"
      /\ state'[d] = "Republishing" \/ task[d] = "done"
  BY <1>2 DEF RepublishTrack, RepublishActive, SetState, netVars, ChannelInv,
     TracksOK
<1>4. LiveInv'
  BY <1>3 DEF TracksInv, LiveInv
<1> SUFFICES ASSUME NEW c \in Tracks PROVE TrackInv(c)'
  BY <1>4
<1>5. Unaccepted(c) /\ Stage(c) /\ Order(c) /\ Looked(c) /\ Served(c)
  BY TrackFacts
<1>6. Unaccepted(c)'
  BY <1>3, <1>5, EventEq DEF Unaccepted, Outbound, Inbound, Added
<1>7. Stage(c)'
  BY <1>3, <1>5 DEF Stage
<1>8. Order(c)'
  BY <1>3, <1>5, EventEq DEF Order, Outbound, Added
<1>9. Looked(c)'
  BY <1>3, <1>5, EventEq DEF Looked, Stage, Outbound, Inbound, Added
<1>10. Served(c)'
  BY <1>3, <1>5 DEF Served, Kept, Stage, Inbound
<1> QED
  BY <1>6, <1>7, <1>8, <1>9, <1>10 DEF TrackInv

LEMMA RepublishDoneStep ==
  ASSUME ChannelInv, TracksInv, link # "closed", RepublishDone
  PROVE  LiveInv' /\ \A c \in Tracks : TrackInv(c)'
<1>1. /\ UNCHANGED <<event_in, event_out, descriptors, todo, state, task,
                     result, forwarder, user, forwarding, link, toSfu,
                     fromSfu, sfu, lost>>
      /\ todo = {} /\ manager' = "running"
  BY DEF RepublishDone, trackVars, userVars, netVars
<1>2. LiveInv'
  BY <1>1 DEF TracksInv, LiveInv
<1> SUFFICES ASSUME NEW c \in Tracks PROVE TrackInv(c)'
  BY <1>2
<1>3. Unaccepted(c) /\ Stage(c) /\ Order(c) /\ Looked(c) /\ Served(c)
  BY TrackFacts
<1>4. Unaccepted(c)'
  BY <1>1, <1>3 DEF Unaccepted, Outbound, Inbound
<1>5. Stage(c)'
  BY <1>1, <1>3 DEF Stage
<1>6. Order(c)'
  BY <1>1, <1>3 DEF Order, Outbound
<1>7. Looked(c)'
  BY <1>1, <1>3 DEF Looked, Outbound, Inbound
<1>8. Served(c)'
  BY <1>1, <1>3 DEF Served, Kept, Inbound
<1> QED
  BY <1>4, <1>5, <1>6, <1>7, <1>8 DEF TrackInv

LEMMA ForwardOutStep ==
  ASSUME ChannelInv, TracksInv, link # "closed", ForwardOut
  PROVE  LiveInv' /\ \A c \in Tracks : TrackInv(c)'
<1>1. /\ Taken(event_out, event_out', Head(event_out))
      /\ Head(event_out) \in OutputEvents
  BY TailTaken DEF ForwardOut, ChannelInv, QueuesOK
<1> DEFINE x == Head(event_out)
<1>2. x.type # "PacketsAvailable" => Added(toSfu, Append(toSfu, x), x)
  BY <1>1, AnswersAndRequests, AppendAdded DEF ChannelInv, QueuesOK
<1>3. x.type # "PacketsAvailable" => Added(toSfu, toSfu', x)
  BY <1>2 DEF ForwardOut, ChannelInv, NetOK
<1> HIDE DEF x
<1>4. /\ UNCHANGED <<event_in, descriptors, manager, todo, state, task, result,
                     forwarder, user, forwarding, link, fromSfu, sfu, lost>>
      /\ Taken(event_out, event_out', x)
      /\ \/ Added(toSfu, toSfu', x)
         \/ x.type = "PacketsAvailable" /\ toSfu' = toSfu
  BY <1>1, <1>3 DEF ForwardOut, x, mgrVars, trackVars, userVars
<1>5. LiveInv'
  BY <1>4 DEF TracksInv, LiveInv
<1> SUFFICES ASSUME NEW c \in Tracks PROVE TrackInv(c)'
  BY <1>5
<1>6. Unaccepted(c) /\ Stage(c) /\ Order(c) /\ Looked(c) /\ Served(c)
  BY TrackFacts
<1>7. Unaccepted(c)'
  BY <1>4, <1>6 DEF Unaccepted, Outbound, Inbound, Added, Taken
<1>8. Stage(c)'
  BY <1>4, <1>6 DEF Stage
<1>9. Order(c)'
  BY <1>4, <1>6 DEF Order, Outbound, Added, Taken
<1>10. Looked(c)'
  BY <1>4, <1>6, EventEq DEF Looked, Outbound, Inbound, Added, Taken
<1>11. Served(c)'
  BY <1>4, <1>6 DEF Served, Kept, Inbound
<1> QED
  BY <1>7, <1>8, <1>9, <1>10, <1>11 DEF TrackInv

LEMMA SfuAnswerStep ==
  ASSUME ChannelInv, TracksInv, link # "closed", NEW d, SfuServe,
         d = Head(toSfu).track, Head(toSfu).type = "SfuPublishRequest",
         sfu' # sfu
  PROVE  LiveInv' /\ \A c \in Tracks : TrackInv(c)'
<1> DEFINE x == Head(toSfu)
<1>1. /\ Taken(toSfu, toSfu', x)
      /\ x \in RequestEvents
  BY TailTaken DEF SfuServe, ChannelInv, QueuesOK
<1>2. x = Event(x.type, d) /\ d \in Tracks
  BY <1>1, AnswersAndRequests
<1> DEFINE y == Event("SfuPublished", d)
<1>3. y \in AnswerEvents
  BY <1>2, EventTypes
<1>4. Added(fromSfu, Append(fromSfu, y), y)
  BY <1>3, AppendAdded DEF ChannelInv, QueuesOK
<1>5. /\ UNCHANGED <<event_in, event_out, descriptors, manager, todo, state,
                     task, result, forwarder, user, forwarding, link, lost>>
      /\ Taken(toSfu, toSfu', Event("SfuPublishRequest", d))
      /\ sfu' = sfu \cup {d}
      /\ Added(fromSfu, fromSfu', y)
  BY <1>1, <1>2, <1>4 DEF SfuServe, mgrVars, trackVars, userVars, netVars,
     countVars
<1>6. LiveInv'
  BY <1>5 DEF TracksInv, LiveInv
<1> SUFFICES ASSUME NEW c \in Tracks PROVE TrackInv(c)'
  BY <1>6
<1>7. Unaccepted(c) /\ Stage(c) /\ Order(c) /\ Looked(c) /\ Served(c)
  BY TrackFacts
<1>8. Unaccepted(c)'
  BY <1>5, <1>7, EventEq DEF Unaccepted, Outbound, Inbound, OutputTypes, Added,
     Taken
<1>9. Stage(c)'
  BY <1>5, <1>7 DEF Stage
<1>10. Order(c)'
  BY <1>5, <1>7 DEF Order, Outbound, Taken
<1>11. Looked(c)'
  BY <1>5, <1>7, EventEq DEF Looked, Outbound, Inbound, Added, Taken
<1>12. Served(c)'
  BY <1>5, <1>7, EventEq DEF Served, Kept, Inbound, Added
<1> QED
  BY <1>8, <1>9, <1>10, <1>11, <1>12 DEF TrackInv

LEMMA SfuRefuseStep ==
  ASSUME ChannelInv, TracksInv, link # "closed", NEW d, SfuServe,
         d = Head(toSfu).track, Head(toSfu).type = "SfuPublishRequest",
         sfu' = sfu
  PROVE  LiveInv' /\ \A c \in Tracks : TrackInv(c)'
<1> DEFINE x == Head(toSfu)
<1>1. /\ Taken(toSfu, toSfu', x)
      /\ x \in RequestEvents
  BY TailTaken DEF SfuServe, ChannelInv, QueuesOK
<1>2. x = Event(x.type, d) /\ d \in Tracks
  BY <1>1, AnswersAndRequests
<1> DEFINE y == Event("SfuRefused", d)
<1>3. y \in AnswerEvents
  BY <1>2, EventTypes
<1>4. Added(fromSfu, Append(fromSfu, y), y)
  BY <1>3, AppendAdded DEF ChannelInv, QueuesOK
<1>5. /\ UNCHANGED <<event_in, event_out, descriptors, manager, todo, state,
                     task, result, forwarder, user, forwarding, link, lost>>
      /\ Taken(toSfu, toSfu', Event("SfuPublishRequest", d))
      /\ sfu' = sfu
      /\ Added(fromSfu, fromSfu', y)
  BY <1>1, <1>2, <1>4 DEF SfuServe, mgrVars, trackVars, userVars
<1>6. LiveInv'
  BY <1>5 DEF TracksInv, LiveInv
<1> SUFFICES ASSUME NEW c \in Tracks PROVE TrackInv(c)'
  BY <1>6
<1>7. Unaccepted(c) /\ Stage(c) /\ Order(c) /\ Looked(c) /\ Served(c)
  BY TrackFacts
<1>8. Unaccepted(c)'
  BY <1>5, <1>7, EventEq DEF Unaccepted, Outbound, Inbound, OutputTypes, Added,
     Taken
<1>9. Stage(c)'
  BY <1>5, <1>7 DEF Stage
<1>10. Order(c)'
  BY <1>5, <1>7 DEF Order, Outbound, Taken
<1>11. Looked(c)'
  BY <1>5, <1>7, EventEq DEF Looked, Outbound, Inbound, Added, Taken
<1>12. Served(c)'
  BY <1>5, <1>7, EventEq DEF Served, Kept, Inbound, Added
<1> QED
  BY <1>8, <1>9, <1>10, <1>11, <1>12 DEF TrackInv

LEMMA SfuForgetStep ==
  ASSUME ChannelInv, TracksInv, link # "closed", NEW d, SfuServe,
         d = Head(toSfu).track, Head(toSfu).type = "SfuUnpublishRequest"
  PROVE  LiveInv' /\ \A c \in Tracks : TrackInv(c)'
<1> DEFINE x == Head(toSfu)
<1>1. /\ Taken(toSfu, toSfu', x)
      /\ x \in RequestEvents
  BY TailTaken DEF SfuServe, ChannelInv, QueuesOK
<1>2. x = Event(x.type, d) /\ d \in Tracks
  BY <1>1, AnswersAndRequests
<1> DEFINE y == Event("SfuUnpublishResponse", d)
<1>3. y \in AnswerEvents
  BY <1>2, EventTypes
<1>4. Added(fromSfu, Append(fromSfu, y), y)
  BY <1>3, AppendAdded DEF ChannelInv, QueuesOK
<1>5. /\ UNCHANGED <<event_in, event_out, descriptors, manager, todo, state,
                     task, result, forwarder, user, forwarding, link, lost>>
      /\ Taken(toSfu, toSfu', Event("SfuUnpublishRequest", d))
      /\ sfu' = sfu \ {d}
      /\ \/ d \in sfu /\ Added(fromSfu, fromSfu', y)
         \/ d \notin sfu /\ fromSfu' = fromSfu
  BY <1>1, <1>2, <1>4 DEF SfuServe, mgrVars, trackVars, userVars
<1>6. LiveInv'
  BY <1>5 DEF TracksInv, LiveInv
<1> SUFFICES ASSUME NEW c \in Tracks PROVE TrackInv(c)'
  BY <1>6
<1>7. Unaccepted(c) /\ Stage(c) /\ Order(c) /\ Looked(c) /\ Served(c)
  BY TrackFacts
<1>8. Unaccepted(c)'
  BY <1>5, <1>7, EventEq DEF Unaccepted, Outbound, Inbound, Added, Taken
<1>9. Stage(c)'
  BY <1>5, <1>7 DEF Stage
<1>10. Order(c)'
  BY <1>5, <1>7 DEF Order, Outbound, Taken
<1>11. Looked(c)'
  BY <1>5, <1>7, EventEq DEF Looked, Order, Outbound, Inbound, Added, Taken
<1>12. Served(c)'
  BY <1>5, <1>7, EventEq, ForgottenIs DEF Served, Kept, Inbound, Added
<1> QED
  BY <1>8, <1>9, <1>10, <1>11, <1>12 DEF TrackInv

LEMMA SfuUnpublishStep ==
  ASSUME ChannelInv, TracksInv, link # "closed",
         NEW d \in Tracks, SfuUnpublish(d)
  PROVE  LiveInv' /\ \A c \in Tracks : TrackInv(c)'
<1> DEFINE y == Event("SfuUnpublishResponse", d)
<1>1. y \in AnswerEvents
  BY EventTypes
<1>2. Added(fromSfu, Append(fromSfu, y), y)
  BY <1>1, AppendAdded DEF ChannelInv, QueuesOK
<1>3. /\ UNCHANGED <<event_in, event_out, descriptors, manager, todo, state,
                     task, result, forwarder, user, forwarding, link, toSfu,
                     lost>>
      /\ d \in sfu /\ sfu' = sfu \ {d}
      /\ Added(fromSfu, fromSfu', y)
  BY <1>2 DEF SfuUnpublish, mgrVars, trackVars, userVars
<1>4. LiveInv'
  BY <1>3 DEF TracksInv, LiveInv
<1> SUFFICES ASSUME NEW c \in Tracks PROVE TrackInv(c)'
  BY <1>4
<1>5. Unaccepted(c) /\ Stage(c) /\ Order(c) /\ Looked(c) /\ Served(c)
  BY TrackFacts
<1>6. Unaccepted(c)'
  BY <1>3, <1>5, EventEq DEF Unaccepted, Outbound, Inbound, Added
<1>7. Stage(c)'
  BY <1>3, <1>5 DEF Stage
<1>8. Order(c)'
  BY <1>3, <1>5 DEF Order, Outbound
<1>9. Looked(c)'
  BY <1>3, <1>5 DEF Looked, Outbound, Inbound, Added
<1>10. Served(c)'
  BY <1>3, <1>5, EventEq, ForgottenIs DEF Served, Kept, Inbound, Added
<1> QED
  BY <1>6, <1>7, <1>8, <1>9, <1>10 DEF TrackInv

LEMMA DeliverStep ==
  ASSUME ChannelInv, TracksInv, link # "closed", Deliver
  PROVE  LiveInv' /\ \A c \in Tracks : TrackInv(c)'
<1> DEFINE x == Head(fromSfu)
<1>1. /\ Taken(fromSfu, fromSfu', x)
      /\ x \in AnswerEvents /\ x \in InputEvents
  BY TailTaken, AnswersAndRequests DEF Deliver, ChannelInv, QueuesOK
<1>2. \/ Added(event_in, event_in', x) /\ lost' = lost
      \/ event_in' = event_in /\ x \in lost' /\ lost \subseteq lost'
  BY <1>1, TrySendView DEF Deliver
<1>3. /\ x # Event("Shutdown", NoTrack)
      /\ \A c : x # Event("PublishRequest", c)
  BY <1>1, AnswersAndRequests, EventEq
<1>4. ~Has(fromSfu, Event("RepublishTracks", NoTrack))
  <2>1. Event("RepublishTracks", NoTrack) \notin AnswerEvents
    BY EventEq, AnswersAndRequests
  <2>2. \A i \in 1..Len(fromSfu) : fromSfu[i] \in AnswerEvents
    BY DEF ChannelInv, QueuesOK
  <2> QED
    BY <2>1, <2>2 DEF Has
<1> HIDE DEF x
<1>5. /\ UNCHANGED <<event_out, descriptors, manager, todo, state, task, result,
                     forwarder, user, forwarding, link, toSfu, sfu>>
      /\ Taken(fromSfu, fromSfu', x)
      /\ \/ Added(event_in, event_in', x) /\ lost' = lost
         \/ event_in' = event_in /\ x \in lost' /\ lost \subseteq lost'
      /\ x # Event("Shutdown", NoTrack)
      /\ \A c : x # Event("PublishRequest", c)
      /\ ~Has(fromSfu, Event("RepublishTracks", NoTrack))
  BY <1>1, <1>2, <1>3, <1>4 DEF Deliver, mgrVars, trackVars, userVars
<1>6. LiveInv'
  BY <1>5 DEF TracksInv, LiveInv, Global, Added
<1> SUFFICES ASSUME NEW c \in Tracks PROVE TrackInv(c)'
  BY <1>6
<1>7. Unaccepted(c) /\ Stage(c) /\ Order(c) /\ Looked(c) /\ Served(c)
  BY TrackFacts
<1>8. Unaccepted(c)'
  BY <1>5, <1>7 DEF Unaccepted, Outbound, Inbound, Added, Taken
<1>9. Stage(c)'
  BY <1>5, <1>7 DEF Stage, Added
<1>10. Order(c)'
  BY <1>5, <1>7 DEF Order, Outbound
<1>11. Looked(c)'
  BY <1>5, <1>7 DEF Looked, Outbound, Inbound, Added, Taken
<1>12. Served(c)'
  BY <1>5, <1>7, ForgottenIs DEF Served, Kept, Inbound, Added, Taken
<1> QED
  BY <1>8, <1>9, <1>10, <1>11, <1>12 DEF TrackInv

LEMMA LinkDownStep ==
  ASSUME ChannelInv, TracksInv, link # "closed", LinkDown
  PROVE  LiveInv' /\ \A c \in Tracks : TrackInv(c)'
<1>1. \A e : Has(fromSfu', e) => Has(fromSfu, e)
  BY PrefixHas DEF LinkDown, ChannelInv, QueuesOK
<1>2. /\ UNCHANGED <<event_in, event_out, descriptors, manager, todo, state,
                     task, result, forwarder, user, forwarding, lost>>
      /\ link' = "down" /\ sfu' = {} /\ toSfu' = <<>>
      /\ \A e : Has(fromSfu', e) => Has(fromSfu, e)
  BY <1>1 DEF LinkDown, mgrVars, trackVars, userVars
<1>3. LiveInv'
  BY <1>2 DEF TracksInv, LiveInv
<1> SUFFICES ASSUME NEW c \in Tracks PROVE TrackInv(c)'
  BY <1>3
<1>4. Unaccepted(c) /\ Stage(c) /\ Order(c) /\ Looked(c) /\ Served(c)
  BY TrackFacts
<1>5. Unaccepted(c)'
  BY EmptyHasNone, <1>2, <1>4 DEF Unaccepted, Outbound, Inbound
<1>6. Stage(c)'
  BY <1>2, <1>4 DEF Stage
<1>7. Order(c)'
  BY EmptyHasNone, <1>2, <1>4 DEF Order, Outbound
<1>8. Looked(c)'
  BY EmptyHasNone, <1>2, <1>4 DEF Looked, Order, Outbound
<1>9. Served(c)'
  BY <1>2 DEF Served
<1> QED
  BY <1>5, <1>6, <1>7, <1>8, <1>9 DEF TrackInv

LEMMA RestartedStep ==
  ASSUME ChannelInv, TracksInv, link # "closed", Restarted
  PROVE  LiveInv' /\ \A c \in Tracks : TrackInv(c)'
<1> DEFINE x == Event("RepublishTracks", NoTrack)
<1>1. \/ Added(event_in, event_in', x) /\ lost' = lost
      \/ event_in' = event_in /\ x \in lost' /\ lost \subseteq lost'
  BY EventTypes, TrySendView DEF Restarted, Global
<1>2. /\ UNCHANGED <<event_out, descriptors, manager, todo, state, task, result,
                     forwarder, user, forwarding, toSfu, fromSfu, sfu>>
      /\ fromSfu = <<>> /\ NoTrack \notin Tracks
      /\ \/ Added(event_in, event_in', x) /\ lost' = lost
         \/ event_in' = event_in /\ x \in lost' /\ lost \subseteq lost'
  BY <1>1, LocalTracksAssumption DEF Restarted, mgrVars, trackVars, userVars
<1>3. LiveInv'
  BY <1>2, EventEq DEF TracksInv, LiveInv, Global, Added
<1> SUFFICES ASSUME NEW c \in Tracks PROVE TrackInv(c)'
  BY <1>3
<1>4. Unaccepted(c) /\ Stage(c) /\ Order(c) /\ Looked(c) /\ Served(c)
  BY TrackFacts
<1>5. Unaccepted(c)'
  BY <1>2, <1>4, EventEq DEF Unaccepted, Outbound, Inbound, Added
<1>6. Stage(c)'
  BY <1>2, <1>4 DEF Stage, Added
<1>7. Order(c)'
  BY <1>2, <1>4 DEF Order, Outbound
<1>8. Looked(c)'
  BY <1>2, <1>4 DEF Looked, Outbound, Inbound, Added
<1>9. Served(c)'
  BY EmptyHasNone, <1>2, EventEq, ForgottenIs DEF Served, Global, Added
<1> QED
  BY <1>5, <1>6, <1>7, <1>8, <1>9 DEF TrackInv

\* A frame that is pushed concerns nobody else, nor does a step without change.
LEMMA NothingMovesStep ==
  ASSUME TracksInv, link # "closed",
         UNCHANGED <<event_in, event_out, descriptors, manager, todo, state,
                     task, result, forwarder, user, forwarding, link, toSfu,
                     fromSfu, sfu, lost>>
  PROVE  LiveInv' /\ \A c \in Tracks : TrackInv(c)'
<1>1. LiveInv'
  BY DEF TracksInv, LiveInv
<1> SUFFICES ASSUME NEW c \in Tracks PROVE TrackInv(c)'
  BY <1>1
<1>2. Unaccepted(c) /\ Stage(c) /\ Order(c) /\ Looked(c) /\ Served(c)
  BY DEF TracksInv, TrackInv
<1>3. Unaccepted(c)' /\ Stage(c)'
  BY <1>2 DEF Unaccepted, Stage, Outbound, Inbound
<1>4. Order(c)' /\ Looked(c)'
  BY <1>2 DEF Order, Looked, Outbound, Inbound
<1>5. Served(c)'
  BY <1>2 DEF Served, Kept, Inbound
<1> QED
  BY <1>3, <1>4, <1>5 DEF TrackInv

\* Every step keeps the invariant; a closed room stays closed.
LEMMA TracksStep ==
  ASSUME ChannelInv, TracksInv, [LocalTracksNext]_localTracksVars
  PROVE  TracksInv'
<1> USE DEF mgrVars, trackVars, userVars, netVars, countVars
<1> SUFFICES ASSUME link' # "closed"
             PROVE  LiveInv' /\ \A c \in Tracks : TrackInv(c)'
  BY DEF TracksInv
<1>0. CASE link = "closed"
  BY <1>0 DEF LocalTracksNext, Progress, ManagerStep, RoomStep, TaskStep,
     ForwarderStep, localTracksVars, PublishTrack, PublishTimeout, Unpublish,
     TryPush, SfuUnpublish, LinkDown, CloseRoom, TaskObserve, TaskFrame,
     TaskEnd, ForwardResult, ForwardCancel, SfuServe, ForwardOut, Deliver,
     Restarted, ForwardStop, OnPublishRequest, OnPublishCancelled,
     OnUnpublishRequest, OnSfuUnpublishResponse, OnSfuPublishResponse,
     RepublishTrack, ShutdownTrack, OnRepublishTracks, RepublishDone,
     OnShutdown, ShutdownJoined, ManagerEnd
<1> SUFFICES ASSUME link # "closed"
             PROVE  LiveInv' /\ \A c \in Tracks : TrackInv(c)'
  BY <1>0
<1> DEFINE Goal == LiveInv' /\ \A c \in Tracks : TrackInv(c)'
<1>1. /\ forwarding /\ manager \in {"running", "republishing"}
      /\ ~Has(event_in, Event("Shutdown", NoTrack))
  BY DEF TracksInv, LiveInv, Global
<1>2. ASSUME NEW c \in Tracks,
             \/ PublishTrack(c) \/ PublishTimeout(c) \/ Unpublish(c)
             \/ TaskStep(c) \/ ForwarderStep(c) \/ SfuUnpublish(c)
      PROVE  Goal
  BY <1>2, PublishTrackStep, PublishTimeoutStep, UnpublishStep,
     TaskObserveStep, TaskFrameStep, TaskEndStep, ForwardResultStep,
     ForwardCancelStep, SfuUnpublishStep, Zenon DEF TaskStep, ForwarderStep
<1>3. ASSUME NEW c \in Tracks,
             \/ OnPublishRequest(c) \/ OnPublishCancelled(c)
             \/ OnUnpublishRequest(c) \/ OnSfuUnpublishResponse(c)
      PROVE  Goal
  BY <1>3, OnPublishRequestStep, OnPublishCancelledStep,
     OnUnpublishRequestStep, OnSfuUnpublishResponseStep, Zenon
<1>4. ASSUME NEW c \in Tracks, NEW ok \in BOOLEAN, OnSfuPublishResponse(c, ok)
      PROVE  Goal
  <2>1. UnknownPublished(c) \/ PendingPublished(c, ok) \/ ActivePublished(c, ok)
    BY <1>4, Zenon DEF OnSfuPublishResponse
  <2> QED
    BY <1>4, <2>1, UnknownPublishedStep, PendingPublishedStep,
       ActivePublishedStep, Zenon
<1>5. ASSUME NEW c \in Tracks, RepublishTrack(c) PROVE Goal
  <2>1. RepublishPending(c) \/ RepublishActive(c)
    BY <1>5, Zenon DEF RepublishTrack
  <2> QED
    BY <1>5, <2>1, RepublishPendingStep, RepublishActiveStep, Zenon
<1>6. ASSUME NEW c \in Tracks, ShutdownTrack(c) PROVE Goal
  BY <1>1, <1>6 DEF ShutdownTrack
<1>7. ASSUME OnRepublishTracks \/ RepublishDone PROVE Goal
  BY <1>7, OnRepublishTracksStep, RepublishDoneStep, Zenon
<1>8. ASSUME OnShutdown PROVE Goal
  <2>1. event_in # <<>> /\ Head(event_in) = Event("Shutdown", NoTrack)
    BY <1>8 DEF OnShutdown, Take
  <2>2. 1 \in 1..Len(event_in) /\ event_in[1] = Event("Shutdown", NoTrack)
    BY <2>1 DEF ChannelInv, QueuesOK
  <2> QED
    BY <1>1, <2>2 DEF Has
<1>9. ASSUME ManagerEnd PROVE Goal
  BY <1>1, <1>9 DEF ManagerEnd
<1>10. ASSUME SfuServe PROVE Goal
  <2>1. \/ /\ Head(toSfu).type = "SfuPublishRequest"
           /\ sfu' # sfu \/ sfu' = sfu
        \/ Head(toSfu).type = "SfuUnpublishRequest"
    BY <1>10 DEF SfuServe
  <2> QED
    BY <1>10, <2>1, SfuAnswerStep, SfuRefuseStep, SfuForgetStep, Zenon
<1>11. ASSUME ForwardOut \/ Deliver \/ Restarted \/ LinkDown PROVE Goal
  BY <1>11, ForwardOutStep, DeliverStep, RestartedStep, LinkDownStep, Zenon
<1>12. ASSUME ForwardStop \/ CloseRoom PROVE Goal
  BY <1>12 DEF ForwardStop, CloseRoom
<1>13. ASSUME NEW c \in Tracks, TryPush(c) PROVE Goal
  BY <1>13, NothingMovesStep DEF TryPush
<1>14. ASSUME ShutdownJoined PROVE Goal
  BY <1>14, NothingMovesStep DEF ShutdownJoined
<1>15. ASSUME UNCHANGED localTracksVars PROVE Goal
  BY <1>15, NothingMovesStep DEF localTracksVars
<1> HIDE DEF Goal
<1>16. Goal
  BY <1>2, <1>3, <1>4, <1>5, <1>6, <1>7, <1>8, <1>9, <1>10, <1>11, <1>12,
     <1>13, <1>14, <1>15, Zenon
     DEF LocalTracksNext, Progress, ManagerStep, RoomStep
<1> QED
  BY <1>16 DEF Goal

-----------------------------------------------------------------------------
LEMMA InitChannels == LocalTracksInit => ChannelInv
BY QueueTypes DEF LocalTracksInit, ChannelInv, QueuesOK, ManagerOK, TracksOK,
   UsersOK, NetOK, PublishStates

\* The type invariant, for any number of tracks and any capacity of the
\* channels: the SFU is sent requests only, and sends answers only.
THEOREM LocalTracksTypes == LocalTracksSpec => []LocalTracksTypeOK
<1>1. LocalTracksInit => ChannelInv
  BY InitChannels
<1>2. ChannelInv /\ [LocalTracksNext]_localTracksVars => ChannelInv'
  BY ChannelStep
<1> QED
  BY <1>1, <1>2, ChannelsTyped, PTL DEF LocalTracksSpec

LEMMA LocalTracksInvariant == LocalTracksSpec => [](ChannelInv /\ TracksInv)
<1>1. LocalTracksInit => ChannelInv
  BY InitChannels
<1>2. LocalTracksInit => TracksInv
  <2> SUFFICES ASSUME LocalTracksInit PROVE TracksInv
    OBVIOUS
  <2>1. LiveInv
    BY EmptyHasNone DEF LocalTracksInit, LiveInv
  <2> SUFFICES ASSUME NEW c \in Tracks PROVE TrackInv(c)
    BY <2>1 DEF TracksInv
  <2>2. Unaccepted(c) /\ Stage(c)
    BY EmptyHasNone DEF LocalTracksInit, Unaccepted, Stage, Outbound, Inbound
  <2>3. Order(c) /\ Looked(c)
    BY EmptyHasNone DEF LocalTracksInit, Order, Looked, Outbound, Inbound
  <2>4. Served(c)
    BY EmptyHasNone DEF LocalTracksInit, Served, Kept, Inbound
  <2> QED
    BY <2>2, <2>3, <2>4 DEF TrackInv
<1>3. ChannelInv /\ TracksInv /\ [LocalTracksNext]_localTracksVars
        => (ChannelInv /\ TracksInv)'
  BY ChannelStep, TracksStep
<1> QED
  BY <1>1, <1>2, <1>3, PTL DEF LocalTracksSpec

\* Whatever is lost, refused, cancelled or repeated: when everything on its
\* way has arrived, a track that the SFU publishes has a running task, or no
\* caller that waits for it, or its answer was lost on a full channel.
THEOREM PublishedHasTask == LocalTracksSpec => []NoOrphan
<1>1. ChannelInv /\ TracksInv => NoOrphan
  <2> SUFFICES ASSUME ChannelInv, TracksInv, Quiet, NEW c \in sfu
               PROVE  \/ task[c] = "running"
                      \/ /\ task[c] = "none"
                         /\ \/ user[c] = "timedout"
                            \/ Event("SfuPublished", c) \in lost
    BY DEF NoOrphan
  <2>1. c \in Tracks /\ link # "closed"
    BY DEF ChannelInv, NetOK, Quiet
  <2>2. /\ event_in = <<>> /\ event_out = <<>>
        /\ toSfu = <<>> /\ fromSfu = <<>>
    BY DEF Quiet
  <2>3. Looked(c)
    BY <2>1, TrackFacts
  <2> QED
    BY <2>2, <2>3, EmptyHasNone DEF Looked, Outbound, Inbound
<1> QED
  BY <1>1, LocalTracksInvariant, PTL

\* And a track that its owner may push frames to is published at the SFU,
\* unless an event was lost on a full channel or the manager has forgotten
\* the track.
THEOREM HeldIsServed == LocalTracksSpec => []PublishedIsServed
<1>1. ChannelInv /\ TracksInv => PublishedIsServed
  <2> SUFFICES ASSUME ChannelInv, TracksInv, Quiet, NEW c \in Tracks,
                      user[c] = "holding", state[c] = "Published"
               PROVE  c \in sfu \/ descriptors[c] = "none" \/ lost # {}
    BY DEF PublishedIsServed
  <2>1. link = "up" /\ manager = "running"
    BY DEF Quiet
  <2>2. /\ event_in = <<>> /\ event_out = <<>>
        /\ toSfu = <<>> /\ fromSfu = <<>>
    BY DEF Quiet
  <2>3. Stage(c) /\ Served(c)
    BY <2>1, TrackFacts
  <2>4. descriptors[c] \in {"none", "pending", "active"}
    BY DEF ChannelInv, ManagerOK
  <2> QED
    BY <2>1, <2>2, <2>3, <2>4, EmptyHasNone DEF Stage, Served, Kept, Inbound
<1> QED
  BY <1>1, LocalTracksInvariant, PTL

-----------------------------------------------------------------------------
\* The task that shutdown() waits for has been told to end and will see it.
JoinedIsTold ==
  joining \in Tracks =>
    /\ manager = "closing"
    /\ \/ task[joining] \in {"ending", "done"}
       \/ /\ task[joining] = "running"
          /\ state[joining] = "Unpublished"
          /\ seen[joining] # "Unpublished"

\* What a task has seen, and who has one, whether or not the room is open.
ToldInv ==
  /\ \A c \in Tracks :
       /\ descriptors[c] = "active" => task[c] # "none"
       /\ task[c] = "running" => seen[c] # "Unpublished"
  /\ joining \in Tracks =>
       /\ manager = "closing"
       /\ \/ task[joining] \in {"ending", "done"}
          \/ task[joining] = "running" /\ state[joining] = "Unpublished"

LEMMA ToldStep ==
  ASSUME ChannelInv, ToldInv, [LocalTracksNext]_localTracksVars
  PROVE  ToldInv'
<1>0. ManagerOK /\ TracksOK /\ NoTrack \notin Tracks
  BY LocalTracksAssumption DEF ChannelInv
<1> USE DEF mgrVars, trackVars, userVars, netVars, countVars
<1>1. ASSUME UNCHANGED <<descriptors, manager, joining, state, task, seen>>
      PROVE  ToldInv'
  BY <1>1 DEF ToldInv
<1>2. ASSUME NEW c \in Tracks, ForwardResult(c) \/ Unpublish(c)
      PROVE  ToldInv'
  BY <1>0, <1>2 DEF ForwardResult, Unpublish, SetState, ToldInv, TracksOK
<1>3. ASSUME NEW c \in Tracks, TaskStep(c)
      PROVE  ToldInv'
  BY <1>0, <1>3 DEF TaskStep, TaskObserve, TaskFrame, TaskEnd, ToldInv, TracksOK
<1>4. ASSUME NEW c \in Tracks,
             \/ OnPublishRequest(c) \/ OnPublishCancelled(c)
             \/ OnUnpublishRequest(c) \/ OnSfuUnpublishResponse(c)
      PROVE  ToldInv'
  BY <1>0, <1>4 DEF OnPublishRequest, OnPublishCancelled, OnUnpublishRequest,
     OnSfuUnpublishResponse, RemoveDescriptor, SetState, Take, ToldInv,
     ManagerOK, TracksOK
<1>5. ASSUME NEW c \in Tracks, NEW ok \in BOOLEAN, OnSfuPublishResponse(c, ok)
      PROVE  ToldInv'
  <2>1. /\ manager = "running" /\ UNCHANGED <<manager, joining>>
        /\ \/ UnknownPublished(c)
           \/ PendingPublished(c, ok)
           \/ ActivePublished(c, ok)
    BY <1>5 DEF OnSfuPublishResponse, Take
  <2>2. joining \notin Tracks
    BY <2>1 DEF ToldInv
  <2>3. CASE UnknownPublished(c)
    BY <2>1, <2>2, <2>3 DEF UnknownPublished, ToldInv
  <2>4. CASE PendingPublished(c, ok)
    BY <1>0, <2>1, <2>2, <2>4 DEF PendingPublished, CreateLocalTrack, ToldInv,
       ManagerOK, TracksOK
  <2>5. CASE ActivePublished(c, ok)
    BY <1>0, <2>1, <2>2, <2>5 DEF ActivePublished, ToldInv, ManagerOK
  <2> QED
    BY <2>1, <2>3, <2>4, <2>5
<1>6. ASSUME OnRepublishTracks \/ OnShutdown \/ RepublishDone PROVE ToldInv'
  BY <1>0, <1>6 DEF OnRepublishTracks, OnShutdown, RepublishDone, Take, ToldInv
<1>7. ASSUME NEW c \in Tracks, RepublishTrack(c) PROVE ToldInv'
  BY <1>0, <1>7 DEF RepublishTrack, RepublishPending, RepublishActive, ToldInv,
     ManagerOK
<1>8. ASSUME NEW c \in Tracks, ShutdownTrack(c) PROVE ToldInv'
  BY <1>0, <1>8 DEF ShutdownTrack, ShutdownPending, ShutdownActive, SetState,
     ToldInv, TracksOK
<1>9. ASSUME ShutdownJoined \/ ManagerEnd PROVE ToldInv'
  BY <1>0, <1>9 DEF ShutdownJoined, ManagerEnd, ToldInv
<1>10. ASSUME NEW c \in Tracks,
              \/ PublishTrack(c) \/ PublishTimeout(c) \/ TryPush(c)
              \/ SfuUnpublish(c) \/ ForwardCancel(c)
       PROVE  ToldInv'
  BY <1>1, <1>10 DEF PublishTrack, PublishTimeout, TryPush, SfuUnpublish,
     ForwardCancel
<1>11. ASSUME \/ RoomStep \/ SfuServe \/ LinkDown \/ CloseRoom
              \/ UNCHANGED localTracksVars
       PROVE  ToldInv'
  BY <1>1, <1>11 DEF RoomStep, ForwardOut, Deliver, Restarted, ForwardStop,
     SfuServe, LinkDown, CloseRoom, localTracksVars
<1> QED
  BY <1>2, <1>3, <1>4, <1>5, <1>6, <1>7, <1>8, <1>9, <1>10, <1>11, Zenon
     DEF LocalTracksNext, Progress, ManagerStep, ForwarderStep

\* While shutdown() waits for a track task, that task has been told that its
\* track is unpublished and has not looked past it: the wait can only be long
\* when event_in has no room for the last request of the task.
THEOREM ShutdownWaitsForTold == LocalTracksSpec => []JoinedIsTold
<1>1. LocalTracksInit => ChannelInv
  BY InitChannels
<1>2. LocalTracksInit => ToldInv
  BY LocalTracksAssumption DEF LocalTracksInit, ToldInv
<1>3. ChannelInv /\ ToldInv /\ [LocalTracksNext]_localTracksVars
        => (ChannelInv /\ ToldInv)'
  BY ChannelStep, ToldStep
<1>4. ToldInv => JoinedIsTold
  BY DEF ToldInv, JoinedIsTold
<1> QED
  BY <1>1, <1>2, <1>3, <1>4, PTL DEF LocalTracksSpec
=============================================================================
