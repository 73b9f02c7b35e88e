---------------------------- MODULE DataStreams ----------------------------
(***************************************************************************)
(* One data stream, from its writer to its reader: RawStream and the       *)
(* manager of livekit/src/room/data_stream/outgoing.rs,                    *)
(* outgoing_data_stream_task of room/mod.rs, and IncomingStreamManager of  *)
(* data_stream/incoming.rs in another participant's room.                  *)
(*                                                                         *)
(* Calls on a writer and its clones hold one mutex, so there is one at a   *)
(* time.  Each queues a packet for the task, which publishes one packet    *)
(* after the other and answers.  A call is a future: its caller may drop   *)
(* it while the packet is queued or being published.                       *)
(*                                                                         *)
(* The reliable channel is used as ReliableChannel describes it: in order, *)
(* a packet whose send failed may be kept for a retry, and a resume sends  *)
(* again a tail of what was attempted, behind what is still on its way.    *)
(* publish_data answers when a packet is handed to the data channel: when  *)
(* the session of the sender or of the reader is replaced by a new one (a  *)
(* full restart), packets answered with Ok are lost, and streams go on.    *)
(*                                                                         *)
(* Data abstraction: a chunk is the number of the write that made it and   *)
(* one byte long; encryption types match; headers are valid.               *)
(***************************************************************************)
EXTENDS Naturals, Sequences, FiniteSets

CONSTANTS
  Totals,     \* total_length of the header; NoTotal if it has none
  NoTotal,    \* None
  MaxWrites,  \* writes in all
  MaxTroubles,\* failed sends, dropped calls, resumes, restarts and the close
              \* of the sender's room in all
  MayDropReader \* whether the application may drop the reader

ASSUME DataStreamsAssumption ==
  /\ NoTotal \notin Nat
  /\ Totals \subseteq Nat \cup {NoTotal}
  /\ MaxWrites \in Nat
  /\ MaxTroubles \in Nat
  /\ MayDropReader \in BOOLEAN

VARIABLES
  writer,      \* RawStream: "none", "open", or "gone"
  call,        \* the call in progress
  chunk_index, \* RawStream.progress.chunk_index
  is_closed,   \* RawStream.is_closed
  requests,    \* packet_rx and, per packet, whether its sender waits
  answer,      \* the response to the call in progress
  pump,        \* outgoing_data_stream_task has not ended
  sent,        \* history: the packets tried on the channel
  net,         \* positions in sent on their way to the reader's room
  seen,        \* the last position the server has received
  resumes,     \* resumes so far
  restarts,    \* full restarts so far
  lost,        \* history: the packets that were on their way in a restart
  open_stream, \* the stream is in open_streams
  progress,    \* Descriptor.progress
  reader,      \* how the stream stands for its reader
  read,        \* the writes it has read
  opened,      \* streams given to the application
  writes,      \* writes begun
  acked,       \* history: writes that returned Ok, no close before them
  failures,    \* errors of publish_data so far
  cancels,     \* calls dropped so far
  untold       \* history: no trailer was sent, or its send failed

writerVars == <<writer, chunk_index, is_closed>>
callVars == <<call, requests, answer, pump>>
netVars == <<sent, net, seen, resumes, restarts, lost>>
readerVars == <<open_stream, progress, reader, read, opened>>
history == <<writes, acked, failures, cancels, untold>>
streamsVars == <<writerVars, callVars, netVars, readerVars, history>>

\* Another failure, dropped call, resume, restart or close may happen.
MoreTrouble ==
  failures + cancels + resumes + restarts + (IF pump THEN 0 ELSE 1)
    < MaxTroubles

Header(total) == [type |-> "header", total |-> total]
Chunk(index, write) == [type |-> "chunk", index |-> index, write |-> write]
Trailer(abnormal) == [type |-> "trailer", abnormal |-> abnormal]

-----------------------------------------------------------------------------
(***************************************************************************)
(* The writer                                                              *)
(***************************************************************************)

\* packet_tx.send_receive, up to the wait for the response.
SendReceive(op, packet) ==
  /\ call = "none"
  /\ call' = op
  /\ \/ /\ pump
        /\ requests' = Append(requests, [packet |-> packet, waits |-> TRUE])
        /\ UNCHANGED answer
     \/ /\ ~pump
        /\ answer' = "error"
        /\ UNCHANGED requests

Open(total) ==
  /\ writer = "none"
  /\ SendReceive("open", Header(total))
  /\ UNCHANGED <<writerVars, pump, netVars, readerVars, history>>

\* write_chunk does not look at is_closed.
WriteChunk ==
  /\ writer = "open"
  /\ writes < MaxWrites
  /\ writes' = writes + 1
  /\ SendReceive("write", Chunk(chunk_index, writes'))
  /\ UNCHANGED <<writerVars, pump, netVars, readerVars, acked, failures,
                 cancels, untold>>

\* close and close_with_reason; on a closed stream they return AlreadyClosed.
Close(abnormal) ==
  /\ writer = "open"
  /\ ~is_closed
  /\ SendReceive("close", Trailer(abnormal))
  /\ UNCHANGED <<writerVars, pump, netVars, readerVars, history>>

\* RawStream::open returns: without a header sent there is no RawStream.
Opened ==
  /\ call = "open"
  /\ writer' = IF answer = "ok" THEN "open" ELSE "gone"
  /\ untold' = (answer # "ok")
  /\ UNCHANGED <<chunk_index, is_closed, acked>>

\* A close came before the write that returns now.
TrailerTried == \E i \in DOMAIN sent : sent[i].type = "trailer"

\* write_chunk returns.
Written ==
  /\ call = "write"
  /\ IF answer = "ok"
     THEN /\ chunk_index' = chunk_index + 1
          /\ acked' = IF TrailerTried THEN acked ELSE acked \cup {writes}
     ELSE UNCHANGED <<chunk_index, acked>>
  /\ UNCHANGED <<writer, is_closed, untold>>

\* RawStream::close returns.
Closed ==
  /\ call = "close"
  /\ is_closed' = (answer = "ok")
  /\ UNCHANGED <<writer, chunk_index, acked, untold>>

CallReturns ==
  /\ answer # "none"
  /\ Opened \/ Written \/ Closed
  /\ call' = "none"
  /\ answer' = "none"
  /\ UNCHANGED <<requests, pump, netVars, readerVars, writes, failures,
                 cancels>>

\* The caller drops the future: the packet stays where it is.
Cancel ==
  /\ MoreTrouble
  /\ call # "none"
  /\ writer' = IF call = "open" THEN "gone" ELSE writer
  /\ untold' = (untold \/ call = "open")
  /\ call' = "none"
  /\ answer' = "none"
  /\ requests' = [i \in DOMAIN requests |->
                    [requests[i] EXCEPT !.waits = FALSE]]
  /\ cancels' = cancels + 1
  /\ UNCHANGED <<chunk_index, is_closed, pump, netVars, readerVars, writes,
                 acked, failures>>

\* A broken variant of LastTrailer: the stream is left open.
LastTrailerForgotten == UNCHANGED <<requests, untold>>

\* RawStream::drop sends a trailer, without a reason, for a stream that is not
\* closed; on a thread without a runtime it is skipped.
LastTrailer ==
  \/ /\ is_closed \/ ~pump
     /\ UNCHANGED <<requests, untold>>
  \/ /\ ~is_closed /\ pump
     /\ requests' = Append(requests,
                           [packet |-> Trailer(FALSE), waits |-> FALSE])
     /\ untold' = FALSE
  \/ /\ ~is_closed
     /\ untold' = TRUE
     /\ UNCHANGED requests

\* The last clone of the writer is dropped.
DropWriter ==
  /\ writer = "open"
  /\ call = "none"
  /\ writer' = "gone"
  /\ LastTrailer
  /\ UNCHANGED <<chunk_index, is_closed, call, answer, pump, netVars,
                 readerVars, writes, acked, failures, cancels>>

-----------------------------------------------------------------------------
(***************************************************************************)
(* outgoing_data_stream_task and the channel                               *)
(***************************************************************************)

\* publish_data: the packet is sent, or fails and is kept for a retry, or
\* fails before it reaches the channel.
Publish ==
  /\ pump
  /\ requests # <<>>
  /\ requests' = Tail(requests)
  /\ LET r == Head(requests)
     IN \/ /\ sent' = Append(sent, r.packet)
           /\ net' = Append(net, Len(sent'))
           /\ UNCHANGED <<failures, untold>>
           /\ answer' = IF r.waits THEN "ok" ELSE answer
        \/ /\ MoreTrouble
           /\ failures' = failures + 1
           /\ \/ sent' = Append(sent, r.packet)
              \/ UNCHANGED sent
           /\ answer' = IF r.waits THEN "error" ELSE answer
           /\ untold' = (untold \/ r.packet.type = "trailer")
           /\ UNCHANGED net
  /\ UNCHANGED <<writerVars, call, pump, seen, resumes, restarts, lost,
                 readerVars, writes, acked, cancels>>

\* The task receives from close_rx: whoever waits for it gets an error.
PumpEnds ==
  /\ MoreTrouble
  /\ pump
  /\ pump' = FALSE
  /\ requests' = <<>>
  /\ answer' = IF \E i \in DOMAIN requests : requests[i].waits THEN "error"
               ELSE answer
  /\ UNCHANGED <<writerVars, call, netVars, readerVars, history>>

\* The server lacks what follows seen; the retry queue holds a tail.
ResumeSession ==
  /\ pump
  /\ MoreTrouble
  /\ resumes' = resumes + 1
  /\ \E k \in seen..Len(sent) :
       net' = net \o [i \in 1..(Len(sent) - k) |-> k + i]
  /\ UNCHANGED <<writerVars, callVars, sent, seen, restarts, lost, readerVars,
                 history>>

\* A full restart loses the packets at i + 1 to j of what is on its way.
Lose(i, j) ==
  /\ MoreTrouble
  /\ restarts' = restarts + 1
  /\ net' = SubSeq(net, 1, i) \o SubSeq(net, j + 1, Len(net))
  /\ lost' = lost \cup {sent[net[x]] : x \in (i + 1)..j}
  /\ UNCHANGED <<writerVars, callVars, sent, resumes, readerVars, history>>

\* The sender's session is replaced: what its data channel still buffers is
\* lost, and the new session has nothing to send again.
RestartSender ==
  /\ pump
  /\ \E i \in 0..Len(net) : Lose(i, Len(net))
  /\ seen' = Len(sent)

\* The reader's session is replaced: it misses what the server, which has
\* received it, forwards meanwhile.
RestartReader ==
  \E i \in 0..Len(net) : \E j \in i..Len(net) :
    /\ Lose(i, j)
    /\ seen' \in {seen} \cup {net[x] : x \in (i + 1)..j}
    /\ seen <= seen' /\ \A x \in (i + 1)..j : net[x] <= seen'

-----------------------------------------------------------------------------
(***************************************************************************)
(* The reader's room                                                       *)
(***************************************************************************)

\* close_stream and close_stream_with_error.
CloseStream(result) ==
  /\ open_stream' = FALSE
  /\ reader' = IF reader = "reading" THEN result ELSE reader

HandleHeader(p) ==
  /\ p.type = "header"
  /\ \/ /\ open_stream
        /\ UNCHANGED readerVars
     \/ /\ ~open_stream
        /\ open_stream' = TRUE
        /\ progress' = [index |-> 0, bytes |-> 0, total |-> p.total]
        /\ reader' = "reading"
        /\ read' = <<>>
        /\ opened' = opened + 1

\* A broken variant of IsNext: any chunk will do.
IsNextAlways(p) == TRUE

\* chunk_index is the one expected.
IsNext(p) == p.index = progress.index

\* A broken variant of IsShort: the length is not looked at.
IsShortNever == FALSE

\* Fewer bytes than announced.
IsShort == progress.total # NoTotal /\ progress.bytes < progress.total

HandleChunk(p) ==
  /\ p.type = "chunk"
  /\ \/ /\ ~open_stream
        /\ UNCHANGED readerVars
     \/ /\ open_stream
        /\ ~IsNext(p)
        /\ CloseStream("missed")
        /\ UNCHANGED <<progress, read, opened>>
     \/ /\ open_stream
        /\ IsNext(p)
        /\ progress' = [progress EXCEPT !.index = @ + 1, !.bytes = @ + 1]
        /\ IF progress.total # NoTotal /\ progress'.bytes > progress.total
           THEN CloseStream("exceeded") /\ UNCHANGED read
           ELSE IF reader = "reading"
                THEN /\ read' = Append(read, p.write)
                     /\ UNCHANGED <<open_stream, reader>>
                ELSE CloseStream("dropped") /\ UNCHANGED read
        /\ UNCHANGED opened

HandleTrailer(p) ==
  /\ p.type = "trailer"
  /\ \/ /\ ~open_stream
        /\ UNCHANGED <<open_stream, reader>>
     \/ /\ open_stream
        /\ CloseStream(IF IsShort THEN "incomplete"
                       ELSE IF p.abnormal THEN "abnormal" ELSE "complete")
  /\ UNCHANGED <<progress, read, opened>>

\* handle_data_stream_header, _chunk or _trailer, for whatever arrives.
ReceivePacket ==
  /\ net # <<>>
  /\ net' = Tail(net)
  /\ seen' = IF Head(net) > seen THEN Head(net) ELSE seen
  /\ LET p == sent[Head(net)]
     IN HandleHeader(p) \/ HandleChunk(p) \/ HandleTrailer(p)
  /\ UNCHANGED <<writerVars, callVars, sent, resumes, restarts, lost, history>>

DropReader ==
  /\ MayDropReader
  /\ reader = "reading"
  /\ reader' = "dropped"
  /\ UNCHANGED <<writerVars, callVars, netVars, open_stream, progress, read,
                 opened, history>>

-----------------------------------------------------------------------------
StreamsInit ==
  /\ writer = "none"
  /\ call = "none"
  /\ chunk_index = 0
  /\ is_closed = FALSE
  /\ requests = <<>>
  /\ answer = "none"
  /\ pump = TRUE
  /\ sent = <<>>
  /\ net = <<>>
  /\ seen = 0
  /\ resumes = 0
  /\ restarts = 0
  /\ lost = {}
  /\ open_stream = FALSE
  /\ progress = [index |-> 0, bytes |-> 0, total |-> NoTotal]
  /\ reader = "none"
  /\ read = <<>>
  /\ opened = 0
  /\ writes = 0
  /\ acked = {}
  /\ failures = 0
  /\ cancels = 0
  /\ untold = FALSE

\* The task runs, packets arrive, answered calls return.
StreamsProgress == Publish \/ ReceivePacket \/ CallReturns

StreamsNext ==
  \/ StreamsProgress
  \/ \E total \in Totals : Open(total)
  \/ WriteChunk
  \/ \E abnormal \in BOOLEAN : Close(abnormal)
  \/ Cancel
  \/ DropWriter
  \/ PumpEnds
  \/ ResumeSession
  \/ RestartSender
  \/ RestartReader
  \/ DropReader

StreamsSpec == StreamsInit /\ [][StreamsNext]_streamsVars

\* Tasks that can go on are polled; the channel delivers.
StreamsFairness == WF_streamsVars(StreamsProgress)

StreamsFairSpec == StreamsSpec /\ StreamsFairness

-----------------------------------------------------------------------------
Packets ==
  [type : {"header"}, total : Totals]
    \cup [type : {"chunk"}, index : Nat, write : 1..MaxWrites]
    \cup [type : {"trailer"}, abnormal : BOOLEAN]

StreamsTypeOK ==
  /\ writer \in {"none", "open", "gone"}
  /\ call \in {"none", "open", "write", "close"}
  /\ chunk_index \in Nat
  /\ is_closed \in BOOLEAN
  /\ requests \in Seq([packet : Packets, waits : BOOLEAN])
  /\ answer \in {"none", "ok", "error"}
  /\ pump \in BOOLEAN
  /\ sent \in Seq(Packets)
  /\ net \in Seq(1..Len(sent))
  /\ seen \in 0..Len(sent)
  /\ resumes \in Nat
  /\ restarts \in Nat
  /\ lost \subseteq Packets
  /\ open_stream \in BOOLEAN
  /\ progress \in [index : Nat, bytes : Nat, total : Nat \cup {NoTotal}]
  /\ reader \in {"none", "reading", "dropped", "complete", "missed",
                 "exceeded", "incomplete", "abnormal"}
  /\ read \in Seq(1..MaxWrites)
  /\ opened \in Nat
  /\ writes \in 0..MaxWrites
  /\ acked \subseteq 1..MaxWrites
  /\ failures \in Nat
  /\ cancels \in Nat
  /\ untold \in BOOLEAN

\* What the reader was given, and the writes whose chunk a restart lost.
Given == {read[i] : i \in DOMAIN read}
LostOnTheWay(w) == \E p \in lost : p.type = "chunk" /\ p.write = w

\* Whatever becomes of the stream, what its reader has been given is in order
\* and without repetition, although calls fail or are dropped and packets are
\* sent again or lost; it has no hole: a write that succeeded before one that
\* was given has been given too, unless a restart lost its packet, and not even
\* then as long as every write before the last has succeeded.
ReadsInOrder ==
  /\ \A i, j \in DOMAIN read : i < j => read[i] < read[j]
  /\ \A w \in acked : (\E v \in Given : w < v) => w \in Given \/ LostOnTheWay(w)
  /\ 1..(writes - 1) \subseteq acked => \A i \in DOMAIN read : read[i] = i

\* A stream that ends without an error has been read to its end: every write
\* that succeeded before any close, unless a restart lost its packet, and as
\* many as the header announced, whatever was lost.
CompleteIsExact ==
  reader = "complete" =>
    /\ \A w \in acked : w \in Given \/ LostOnTheWay(w)
    /\ progress.total # NoTotal => Len(read) = progress.total

\* Only a call that was dropped half-way, packets sent again after a resume or
\* a full restart can make the reader miss a chunk or be given the stream
\* twice; a failed write does neither.
MissedOnlyIfDisturbed ==
  reader = "missed" \/ opened > 1 => cancels > 0 \/ resumes > 0 \/ restarts > 0

\* The reader of a stream does not wait for ever once its writer is gone,
\* unless no trailer reaches it: its send failed, or was skipped as the writer
\* was dropped without a runtime, open() was dropped half-way or failed, a
\* restart lost the trailer, or the sender closed its room.
StreamEnds ==
  (writer = "gone" /\ open_stream) ~>
    (~open_stream \/ ~pump \/ untold \/ \E p \in lost : p.type = "trailer")
=============================================================================
