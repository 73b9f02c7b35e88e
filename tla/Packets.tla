------------------------------ MODULE Packets ------------------------------
(***************************************************************************)
(* The packets of one data track: Packetizer (livekit-datatrack/src/local/ *)
(* packetizer.rs) on the publisher, Depacketizer (remote/depacketizer.rs)  *)
(* on a subscriber, and between them a data channel that is unordered and  *)
(* does not retransmit.                                                    *)
(*                                                                         *)
(* Frame f is the f-th one packetized.  A payload is the chunk of a frame  *)
(* it carries, so that a frame put together from the wrong packets shows.  *)
(* The counters of the headers wrap, at FrameSpace and SequenceSpace.      *)
(***************************************************************************)
EXTENDS Naturals, Sequences, FiniteSets, Functions

CONSTANTS
  FrameSpace,     \* 2^16 in the code: values of Header.frame_number
  SequenceSpace,  \* 2^16 in the code: values of Header.sequence
  MaxBuffer,      \* MAX_BUFFER_PACKETS
  Sizes,          \* chunks a frame may have: payload.len().div_ceil(...)
  MaxFrames,      \* frames packetized in all
  MaxRepeats      \* packets the network repeats in all

ASSUME PacketsAssumption ==
  /\ FrameSpace \in Nat \ {0}
  /\ SequenceSpace \in Nat \ {0}
  /\ MaxBuffer \in Nat \ {0}
  /\ Sizes \subseteq 0..SequenceSpace
  /\ MaxFrames \in Nat
  /\ MaxRepeats \in Nat

VARIABLES
  frames,    \* the number of chunks of each frame packetized
  sequence,  \* Packetizer.sequence
  net,       \* packets on their way
  repeats,   \* repeats so far
  partial,   \* Depacketizer.partial: none or one PartialFrame
  delivered, \* history: the frames returned by push
  streak     \* history: the packets of a frame that came in order, on end

packetsVars == <<frames, sequence, net, repeats, partial, delivered, streak>>

Payload(f, i) == [frame |-> f, chunk |-> i]

\* frame_marker.
Marker(i, n) ==
  CASE n <= 1 -> "Single"
    [] n > 1 /\ i = 1 -> "Start"
    [] n > 1 /\ i = n -> "Final"
    [] OTHER -> "Inter"

\* packetize: the packets of frame f, which has n chunks.  A frame without
\* payload uses up a frame number and makes no packet.
FramePackets(f, n, seq) ==
  {[marker |-> Marker(i, n),
    frame_number |-> f % FrameSpace,
    sequence |-> (seq + i - 1) % SequenceSpace,
    payload |-> Payload(f, i)] : i \in 1..n}

Packetize(n) ==
  /\ Len(frames) < MaxFrames
  /\ frames' = Append(frames, n)
  /\ sequence' = (sequence + n) % SequenceSpace
  /\ net' = net \cup FramePackets(Len(frames) + 1, n, sequence)
  /\ UNCHANGED <<repeats, partial, delivered, streak>>

-----------------------------------------------------------------------------
\* The packets that came on end: those of one frame, from its first, in order.
Streak(p) ==
  LET f == p.payload.frame
      i == p.payload.chunk
  IN streak' = IF i = 1 THEN Payload(f, 1)
               ELSE IF streak = Payload(f, i - 1) THEN Payload(f, i)
               ELSE Payload(0, 0)

\* What push returns: the payloads, and the frame that was begun.
Frame(f, s) == [begun |-> f, payload |-> s]

\* payloads.insert
Insert(payloads, s, x) ==
  [t \in DOMAIN payloads \cup {s} |-> IF t = s THEN x ELSE payloads[t]]

\* begun is no field of the code: the frame that the first packet belonged to.
PartialFrame(p) ==
  [begun |-> p.payload.frame,
   frame_number |-> p.frame_number, start_sequence |-> p.sequence,
   payloads |-> [s \in {p.sequence} |-> p.payload]]

\* frame_from_single: a frame under way is interrupted.
FrameFromSingle(p) ==
  /\ p.marker = "Single"
  /\ partial' = {}
  /\ delivered' = delivered \cup {Frame(p.payload.frame, <<p.payload>>)}

\* A broken variant of BeginPartial: the frame under way is kept.
BeginPartialUnlessUnderWay(p) ==
  /\ p.marker = "Start"
  /\ partial' = IF partial = {} THEN {PartialFrame(p)} ELSE partial
  /\ UNCHANGED delivered

\* begin_partial: a frame under way is interrupted.
BeginPartial(p) ==
  /\ p.marker = "Start"
  /\ partial' = {PartialFrame(p)}
  /\ UNCHANGED delivered

\* The sequence numbers that finalize visits, from the first to the last.
Span(first, last) ==
  [i \in 1..(((last + SequenceSpace - first) % SequenceSpace) + 1) |->
     (first + i - 1) % SequenceSpace]

\* A broken variant of Finalize: chunks that are missing are passed over.
FinalizeAnyway(d, last) ==
  LET span == Span(d.start_sequence, last)
      have == {i \in DOMAIN span : span[i] \in DOMAIN d.payloads}
  IN delivered' = delivered \cup
       {Frame(d.begun, [k \in 1..Cardinality(have) |->
          d.payloads[span[CHOOSE i \in have :
            Cardinality({j \in have : j < i}) = k - 1]]])}

\* finalize: the payloads from the first sequence number to the last, unless
\* one is missing.
Finalize(d, last) ==
  LET span == Span(d.start_sequence, last)
  IN delivered' =
       IF Range(span) \subseteq DOMAIN d.payloads
       THEN delivered \cup
              {Frame(d.begun, [i \in DOMAIN span |-> d.payloads[span[i]]])}
       ELSE delivered

\* push_to_partial: the packet joins the frame under way, if it is its own.
PushToPartial(p) ==
  /\ p.marker \in {"Inter", "Final"}
  /\ \/ /\ \A d \in partial : \/ d.frame_number # p.frame_number
                              \/ Cardinality(DOMAIN d.payloads) >= MaxBuffer
        /\ partial' = {}
        /\ UNCHANGED delivered
     \/ \E d \in partial :
          /\ d.frame_number = p.frame_number
          /\ Cardinality(DOMAIN d.payloads) < MaxBuffer
          /\ LET e == [d EXCEPT !.payloads = Insert(@, p.sequence, p.payload)]
             IN \/ /\ p.marker = "Final"
                   /\ partial' = {}
                   /\ Finalize(e, p.sequence)
                \/ /\ p.marker = "Inter"
                   /\ partial' = {e}
                   /\ UNCHANGED delivered

\* push, for any packet on its way: the network reorders.  It may also repeat
\* a packet, for which the code makes provision.
Push(p) ==
  /\ \/ /\ net' = net \ {p}
        /\ UNCHANGED repeats
     \/ /\ repeats < MaxRepeats
        /\ repeats' = repeats + 1
        /\ UNCHANGED net
  /\ Streak(p)
  /\ FrameFromSingle(p) \/ BeginPartial(p) \/ PushToPartial(p)
  /\ UNCHANGED <<frames, sequence>>

\* A packet is lost, or dropped by a queue of the sender.
Lose(p) ==
  /\ net' = net \ {p}
  /\ UNCHANGED <<frames, sequence, repeats, partial, delivered, streak>>

-----------------------------------------------------------------------------
PacketsInit ==
  /\ frames = <<>>
  /\ sequence = 0
  /\ net = {}
  /\ repeats = 0
  /\ partial = {}
  /\ delivered = {}
  /\ streak = Payload(0, 0)

PacketsNext ==
  \/ \E n \in Sizes : Packetize(n)
  \/ \E p \in net : Push(p) \/ Lose(p)

PacketsSpec == PacketsInit /\ [][PacketsNext]_packetsVars

-----------------------------------------------------------------------------
Payloads == [frame : 0..MaxFrames, chunk : 0..SequenceSpace]
PartialFrames ==
  [begun : 1..MaxFrames,
   frame_number : 0..(FrameSpace - 1),
   start_sequence : 0..(SequenceSpace - 1),
   payloads : UNION {[S -> Payloads] : S \in SUBSET (0..(SequenceSpace - 1))}]

PacketsTypeOK ==
  /\ frames \in Seq(Sizes)
  /\ Len(frames) <= MaxFrames
  /\ sequence \in 0..(SequenceSpace - 1)
  /\ net \subseteq UNION {FramePackets(f, frames[f], s) :
                              f \in DOMAIN frames, s \in 0..(SequenceSpace - 1)}
  /\ repeats \in 0..MaxRepeats
  /\ Cardinality(partial) <= 1
  /\ partial \subseteq PartialFrames
  /\ delivered \subseteq [begun : 1..MaxFrames, payload : Seq(Payloads)]
  /\ streak \in Payloads

\* Frame f as its publisher sent it.
Whole(f) == [i \in 1..frames[f] |-> Payload(f, i)]

\* A frame that a reader gets is one that was published, with all its chunks
\* in their order and no other, whatever the network lost, reordered or
\* repeated; only packets FrameSpace frames apart may be taken for one frame.
FramesWhole ==
  \A d \in delivered :
    \/ d.payload = Whole(d.begun)
    \/ \E p \in Range(d.payload) : /\ p.frame # d.begun
                                   /\ (p.frame % FrameSpace) = (d.begun % FrameSpace)

\* A frame whose packets arrive in order, none of another frame or a repeated
\* one between them, is delivered, whatever state the frames before it have
\* left behind; unless it has more packets than the buffer takes.
CleanFrameDelivered ==
  streak.frame # 0 /\ streak.chunk = frames[streak.frame] =>
    \/ Frame(streak.frame, Whole(streak.frame)) \in delivered
    \/ streak.chunk > MaxBuffer
=============================================================================
