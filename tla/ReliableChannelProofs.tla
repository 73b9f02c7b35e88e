------------------------- MODULE ReliableChannelProofs -------------------------
(***************************************************************************)
(* Theorems about ReliableChannel, for any number of calls and resumes,    *)
(* packets of any size and any threshold, with failing sends and a closing *)
(* session included.                                                       *)
(*                                                                         *)
(* A packet is on its way in four stages: called (its PublishPacket is in  *)
(* dc_events), announced (its PublishData is), queued (in request_queue)   *)
(* and tried (attempts).  OrderInv says that every stage is ahead of the   *)
(* next one and in order; a packet that is sent again is of the last.      *)
(***************************************************************************)
EXTENDS ReliableChannel, FiniteSetTheorems, TLAPS

-----------------------------------------------------------------------------
(***************************************************************************)
(* The inductive invariants                                                *)
(***************************************************************************)

\* The positions of q that hold an element of S, and what stands there.
Places(q, S) == {i \in 1..Len(q) : q[i] \in S}
IdsIn(q, S) == {q[i].id : i \in Places(q, S)}
EventIds(q, S) == {q[i].packet.id : i \in Places(q, S)}

\* The elements of S stand in q by ascending, or just with distinct, ids.
Ascending(q, S) ==
  \A i, j \in Places(q, S) : i < j => q[i].id < q[j].id
EventsAscending(q, S) ==
  \A i, j \in Places(q, S) : i < j => q[i].packet.id < q[j].packet.id
Distinct(q, S) ==
  \A i, j \in Places(q, S) : i < j => q[i].id # q[j].id
EventsDistinct(q, S) ==
  \A i, j \in Places(q, S) : i < j => q[i].packet.id # q[j].packet.id

Below(S, T) == \A x \in S, y \in T : x < y

\* Packets on their first and on a later way through the queues.
Fresh == {p \in Packet : p.waited}
Old == {p \in Packet : ~p.waited}

\* Packets whose number is that of their call.
Numbered == {p \in Packet : p.sequence = p.id}

EventsOf(detail, kind, S) ==
  {e \in Event : e.detail = detail /\ e.kind = kind /\ e.packet \in S}

Called(kind) == EventIds(dc_events, EventsOf("PublishPacket", kind, Fresh))
Announced(kind) == EventIds(dc_events, EventsOf("PublishData", kind, Fresh))
Queuing(kind) == IdsIn(request_queue[kind], Fresh)
Tried(kind) ==
  UNION {IdsIn(attempts[kind], Packet),
         IdsIn(request_queue[kind], Old),
         EventIds(dc_events, EventsOf("PublishData", kind, Old)),
         IF kind = "reliable" THEN IdsIn(retry_queue, Packet) ELSE {}}

\* The events that are ever sent.
GoodEvents ==
  {e \in Event :
     \/ e.detail = "PublishPacket" /\ e.packet \in Fresh
     \/ /\ e.detail = "PublishData"
        /\ e.packet \in Packet
        /\ e.kind = "reliable" => e.packet \in Numbered
     \/ e.detail \in {"BufferedAmountChange", "RetryFrom"}}

\* n is the number of bytes of the packets of q: left is what remains from
\* each position on.
Sized(q, n) ==
  \E left \in [1..(Len(q) + 1) -> Nat] :
    /\ left[1] = n
    /\ \A i \in 1..Len(q) : left[i] = Size(q[i]) + left[i + 1]
    /\ left[Len(q) + 1] = 0

TypeInv ==
  /\ TypeOK
  /\ published["lossy"] + published["reliable"] <= MaxCalls
  /\ dc_events \in Seq(GoodEvents)
  /\ Sized(retry_queue, buffered_size)
  /\ pc = "done" => dc_events = <<>>

\* The numbers of reliable packets, also of those sent again.
NumberInv ==
  /\ request_queue["reliable"] \in Seq(Numbered)
  /\ attempts["reliable"] \in Seq(Numbered)
  /\ retry_queue \in Seq(Numbered)
  /\ retry_queue \in Seq(Old)

\* Four sets of calls among the first n, each before the next.
Staged(T, Q, A, C, n) ==
  /\ Below(T, Q) /\ Below(T, A) /\ Below(T, C)
  /\ Below(Q, A) /\ Below(Q, C)
  /\ Below(A, C)
  /\ UNION {T, Q, A, C} \subseteq 1..n

\* The stages of a kind.
StageInv(kind) ==
  /\ Staged(Tried(kind), Queuing(kind), Announced(kind), Called(kind),
            published[kind])
  /\ Ascending(request_queue[kind], Fresh)
  /\ EventsAscending(dc_events, EventsOf("PublishData", kind, Fresh))
  /\ EventsAscending(dc_events, EventsOf("PublishPacket", kind, Fresh))

\* The calls that have no number yet are those whose turn is still to come.
CalledInv ==
  /\ next_packet_sequence \in 1..(published["reliable"] + 1)
  /\ pc # "done" =>
       Called("reliable") = next_packet_sequence..published["reliable"]

\* A first attempt comes after everything tried before it.
AttemptsInv ==
  \A kind \in Kinds :
    \A j \in Places(attempts[kind], Fresh) :
      \A i \in 1..(j - 1) : attempts[kind][i].id < attempts[kind][j].id

OrderInv ==
  /\ NumberInv
  /\ \A kind \in Kinds : StageInv(kind)
  /\ CalledInv
  /\ AttemptsInv

\* A packet is in one place at a time.
Coming ==
  EventIds(dc_events, EventsOf("PublishData", "reliable", Packet))
Sending == IdsIn(request_queue["reliable"], Packet)
Kept == IdsIn(retry_queue, Packet)

PlaceInv ==
  /\ Coming \cap Sending = {}
  /\ Coming \cap Kept = {}
  /\ Sending \cap Kept = {}
  /\ EventsDistinct(dc_events, EventsOf("PublishData", "reliable", Packet))
  /\ Distinct(request_queue["reliable"], Packet)
  /\ Distinct(retry_queue, Packet)

\* The elements of q that are in S, counted.
Count(q, S) == Cardinality(Places(q, S))

OneIf(c) == IF c THEN 1 ELSE 0

CopiesOf(n) == {p \in Packet : p.id = n}
AsksFor(n) == {e \in Event : e.detail = "RetryFrom" /\ e.amount < n}

\* Every attempt and every chance of another is paid for by the call or by a
\* resume that asks for the packet.
CountInv ==
  \A n \in Ids :
    Count(attempts["reliable"], CopiesOf(n))
      + OneIf(n \in Coming \cup Sending)
      + Count(dc_events, AsksFor(n))
      + OneIf(pc = "retry" /\ target < n /\ n \in Kept)
    <= OneIf(n < next_packet_sequence) + Count(resumed, 0..(n - 1))

RepeatInv == PlaceInv /\ CountInv
-----------------------------------------------------------------------------
(***************************************************************************)
(* Sequences that grow at their end and shrink at their head               *)
(***************************************************************************)

LEMMA PlacesGrow ==
  ASSUME NEW T, NEW q \in Seq(T), NEW x \in T, NEW S
  PROVE  /\ Places(Append(q, x), S) =
              Places(q, S) \cup (IF x \in S THEN {Len(q) + 1} ELSE {})
         /\ \A i \in 1..Len(q) : Append(q, x)[i] = q[i]
         /\ Append(q, x)[Len(q) + 1] = x
         /\ Places(q, S) \subseteq 1..Len(q)
         /\ Len(q) \in Nat
BY DEF Places

LEMMA PlacesShrink ==
  ASSUME NEW T, NEW q \in Seq(T), q # <<>>, NEW S
  PROVE  /\ \A i : i \in Places(Tail(q), S) <=>
                     i \in 1..(Len(q) - 1) /\ i + 1 \in Places(q, S)
         /\ \A i \in 1..(Len(q) - 1) : Tail(q)[i] = q[i + 1]
         /\ 1 \in Places(q, S) <=> Head(q) \in S
         /\ Head(q) = q[1]
         /\ \A i \in Places(q, S) : i \in Nat /\ (i = 1 \/ i - 1 \in 1..(Len(q) - 1))
         /\ Len(q) \in Nat
BY DEF Places

LEMMA IdsGrow ==
  ASSUME NEW T, NEW q \in Seq(T), NEW x \in T, NEW S
  PROVE  IdsIn(Append(q, x), S) =
           IdsIn(q, S) \cup (IF x \in S THEN {x.id} ELSE {})
<1>1. \A i \in Places(q, S) : Append(q, x)[i].id = q[i].id
  BY PlacesGrow
<1>2. Append(q, x)[Len(q) + 1].id = x.id
  BY PlacesGrow
<1>3. Places(Append(q, x), S) =
        Places(q, S) \cup (IF x \in S THEN {Len(q) + 1} ELSE {})
  BY PlacesGrow
<1> QED  BY <1>1, <1>2, <1>3 DEF IdsIn

LEMMA EventIdsGrow ==
  ASSUME NEW T, NEW q \in Seq(T), NEW x \in T, NEW S
  PROVE  EventIds(Append(q, x), S) =
           EventIds(q, S) \cup (IF x \in S THEN {x.packet.id} ELSE {})
<1>1. \A i \in Places(q, S) : Append(q, x)[i].packet.id = q[i].packet.id
  BY PlacesGrow
<1>2. Append(q, x)[Len(q) + 1].packet.id = x.packet.id
  BY PlacesGrow
<1>3. Places(Append(q, x), S) =
        Places(q, S) \cup (IF x \in S THEN {Len(q) + 1} ELSE {})
  BY PlacesGrow
<1> QED  BY <1>1, <1>2, <1>3 DEF EventIds

LEMMA IdsShrink ==
  ASSUME NEW T, NEW q \in Seq(T), q # <<>>, NEW S
  PROVE  IdsIn(q, S) =
           IdsIn(Tail(q), S) \cup (IF Head(q) \in S THEN {Head(q).id} ELSE {})
<1>1. ASSUME NEW i \in Places(q, S), i # 1
      PROVE  i - 1 \in Places(Tail(q), S) /\ Tail(q)[i - 1].id = q[i].id
  <2>1. i \in Nat /\ i - 1 \in 1..(Len(q) - 1)
    BY <1>1, PlacesShrink
  <2>2. (i - 1) + 1 = i
    BY <2>1
  <2> QED  BY <1>1, <2>1, <2>2, PlacesShrink
<1>2. ASSUME NEW i \in Places(Tail(q), S)
      PROVE  i + 1 \in Places(q, S) /\ Tail(q)[i].id = q[i + 1].id
  BY PlacesShrink
<1>3. 1 \in Places(q, S) <=> Head(q) \in S
  BY PlacesShrink
<1>4. Head(q) = q[1]
  BY PlacesShrink
<1>5. ASSUME NEW v \in IdsIn(q, S), v \notin IdsIn(Tail(q), S)
      PROVE  Head(q) \in S /\ v = Head(q).id
  <2>1. PICK i \in Places(q, S) : v = q[i].id
    BY <1>5 DEF IdsIn
  <2>2. i = 1
    BY <1>1, <1>5, <2>1 DEF IdsIn
  <2> QED  BY <1>3, <1>4, <2>1, <2>2
<1>6. IdsIn(Tail(q), S) \subseteq IdsIn(q, S)
  BY <1>2 DEF IdsIn
<1>7. Head(q) \in S => Head(q).id \in IdsIn(q, S)
  BY <1>3, <1>4 DEF IdsIn
<1> QED  BY <1>5, <1>6, <1>7

LEMMA EventIdsShrink ==
  ASSUME NEW T, NEW q \in Seq(T), q # <<>>, NEW S
  PROVE  EventIds(q, S) =
           EventIds(Tail(q), S)
             \cup (IF Head(q) \in S THEN {Head(q).packet.id} ELSE {})
<1>1. ASSUME NEW i \in Places(q, S), i # 1
      PROVE  /\ i - 1 \in Places(Tail(q), S)
             /\ Tail(q)[i - 1].packet.id = q[i].packet.id
  <2>1. i \in Nat /\ i - 1 \in 1..(Len(q) - 1)
    BY <1>1, PlacesShrink
  <2>2. (i - 1) + 1 = i
    BY <2>1
  <2> QED  BY <1>1, <2>1, <2>2, PlacesShrink
<1>2. ASSUME NEW i \in Places(Tail(q), S)
      PROVE  i + 1 \in Places(q, S) /\ Tail(q)[i].packet.id = q[i + 1].packet.id
  BY PlacesShrink
<1>3. 1 \in Places(q, S) <=> Head(q) \in S
  BY PlacesShrink
<1>4. Head(q) = q[1]
  BY PlacesShrink
<1>5. ASSUME NEW v \in EventIds(q, S), v \notin EventIds(Tail(q), S)
      PROVE  Head(q) \in S /\ v = Head(q).packet.id
  <2>1. PICK i \in Places(q, S) : v = q[i].packet.id
    BY <1>5 DEF EventIds
  <2>2. i = 1
    BY <1>1, <1>5, <2>1 DEF EventIds
  <2> QED  BY <1>3, <1>4, <2>1, <2>2
<1>6. EventIds(Tail(q), S) \subseteq EventIds(q, S)
  BY <1>2 DEF EventIds
<1>7. Head(q) \in S => Head(q).packet.id \in EventIds(q, S)
  BY <1>3, <1>4 DEF EventIds
<1> QED  BY <1>5, <1>6, <1>7

LEMMA AscendingGrows ==
  ASSUME NEW T, NEW q \in Seq(T), NEW x \in T, NEW S, Ascending(q, S),
         x \in S => Below(IdsIn(q, S), {x.id})
  PROVE  Ascending(Append(q, x), S)
<1> SUFFICES ASSUME NEW i \in Places(Append(q, x), S),
                    NEW j \in Places(Append(q, x), S), i < j
             PROVE  Append(q, x)[i].id < Append(q, x)[j].id
  BY DEF Ascending
<1>1. i \in Places(q, S) /\ Append(q, x)[i] = q[i]
  BY PlacesGrow
<1>2. CASE j \in Places(q, S)
  BY <1>1, <1>2, PlacesGrow DEF Ascending
<1>3. CASE j \notin Places(q, S)
  <2>1. x \in S /\ Append(q, x)[j] = x
    BY <1>3, PlacesGrow
  <2>2. q[i].id \in IdsIn(q, S)
    BY <1>1 DEF IdsIn
  <2> QED  BY <1>1, <2>1, <2>2 DEF Below
<1> QED  BY <1>2, <1>3

LEMMA EventsAscendingGrows ==
  ASSUME NEW T, NEW q \in Seq(T), NEW x \in T, NEW S, EventsAscending(q, S),
         x \in S => Below(EventIds(q, S), {x.packet.id})
  PROVE  EventsAscending(Append(q, x), S)
<1> SUFFICES ASSUME NEW i \in Places(Append(q, x), S),
                    NEW j \in Places(Append(q, x), S), i < j
             PROVE  Append(q, x)[i].packet.id < Append(q, x)[j].packet.id
  BY DEF EventsAscending
<1>1. i \in Places(q, S) /\ Append(q, x)[i] = q[i]
  BY PlacesGrow
<1>2. CASE j \in Places(q, S)
  BY <1>1, <1>2, PlacesGrow DEF EventsAscending
<1>3. CASE j \notin Places(q, S)
  <2>1. x \in S /\ Append(q, x)[j] = x
    BY <1>3, PlacesGrow
  <2>2. q[i].packet.id \in EventIds(q, S)
    BY <1>1 DEF EventIds
  <2> QED  BY <1>1, <2>1, <2>2 DEF Below
<1> QED  BY <1>2, <1>3

LEMMA AscendingShrinks ==
  ASSUME NEW T, NEW q \in Seq(T), q # <<>>, NEW S, Ascending(q, S)
  PROVE  /\ Ascending(Tail(q), S)
         /\ Head(q) \in S => Below({Head(q).id}, IdsIn(Tail(q), S))
<1>1. ASSUME NEW i \in Places(Tail(q), S)
      PROVE  /\ i + 1 \in Places(q, S) /\ Tail(q)[i] = q[i + 1]
             /\ i \in Nat \ {0}
  BY PlacesShrink
<1>2. Ascending(Tail(q), S)
  <2> SUFFICES ASSUME NEW i \in Places(Tail(q), S),
                      NEW j \in Places(Tail(q), S), i < j
               PROVE  Tail(q)[i].id < Tail(q)[j].id
    BY DEF Ascending
  <2>1. i + 1 \in Places(q, S) /\ j + 1 \in Places(q, S) /\ i + 1 < j + 1
    BY <1>1
  <2>2. q[i + 1].id < q[j + 1].id
    BY <2>1 DEF Ascending
  <2> QED  BY <1>1, <2>2
<1>3. ASSUME Head(q) \in S PROVE Below({Head(q).id}, IdsIn(Tail(q), S))
  <2>1. 1 \in Places(q, S) /\ Head(q) = q[1]
    BY <1>3, PlacesShrink
  <2>2. ASSUME NEW i \in Places(Tail(q), S)
        PROVE  q[1].id < Tail(q)[i].id
    <3>1. i + 1 \in Places(q, S) /\ 1 < i + 1
      BY <1>1
    <3>2. q[1].id < q[i + 1].id
      BY <2>1, <3>1 DEF Ascending
    <3> QED  BY <1>1, <3>2
  <2> QED  BY <2>1, <2>2 DEF Below, IdsIn
<1> QED  BY <1>2, <1>3

LEMMA EventsAscendingShrinks ==
  ASSUME NEW T, NEW q \in Seq(T), q # <<>>, NEW S, EventsAscending(q, S)
  PROVE  /\ EventsAscending(Tail(q), S)
         /\ Head(q) \in S => Below({Head(q).packet.id}, EventIds(Tail(q), S))
<1>1. ASSUME NEW i \in Places(Tail(q), S)
      PROVE  /\ i + 1 \in Places(q, S) /\ Tail(q)[i] = q[i + 1]
             /\ i \in Nat \ {0}
  BY PlacesShrink
<1>2. EventsAscending(Tail(q), S)
  <2> SUFFICES ASSUME NEW i \in Places(Tail(q), S),
                      NEW j \in Places(Tail(q), S), i < j
               PROVE  Tail(q)[i].packet.id < Tail(q)[j].packet.id
    BY DEF EventsAscending
  <2>1. i + 1 \in Places(q, S) /\ j + 1 \in Places(q, S) /\ i + 1 < j + 1
    BY <1>1
  <2>2. q[i + 1].packet.id < q[j + 1].packet.id
    BY <2>1 DEF EventsAscending
  <2> QED  BY <1>1, <2>2
<1>3. ASSUME Head(q) \in S
      PROVE  Below({Head(q).packet.id}, EventIds(Tail(q), S))
  <2>1. 1 \in Places(q, S) /\ Head(q) = q[1]
    BY <1>3, PlacesShrink
  <2>2. ASSUME NEW i \in Places(Tail(q), S)
        PROVE  q[1].packet.id < Tail(q)[i].packet.id
    <3>1. i + 1 \in Places(q, S) /\ 1 < i + 1
      BY <1>1
    <3>2. q[1].packet.id < q[i + 1].packet.id
      BY <2>1, <3>1 DEF EventsAscending
    <3> QED  BY <1>1, <3>2
  <2> QED  BY <2>1, <2>2 DEF Below, EventIds
<1> QED  BY <1>2, <1>3

LEMMA DistinctGrows ==
  ASSUME NEW T, NEW q \in Seq(T), NEW x \in T, NEW S, Distinct(q, S),
         x \in S => x.id \notin IdsIn(q, S)
  PROVE  Distinct(Append(q, x), S)
<1> SUFFICES ASSUME NEW i \in Places(Append(q, x), S),
                    NEW j \in Places(Append(q, x), S), i < j
             PROVE  Append(q, x)[i].id # Append(q, x)[j].id
  BY DEF Distinct
<1>1. i \in Places(q, S) /\ Append(q, x)[i] = q[i]
  BY PlacesGrow
<1>2. CASE j \in Places(q, S)
  BY <1>1, <1>2, PlacesGrow DEF Distinct
<1>3. CASE j \notin Places(q, S)
  <2>1. x \in S /\ Append(q, x)[j] = x
    BY <1>3, PlacesGrow
  <2>2. q[i].id \in IdsIn(q, S)
    BY <1>1 DEF IdsIn
  <2> QED  BY <1>1, <2>1, <2>2
<1> QED  BY <1>2, <1>3

LEMMA EventsDistinctGrows ==
  ASSUME NEW T, NEW q \in Seq(T), NEW x \in T, NEW S, EventsDistinct(q, S),
         x \in S => x.packet.id \notin EventIds(q, S)
  PROVE  EventsDistinct(Append(q, x), S)
<1> SUFFICES ASSUME NEW i \in Places(Append(q, x), S),
                    NEW j \in Places(Append(q, x), S), i < j
             PROVE  Append(q, x)[i].packet.id # Append(q, x)[j].packet.id
  BY DEF EventsDistinct
<1>1. i \in Places(q, S) /\ Append(q, x)[i] = q[i]
  BY PlacesGrow
<1>2. CASE j \in Places(q, S)
  BY <1>1, <1>2, PlacesGrow DEF EventsDistinct
<1>3. CASE j \notin Places(q, S)
  <2>1. x \in S /\ Append(q, x)[j] = x
    BY <1>3, PlacesGrow
  <2>2. q[i].packet.id \in EventIds(q, S)
    BY <1>1 DEF EventIds
  <2> QED  BY <1>1, <2>1, <2>2
<1> QED  BY <1>2, <1>3

LEMMA DistinctShrinks ==
  ASSUME NEW T, NEW q \in Seq(T), q # <<>>, NEW S, Distinct(q, S)
  PROVE  /\ Distinct(Tail(q), S)
         /\ Head(q) \in S => Head(q).id \notin IdsIn(Tail(q), S)
<1>1. ASSUME NEW i \in Places(Tail(q), S)
      PROVE  /\ i + 1 \in Places(q, S) /\ Tail(q)[i] = q[i + 1]
             /\ i \in Nat \ {0}
  BY PlacesShrink
<1>2. Distinct(Tail(q), S)
  <2> SUFFICES ASSUME NEW i \in Places(Tail(q), S),
                      NEW j \in Places(Tail(q), S), i < j
               PROVE  Tail(q)[i].id # Tail(q)[j].id
    BY DEF Distinct
  <2>1. i + 1 \in Places(q, S) /\ j + 1 \in Places(q, S) /\ i + 1 < j + 1
    BY <1>1
  <2>2. q[i + 1].id # q[j + 1].id
    BY <2>1 DEF Distinct
  <2> QED  BY <1>1, <2>2
<1>3. ASSUME Head(q) \in S PROVE Head(q).id \notin IdsIn(Tail(q), S)
  <2>1. 1 \in Places(q, S) /\ Head(q) = q[1]
    BY <1>3, PlacesShrink
  <2>2. ASSUME NEW i \in Places(Tail(q), S)
        PROVE  q[1].id # Tail(q)[i].id
    <3>1. i + 1 \in Places(q, S) /\ 1 < i + 1
      BY <1>1
    <3>2. q[1].id # q[i + 1].id
      BY <2>1, <3>1 DEF Distinct
    <3> QED  BY <1>1, <3>2
  <2> QED  BY <2>1, <2>2 DEF IdsIn
<1> QED  BY <1>2, <1>3

LEMMA EventsDistinctShrinks ==
  ASSUME NEW T, NEW q \in Seq(T), q # <<>>, NEW S, EventsDistinct(q, S)
  PROVE  /\ EventsDistinct(Tail(q), S)
         /\ Head(q) \in S => Head(q).packet.id \notin EventIds(Tail(q), S)
<1>1. ASSUME NEW i \in Places(Tail(q), S)
      PROVE  /\ i + 1 \in Places(q, S) /\ Tail(q)[i] = q[i + 1]
             /\ i \in Nat \ {0}
  BY PlacesShrink
<1>2. EventsDistinct(Tail(q), S)
  <2> SUFFICES ASSUME NEW i \in Places(Tail(q), S),
                      NEW j \in Places(Tail(q), S), i < j
               PROVE  Tail(q)[i].packet.id # Tail(q)[j].packet.id
    BY DEF EventsDistinct
  <2>1. i + 1 \in Places(q, S) /\ j + 1 \in Places(q, S) /\ i + 1 < j + 1
    BY <1>1
  <2>2. q[i + 1].packet.id # q[j + 1].packet.id
    BY <2>1 DEF EventsDistinct
  <2> QED  BY <1>1, <2>2
<1>3. ASSUME Head(q) \in S
      PROVE  Head(q).packet.id \notin EventIds(Tail(q), S)
  <2>1. 1 \in Places(q, S) /\ Head(q) = q[1]
    BY <1>3, PlacesShrink
  <2>2. ASSUME NEW i \in Places(Tail(q), S)
        PROVE  q[1].packet.id # Tail(q)[i].packet.id
    <3>1. i + 1 \in Places(q, S) /\ 1 < i + 1
      BY <1>1
    <3>2. q[1].packet.id # q[i + 1].packet.id
      BY <2>1, <3>1 DEF EventsDistinct
    <3> QED  BY <1>1, <3>2
  <2> QED  BY <2>1, <2>2 DEF EventIds
<1> QED  BY <1>2, <1>3

-----------------------------------------------------------------------------
(***************************************************************************)
(* Types, and the size of the retry queue                                  *)
(***************************************************************************)

LEMMA HeadAndTail ==
  ASSUME NEW S, NEW q \in Seq(S), q # <<>>
  PROVE  Head(q) \in S /\ Tail(q) \in Seq(S)
OBVIOUS

LEMMA Appended ==
  ASSUME NEW S, NEW q \in Seq(S), NEW x \in S
  PROVE  Append(q, x) \in Seq(S) /\ <<x>> \in Seq(S)
OBVIOUS

LEMMA SizeIsNat ==
  ASSUME NEW p \in Packet PROVE Size(p) \in Nat
BY ReliableChannelAssumption DEF Packet, Size, Ids

LEMMA SizedGrows ==
  ASSUME NEW q \in Seq(Packet), NEW n \in Nat, Sized(q, n), NEW p \in Packet
  PROVE  Sized(Append(q, p), n + Size(p))
<1>1. PICK left \in [1..(Len(q) + 1) -> Nat] :
        /\ left[1] = n
        /\ \A i \in 1..Len(q) : left[i] = Size(q[i]) + left[i + 1]
        /\ left[Len(q) + 1] = 0
  BY DEF Sized
<1> DEFINE r == Append(q, p)
           more == [i \in 1..(Len(r) + 1) |->
                      IF i = Len(r) + 1 THEN 0 ELSE left[i] + Size(p)]
<1>2. /\ Len(q) \in Nat
      /\ Len(r) = Len(q) + 1
      /\ r[Len(q) + 1] = p
      /\ \A i \in 1..Len(q) : r[i] = q[i]
  OBVIOUS
<1>3. Size(p) \in Nat
  BY SizeIsNat
<1>4. more \in [1..(Len(r) + 1) -> Nat]
  BY <1>2, <1>3
<1>5. more[1] = n + Size(p)
  BY <1>1, <1>2
<1>6. ASSUME NEW i \in 1..Len(r) PROVE more[i] = Size(r[i]) + more[i + 1]
  <2>1. more[i] = left[i] + Size(p)
    BY <1>2
  <2>2. CASE i = Len(q) + 1
    <3>1. more[i + 1] = 0 /\ left[i] = 0 /\ r[i] = p
      BY <1>1, <1>2, <2>2
    <3> QED  BY <1>3, <2>1, <3>1
  <2>3. CASE i # Len(q) + 1
    <3>1. i \in 1..Len(q) /\ i + 1 \in 1..(Len(q) + 1)
      BY <1>2, <2>3
    <3>2. more[i + 1] = left[i + 1] + Size(p)
      BY <1>2, <3>1
    <3>3. left[i] = Size(q[i]) + left[i + 1]
      BY <1>1, <3>1
    <3>4. q[i] \in Packet /\ left[i + 1] \in Nat /\ r[i] = q[i]
      BY <1>1, <1>2, <3>1
    <3>5. Size(q[i]) \in Nat
      BY <3>4, SizeIsNat
    <3> QED  BY <1>3, <2>1, <3>2, <3>3, <3>4, <3>5
  <2> QED  BY <2>2, <2>3
<1>7. more[Len(r) + 1] = 0
  BY <1>2
<1> QED  BY <1>4, <1>5, <1>6, <1>7 DEF Sized

LEMMA SizedShrinks ==
  ASSUME NEW q \in Seq(Packet), q # <<>>, NEW n \in Nat, Sized(q, n)
  PROVE  /\ n - Size(Head(q)) \in Nat
         /\ Sized(Tail(q), n - Size(Head(q)))
<1>1. PICK left \in [1..(Len(q) + 1) -> Nat] :
        /\ left[1] = n
        /\ \A i \in 1..Len(q) : left[i] = Size(q[i]) + left[i + 1]
        /\ left[Len(q) + 1] = 0
  BY DEF Sized
<1> DEFINE r == Tail(q)
           less == [i \in 1..(Len(r) + 1) |-> left[i + 1]]
<1>2. /\ Len(q) \in Nat \ {0}
      /\ Len(r) = Len(q) - 1
      /\ Head(q) = q[1]
      /\ Head(q) \in Packet
      /\ \A i \in 1..Len(r) : r[i] = q[i + 1]
  OBVIOUS
<1>3. Size(Head(q)) \in Nat
  BY <1>2, SizeIsNat
<1>4. left[1] = Size(Head(q)) + left[2] /\ left[2] \in Nat
  BY <1>1, <1>2
<1>5. n - Size(Head(q)) = left[2]
  BY <1>1, <1>3, <1>4
<1>6. less \in [1..(Len(r) + 1) -> Nat]
  BY <1>2
<1>7. less[1] = left[2]
  BY <1>2
<1>8. ASSUME NEW i \in 1..Len(r) PROVE less[i] = Size(r[i]) + less[i + 1]
  <2>1. i + 1 \in 1..Len(q) /\ i \in 1..(Len(r) + 1) /\ i + 1 \in 1..(Len(r) + 1)
    BY <1>2
  <2>2. left[i + 1] = Size(q[i + 1]) + left[(i + 1) + 1]
    BY <1>1, <2>1
  <2>3. less[i] = left[i + 1] /\ less[i + 1] = left[(i + 1) + 1]
    BY <2>1
  <2> QED  BY <1>2, <2>2, <2>3
<1>9. less[Len(r) + 1] = 0
  BY <1>1, <1>2
<1> QED  BY <1>4, <1>5, <1>6, <1>7, <1>8, <1>9 DEF Sized

LEMMA SizedEmpty == Sized(<<>>, 0)
<1> DEFINE left == [i \in 1..(Len(<<>>) + 1) |-> 0]
<1>1. /\ left \in [1..(Len(<<>>) + 1) -> Nat]
      /\ left[1] = 0
      /\ \A i \in 1..Len(<<>>) : left[i] = Size(<<>>[i]) + left[i + 1]
      /\ left[Len(<<>>) + 1] = 0
  OBVIOUS
<1> QED  BY <1>1 DEF Sized

LEMMA EmittedGood ==
  ASSUME TypeInv, NEW e \in GoodEvents
  PROVE  /\ Emitted(e) \in Seq(Event)
         /\ Emitted(e) \in Seq(GoodEvents)
         /\ pc = "done" => Emitted(e) = <<>>
<1>1. GoodEvents \subseteq Event
  BY DEF GoodEvents
<1> QED  BY <1>1 DEF TypeInv, TypeOK, Emitted

LEMMA HeadEvent ==
  ASSUME TypeInv, dc_events # <<>>
  PROVE  /\ Head(dc_events) \in GoodEvents
         /\ Head(dc_events) \in Event
         /\ Tail(dc_events) \in Seq(Event)
         /\ Tail(dc_events) \in Seq(GoodEvents)
<1>1. GoodEvents \subseteq Event
  BY DEF GoodEvents
<1> QED  BY <1>1 DEF TypeInv, TypeOK

LEMMA PublishDataType ==
  ASSUME TypeInv, NEW kind \in Kinds, PublishData(kind)
  PROVE  TypeInv'
<1> DEFINE p == [id |-> published[kind] + 1, sequence |-> 0, waited |-> TRUE]
           e == PacketEvent("PublishPacket", kind, p)
<1>1. /\ published \in [Kinds -> Nat]
      /\ published["lossy"] \in Nat /\ published["reliable"] \in Nat
      /\ MaxCalls \in Nat
      /\ published["lossy"] + published["reliable"] < MaxCalls
  BY ReliableChannelAssumption DEF TypeInv, TypeOK, Kinds, PublishData
<1>2. published[kind] + 1 \in Ids
  BY <1>1 DEF Kinds, Ids
<1>3. p \in Fresh /\ p \in Packet
  BY <1>2 DEF Fresh, Packet
<1>4. e \in GoodEvents
  BY <1>3 DEF GoodEvents, Event, PacketEvent
<1>5. dc_events' = Emitted(e)
  BY DEF PublishData
<1>6. published' = [published EXCEPT ![kind] = published[kind] + 1]
  BY DEF PublishData
<1>7. /\ published' \in [Kinds -> Nat]
      /\ (published["lossy"] + published["reliable"] <= MaxCalls)'
  BY <1>1, <1>6 DEF Kinds
<1>8. answered' \in [Kinds -> SUBSET Nat]
  <2>1. \/ answered' = [answered EXCEPT ![kind] = @ \cup {published[kind] + 1}]
        \/ answered' = answered
    BY DEF PublishData
  <2>2. answered \in [Kinds -> SUBSET Nat] /\ published[kind] + 1 \in Nat
    <3>1. answered \in [Kinds -> SUBSET Nat]
      BY DEF TypeInv, TypeOK
    <3>2. published[kind] + 1 \in Nat
      BY <1>1
    <3> QED  BY <3>1, <3>2
  <2> QED  BY <2>1, <2>2
<1>9. TypeOK'
  BY <1>4, <1>5, <1>7, <1>8, EmittedGood
     DEF PublishData, TypeInv, TypeOK, task, retry, link, history
<1> QED
  BY <1>4, <1>5, <1>7, <1>9, EmittedGood
     DEF PublishData, TypeInv, task, retry

LEMMA AssignSequenceType ==
  ASSUME TypeInv, AssignSequence,
         Head(dc_events).kind = "reliable" =>
           Head(dc_events).packet.id = next_packet_sequence
  PROVE  TypeInv'
<1> DEFINE e == Head(dc_events)
           p == IF e.kind = "reliable"
                THEN [e.packet EXCEPT !.sequence = next_packet_sequence]
                ELSE e.packet
           f == PacketEvent("PublishData", e.kind, p)
<1>1. /\ dc_events # <<>>
      /\ e.detail = "PublishPacket"
      /\ dc_events' = Append(Tail(dc_events), f)
      /\ pc = "select"
  BY DEF AssignSequence, Receives
<1>2. e \in GoodEvents /\ e.packet \in Packet /\ e.kind \in Kinds
  BY <1>1, HeadEvent DEF GoodEvents, Fresh, Event
<1>3. next_packet_sequence \in Nat
  BY DEF TypeInv, TypeOK
<1>4. p \in Packet /\ (e.kind = "reliable" => p \in Numbered)
  BY <1>2, <1>3 DEF Packet, Numbered
<1>5. f \in GoodEvents /\ f \in Event
  BY <1>2, <1>4 DEF GoodEvents, Event, PacketEvent
<1>6. dc_events' \in Seq(GoodEvents) /\ dc_events' \in Seq(Event)
  BY <1>1, <1>5, HeadEvent
<1>7. next_packet_sequence' \in Nat
  BY <1>3 DEF AssignSequence
<1>8. TypeOK'
  BY <1>6, <1>7 DEF AssignSequence, TypeInv, TypeOK, task, retry, link, app,
                    history
<1> QED
  BY <1>1, <1>6, <1>8 DEF AssignSequence, TypeInv, task, retry, app

LEMMA QueueDataType ==
  ASSUME TypeInv, QueueData
  PROVE  TypeInv'
<1> DEFINE e == Head(dc_events)
<1>1. /\ dc_events # <<>>
      /\ e.detail = "PublishData"
      /\ dc_events' = Tail(dc_events)
      /\ request_queue' =
           [request_queue EXCEPT ![e.kind] = Append(@, e.packet)]
  BY DEF QueueData, Receives, Queued
<1>2. e.packet \in Packet /\ e.kind \in Kinds
  BY <1>1, HeadEvent DEF GoodEvents, Event
<1>3. request_queue' \in [Kinds -> Seq(Packet)]
  <2>1. request_queue \in [Kinds -> Seq(Packet)]
    BY DEF TypeInv, TypeOK
  <2>2. Append(request_queue[e.kind], e.packet) \in Seq(Packet)
    BY <1>2, <2>1, Appended
  <2> QED  BY <1>1, <1>2, <2>1, <2>2
<1> QED
  BY <1>1, <1>2, <1>3, HeadEvent
     DEF QueueData, TypeInv, TypeOK, retry, link, app, history

LEMMA BufferedAmountType ==
  ASSUME TypeInv, OnBufferedAmountChange
  PROVE  TypeInv'
<1> DEFINE e == Head(dc_events)
<1>1. /\ dc_events # <<>>
      /\ dc_events' = Tail(dc_events)
      /\ buffered_amount' =
           [buffered_amount EXCEPT ![e.kind] = AfterBytesSent(@, e.amount)]
  BY DEF OnBufferedAmountChange, Receives
<1>2. e.amount \in Nat /\ e.kind \in Kinds
  BY <1>1, HeadEvent DEF Event
<1>3. buffered_amount' \in [Kinds -> Nat]
  <2>1. buffered_amount \in [Kinds -> Nat]
    BY DEF TypeInv, TypeOK
  <2>2. AfterBytesSent(buffered_amount[e.kind], e.amount) \in Nat
    BY <1>2, <2>1 DEF AfterBytesSent
  <2> QED  BY <1>1, <1>2, <2>1, <2>2
<1> QED
  BY <1>1, <1>2, <1>3, HeadEvent
     DEF OnBufferedAmountChange, TypeInv, TypeOK, retry, link, app, history

\* What send() is called with.
LEMMA HeadQueued ==
  ASSUME TypeInv, CanSend
  PROVE  /\ sending \in Kinds
         /\ request_queue[sending] \in Seq(Packet)
         /\ request_queue[sending] # <<>>
         /\ Head(request_queue[sending]) \in Packet
         /\ Tail(request_queue[sending]) \in Seq(Packet)
         /\ Head(request_queue[sending]).id \in Nat
<1>1. /\ sending \in Kinds
      /\ request_queue[sending] \in Seq(Packet)
      /\ request_queue[sending] # <<>>
  BY DEF TypeInv, TypeOK, CanSend
<1>2. /\ Head(request_queue[sending]) \in Packet
      /\ Tail(request_queue[sending]) \in Seq(Packet)
  BY <1>1
<1>3. Head(request_queue[sending]).id \in Nat
  BY <1>2, ReliableChannelAssumption DEF Packet, Ids
<1> QED  BY <1>1, <1>2, <1>3

\* The copy of a packet that the retry queue gets.
LEMMA CopyKept ==
  ASSUME NEW p \in Packet
  PROVE  /\ [p EXCEPT !.waited = FALSE] \in Packet
         /\ [p EXCEPT !.waited = FALSE] \in Old
         /\ [p EXCEPT !.waited = FALSE].id = p.id
         /\ [p EXCEPT !.waited = FALSE].sequence = p.sequence
         /\ Size([p EXCEPT !.waited = FALSE]) = Size(p)
BY DEF Packet, Old, Size

LEMMA SendOneType ==
  ASSUME TypeInv, SendOne
  PROVE  TypeInv'
<1> DEFINE p == Head(request_queue[sending])
           k == [p EXCEPT !.waited = FALSE]
<1>1. /\ sending \in Kinds
      /\ p \in Packet
      /\ Tail(request_queue[sending]) \in Seq(Packet)
      /\ p.id \in Nat
  BY HeadQueued DEF SendOne
<1>2. Size(p) \in Nat
  BY <1>1, SizeIsNat
<1>3. request_queue' \in [Kinds -> Seq(Packet)]
  BY <1>1 DEF SendOne, TypeInv, TypeOK
<1>4. buffered_amount' \in [Kinds -> Nat]
  <2>1. buffered_amount \in [Kinds -> Nat]
    BY DEF TypeInv, TypeOK
  <2>2. buffered_amount[sending] + Size(p) \in Nat
    BY <1>1, <1>2, <2>1
  <2> QED  BY <2>1, <2>2 DEF SendOne
<1>5. attempts' \in [Kinds -> Seq(Packet)]
  <2>1. attempts \in [Kinds -> Seq(Packet)]
    BY DEF TypeInv, TypeOK
  <2>2. Append(attempts[sending], p) \in Seq(Packet)
    BY <1>1, <2>1, Appended
  <2> QED  BY <2>1, <2>2 DEF SendOne
<1>6. dcBuffer' \in [Kinds -> Seq(Packet)] /\ rejected' \in [Kinds -> Nat]
  <2>1. dcBuffer \in [Kinds -> Seq(Packet)] /\ rejected \in [Kinds -> Nat]
    BY DEF TypeInv, TypeOK
  <2>2. /\ Append(dcBuffer[sending], p) \in Seq(Packet)
        /\ rejected[sending] + Size(p) \in Nat
    BY <1>1, <1>2, <2>1, Appended
  <2> QED  BY <2>1, <2>2 DEF SendOne
<1>7. answered' \in [Kinds -> SUBSET Nat]
  <2>1. Answer(p)
    BY DEF SendOne
  <2> QED  BY <1>1, <2>1 DEF Answer, TypeInv, TypeOK
<1>8. /\ retry_queue' \in Seq(Packet)
      /\ buffered_size' \in Nat
      /\ Sized(retry_queue', buffered_size')
  <2>1. Retain(p)
    BY DEF SendOne
  <2>2. CASE sending = "reliable"
    <3>1. /\ retry_queue' = Append(retry_queue, k)
          /\ buffered_size' = buffered_size + Size(p)
      BY <2>1, <2>2 DEF Retain
    <3>2. k \in Packet /\ Size(k) = Size(p)
      BY <1>1, CopyKept
    <3>3. /\ retry_queue \in Seq(Packet) /\ buffered_size \in Nat
          /\ Sized(retry_queue, buffered_size)
      BY DEF TypeInv, TypeOK
    <3>4. Sized(Append(retry_queue, k), buffered_size + Size(k))
      BY <3>2, <3>3, SizedGrows
    <3> QED  BY <1>2, <3>1, <3>2, <3>3, <3>4
  <2>3. CASE sending # "reliable"
    BY <2>1, <2>3 DEF Retain, retry, TypeInv, TypeOK
  <2> QED  BY <2>2, <2>3
<1>9. UNCHANGED <<dc_events, next_packet_sequence, pc, sending, after, target,
                  net, server_seq, reconnect_response, delivered, resumed,
                  closed, published>>
  BY DEF SendOne, task, link
<1>10. TypeOK'
  BY <1>3, <1>4, <1>5, <1>6, <1>7, <1>8, <1>9 DEF TypeInv, TypeOK
<1> QED  BY <1>8, <1>9, <1>10 DEF TypeInv

LEMMA DequeuedType ==
  ASSUME TypeInv, Dequeued, retry_queue # <<>>
  PROVE  /\ retry_queue' \in Seq(Packet)
         /\ buffered_size' \in Nat
         /\ Sized(retry_queue', buffered_size')
         /\ Head(retry_queue) \in Packet
<1>1. /\ retry_queue \in Seq(Packet) /\ buffered_size \in Nat
      /\ Sized(retry_queue, buffered_size)
  BY DEF TypeInv, TypeOK
<1>2. /\ retry_queue' = Tail(retry_queue)
      /\ buffered_size' = buffered_size - Size(Head(retry_queue))
  BY DEF Dequeued
<1> QED  BY <1>1, <1>2, SizedShrinks

LEMMA RetryOneType ==
  ASSUME TypeInv, RetryOne, retry_queue \in Seq(Numbered)
  PROVE  TypeInv'
<1> DEFINE p == Head(retry_queue)
           e == PacketEvent("PublishData", "reliable", p)
<1>1. /\ retry_queue' \in Seq(Packet)
      /\ buffered_size' \in Nat
      /\ Sized(retry_queue', buffered_size')
      /\ p \in Packet
  BY DequeuedType DEF RetryOne
<1>2. p \in Numbered
  BY DEF RetryOne
<1>3. e \in GoodEvents /\ e \in Event
  BY <1>1, <1>2 DEF GoodEvents, Event, PacketEvent, Kinds
<1>4. dc_events' \in Seq(GoodEvents) /\ dc_events' \in Seq(Event)
  BY <1>3 DEF RetryOne, TypeInv, TypeOK
<1> QED
  BY <1>1, <1>4
     DEF RetryOne, TypeInv, TypeOK, task, link, app, history

LEMMA DcTransmitType ==
  ASSUME TypeInv, NEW kind \in Kinds, DcTransmit(kind)
  PROVE  TypeInv'
<1> DEFINE p == Head(dcBuffer[kind])
           e == AmountEvent("BufferedAmountChange", kind, Size(p))
<1>1. p \in Packet /\ Tail(dcBuffer[kind]) \in Seq(Packet)
  <2>1. dcBuffer[kind] \in Seq(Packet) /\ dcBuffer[kind] # <<>>
    BY DEF DcTransmit, TypeInv, TypeOK
  <2> QED  BY <2>1, HeadAndTail
<1>2. Size(p) \in Nat /\ p.sequence \in Nat
  BY <1>1, SizeIsNat DEF Packet
<1>3. e \in GoodEvents
  BY <1>2 DEF GoodEvents, Event, AmountEvent
<1>4. dc_events' = Emitted(e)
  BY DEF DcTransmit
<1>5. dcBuffer' \in [Kinds -> Seq(Packet)] /\ net' \in Seq(Nat)
  BY <1>1, <1>2 DEF DcTransmit, TypeInv, TypeOK
<1>6. TypeOK'
  BY <1>3, <1>4, <1>5, EmittedGood
     DEF DcTransmit, TypeInv, TypeOK, task, retry, app, history
<1> QED
  BY <1>3, <1>4, <1>6, EmittedGood DEF DcTransmit, TypeInv, task, retry, app

LEMMA RestartType ==
  ASSUME TypeInv, Restart
  PROVE  TypeInv'
<1> DEFINE n == Head(reconnect_response)
           e == AmountEvent("RetryFrom", "reliable", n)
<1>1. n \in Nat
  <2>1. reconnect_response \in Seq(Nat) /\ reconnect_response # <<>>
    BY DEF Restart, TypeInv, TypeOK
  <2> QED  BY <2>1, HeadAndTail
<1>2. e \in GoodEvents
  BY <1>1 DEF GoodEvents, Event, AmountEvent, Kinds
<1>3. \/ dc_events' = Emitted(e) /\ resumed' = Append(resumed, n)
      \/ dc_events' = dc_events /\ resumed' = resumed
  BY DEF Restart
<1>4. /\ dc_events' \in Seq(GoodEvents) /\ dc_events' \in Seq(Event)
      /\ pc = "done" => dc_events' = <<>>
      /\ resumed' \in Seq(Nat)
  <2>1. /\ dc_events \in Seq(Event) /\ dc_events \in Seq(GoodEvents)
        /\ pc = "done" => dc_events = <<>>
        /\ resumed \in Seq(Nat)
    BY DEF TypeInv, TypeOK
  <2>2. Append(resumed, n) \in Seq(Nat)
    BY <1>1, <2>1, Appended
  <2> QED  BY <1>2, <1>3, <2>1, <2>2, EmittedGood
<1>5. reconnect_response' \in Seq(Nat)
  BY DEF Restart
<1>6. TypeOK'
  BY <1>4, <1>5 DEF Restart, TypeInv, TypeOK, task, retry, app, history
<1> QED
  BY <1>4, <1>6 DEF Restart, TypeInv, task, retry, app

LEMMA StopType ==
  ASSUME TypeInv, Stop
  PROVE  TypeInv'
<1>1. published \in [Kinds -> Nat]
  BY DEF TypeInv, TypeOK
<1>2. answered' \in [Kinds -> SUBSET Nat]
  BY <1>1 DEF Stop
<1>3. request_queue' \in [Kinds -> Seq(Packet)]
  BY DEF Stop
<1>4. /\ dc_events' = <<>> /\ retry_queue' = <<>> /\ buffered_size' = 0
      /\ dc_events' \in Seq(Event) /\ dc_events' \in Seq(GoodEvents)
      /\ retry_queue' \in Seq(Packet)
  BY DEF Stop
<1>5. TypeOK'
  <2>1. /\ pc' = "done"
        /\ UNCHANGED <<next_packet_sequence, sending, after, target,
                       buffered_amount, dcBuffer, net, server_seq,
                       reconnect_response, delivered, resumed, closed,
                       published, attempts, rejected>>
    BY DEF Stop, link, history
  <2> QED  BY <1>2, <1>3, <1>4, <2>1 DEF TypeInv, TypeOK
<1> QED  BY <1>4, <1>5, SizedEmpty DEF Stop, TypeInv

\* The other steps leave the queues or take from them.
LEMMA OtherType ==
  ASSUME TypeInv,
         \/ SendDone \/ TrimOne \/ TrimDone \/ OnRetryFrom \/ RetryDone
         \/ ServerReconnects \/ CloseSession \/ ReceiveData
  PROVE  TypeInv'
<1>1. CASE SendDone
  BY <1>1 DEF SendDone, TypeInv, TypeOK, retry, link, app, history
<1>2. CASE TrimOne
  <2>1. /\ retry_queue' \in Seq(Packet)
        /\ buffered_size' \in Nat
        /\ Sized(retry_queue', buffered_size')
    BY <1>2, DequeuedType DEF TrimOne
  <2> QED
    BY <1>2, <2>1 DEF TrimOne, TypeInv, TypeOK, task, link, app, history
<1>3. CASE TrimDone
  BY <1>3 DEF TrimDone, TypeInv, TypeOK, retry, link, app, history
<1>4. CASE OnRetryFrom
  <2>1. /\ Head(dc_events).amount \in Nat
        /\ dc_events' \in Seq(Event) /\ dc_events' \in Seq(GoodEvents)
    BY <1>4, HeadEvent DEF OnRetryFrom, Receives, Event
  <2> QED
    BY <1>4, <2>1
       DEF OnRetryFrom, TypeInv, TypeOK, retry, link, app, history
<1>5. CASE RetryDone
  BY <1>5 DEF RetryDone, TypeInv, TypeOK, retry, link, app, history
<1>6. CASE ServerReconnects
  <2>1. reconnect_response' \in Seq(Nat)
    <3>1. server_seq \in Nat /\ reconnect_response' = <<server_seq>>
      BY <1>6 DEF ServerReconnects, TypeInv, TypeOK
    <3> QED  BY <3>1, Appended
  <2> QED
    BY <1>6, <2>1 DEF ServerReconnects, TypeInv, TypeOK, task, retry, app,
                      history
<1>7. CASE CloseSession
  BY <1>7 DEF CloseSession, TypeInv, TypeOK, task, retry, link, app, history
<1>8. CASE ReceiveData
  <2>1. Head(net) \in Nat /\ Tail(net) \in Seq(Nat)
    <3>1. net \in Seq(Nat) /\ net # <<>>
      BY <1>8 DEF ReceiveData, TypeInv, TypeOK
    <3> QED  BY <3>1, HeadAndTail
  <2>2. delivered' \in Seq(Nat)
    <3>1. delivered \in Seq(Nat) /\ delivered' = Append(delivered, Head(net))
      BY <1>8 DEF ReceiveData, TypeInv, TypeOK
    <3> QED  BY <2>1, <3>1, Appended
  <2> QED
    BY <1>8, <2>1, <2>2
       DEF ReceiveData, TypeInv, TypeOK, task, retry, app, history
<1> QED  BY <1>1, <1>2, <1>3, <1>4, <1>5, <1>6, <1>7, <1>8

-----------------------------------------------------------------------------
(***************************************************************************)
(* The stages of a packet                                                  *)
(***************************************************************************)

\* Whatever is staged stays so when sets lose elements, and when the least
\* element of one set goes to the set before it.
LEMMA StagedKeeps ==
  ASSUME NEW T, NEW Q, NEW A, NEW C, NEW n, Staged(T, Q, A, C, n),
         NEW T2 \in SUBSET T, NEW Q2 \in SUBSET Q, NEW A2 \in SUBSET A,
         NEW C2 \in SUBSET C
  PROVE  Staged(T2, Q2, A2, C2, n)
BY DEF Staged, Below

LEMMA StagedTried ==
  ASSUME NEW T, NEW Q, NEW A, NEW C, NEW n, Staged(T, Q, A, C, n),
         NEW x \in Q, NEW T2 \in SUBSET (T \cup {x}), NEW Q2 \in SUBSET Q,
         Below({x}, Q2)
  PROVE  Staged(T2, Q2, A, C, n)
BY DEF Staged, Below

LEMMA StagedQueued ==
  ASSUME NEW T, NEW Q, NEW A, NEW C, NEW n, Staged(T, Q, A, C, n),
         NEW x \in A, NEW T2 \in SUBSET T, NEW Q2 \in SUBSET (Q \cup {x}),
         NEW A2 \in SUBSET A, Below({x}, A2)
  PROVE  Staged(T2, Q2, A2, C, n)
BY DEF Staged, Below

LEMMA StagedAnnounced ==
  ASSUME NEW T, NEW Q, NEW A, NEW C, NEW n, Staged(T, Q, A, C, n),
         NEW x \in C, NEW A2 \in SUBSET (A \cup {x}), NEW C2 \in SUBSET C,
         Below({x}, C2)
  PROVE  Staged(T, Q, A2, C2, n)
BY DEF Staged, Below

LEMMA StagedCalled ==
  ASSUME NEW T, NEW Q, NEW A, NEW C, NEW n \in Nat, Staged(T, Q, A, C, n),
         NEW C2 \in SUBSET (C \cup {n + 1})
  PROVE  Staged(T, Q, A, C2, n + 1)
<1>1. \A x \in UNION {T, Q, A, C} : x \in 1..n
  BY DEF Staged
<1>2. \A x \in 1..n : x \in 1..(n + 1) /\ x < n + 1
  OBVIOUS
<1>3. n + 1 \in 1..(n + 1)
  OBVIOUS
<1>4. UNION {T, Q, A, C2} \subseteq 1..(n + 1)
  BY <1>1, <1>2, <1>3
<1>5. Below(T, C2) /\ Below(Q, C2) /\ Below(A, C2)
  BY <1>1, <1>2 DEF Staged, Below
<1> QED  BY <1>4, <1>5 DEF Staged

\* The same for the queues of the task.
LEMMA EventAdded ==
  ASSUME NEW q \in Seq(Event), NEW e \in Event, NEW S
  PROVE  /\ e \in S =>
              EventIds(Append(q, e), S) = EventIds(q, S) \cup {e.packet.id}
         /\ e \notin S => EventIds(Append(q, e), S) = EventIds(q, S)
<1>1. EventIds(Append(q, e), S) =
        EventIds(q, S) \cup (IF e \in S THEN {e.packet.id} ELSE {})
  BY EventIdsGrow
<1> QED  BY <1>1

LEMMA EventTaken ==
  ASSUME NEW q \in Seq(Event), q # <<>>, NEW S
  PROVE  /\ Head(q) \in S =>
              EventIds(q, S) = EventIds(Tail(q), S) \cup {Head(q).packet.id}
         /\ Head(q) \notin S => EventIds(q, S) = EventIds(Tail(q), S)
<1>1. EventIds(q, S) =
        EventIds(Tail(q), S)
          \cup (IF Head(q) \in S THEN {Head(q).packet.id} ELSE {})
  BY EventIdsShrink
<1> QED  BY <1>1

LEMMA PacketAdded ==
  ASSUME NEW q \in Seq(Packet), NEW p \in Packet, NEW S
  PROVE  /\ p \in S => IdsIn(Append(q, p), S) = IdsIn(q, S) \cup {p.id}
         /\ p \notin S => IdsIn(Append(q, p), S) = IdsIn(q, S)
<1>1. IdsIn(Append(q, p), S) = IdsIn(q, S) \cup (IF p \in S THEN {p.id} ELSE {})
  BY IdsGrow
<1> QED  BY <1>1

LEMMA PacketTaken ==
  ASSUME NEW q \in Seq(Packet), q # <<>>, NEW S
  PROVE  /\ Head(q) \in S =>
              IdsIn(q, S) = IdsIn(Tail(q), S) \cup {Head(q).id}
         /\ Head(q) \notin S => IdsIn(q, S) = IdsIn(Tail(q), S)
<1>1. IdsIn(q, S) =
        IdsIn(Tail(q), S) \cup (IF Head(q) \in S THEN {Head(q).id} ELSE {})
  BY IdsShrink
<1> QED  BY <1>1

\* Events that are not of S leave what is of S alone.
LEMMA OtherEvents ==
  ASSUME NEW q \in Seq(Event), NEW q2, NEW S,
         \/ q2 = q
         \/ \E e \in Event : e \notin S /\ q2 = Append(q, e)
         \/ q # <<>> /\ Head(q) \notin S /\ q2 = Tail(q)
  PROVE  /\ EventIds(q2, S) = EventIds(q, S)
         /\ EventsAscending(q, S) => EventsAscending(q2, S)
         /\ EventsDistinct(q, S) => EventsDistinct(q2, S)
<1>1. CASE q2 = q
  BY <1>1
<1>2. ASSUME NEW e \in Event, e \notin S, q2 = Append(q, e)
      PROVE  /\ EventIds(q2, S) = EventIds(q, S)
             /\ EventsAscending(q, S) => EventsAscending(q2, S)
             /\ EventsDistinct(q, S) => EventsDistinct(q2, S)
  <2>1. EventIds(q2, S) = EventIds(q, S)
    BY <1>2, EventAdded
  <2>2. EventsAscending(q, S) => EventsAscending(q2, S)
    BY <1>2, EventsAscendingGrows
  <2>3. EventsDistinct(q, S) => EventsDistinct(q2, S)
    BY <1>2, EventsDistinctGrows
  <2> QED  BY <2>1, <2>2, <2>3
<1>3. CASE q # <<>> /\ Head(q) \notin S /\ q2 = Tail(q)
  <2>1. EventIds(q2, S) = EventIds(q, S)
    BY <1>3, EventTaken
  <2>2. EventsAscending(q, S) => EventsAscending(q2, S)
    BY <1>3, EventsAscendingShrinks
  <2>3. EventsDistinct(q, S) => EventsDistinct(q2, S)
    BY <1>3, EventsDistinctShrinks
  <2> QED  BY <2>1, <2>2, <2>3
<1> QED  BY <1>1, <1>2, <1>3

LEMMA ShrinkingIds ==
  ASSUME NEW T, NEW q \in Seq(T), q # <<>>, NEW S
  PROVE  IdsIn(Tail(q), S) \subseteq IdsIn(q, S)
BY IdsShrink

\* Fresh and Old packets are all packets, and no packet is both.
LEMMA FreshOrOld ==
  /\ Fresh \subseteq Packet /\ Old \subseteq Packet
  /\ Packet \subseteq Fresh \cup Old
  /\ Fresh \cap Old = {}
BY DEF Fresh, Old

LEMMA IdsSplit ==
  ASSUME NEW q
  PROVE  IdsIn(q, Packet) = IdsIn(q, Fresh) \cup IdsIn(q, Old)
BY FreshOrOld DEF IdsIn, Places

LEMMA EventIdsSplit ==
  ASSUME NEW q, NEW detail, NEW kind
  PROVE  EventIds(q, EventsOf(detail, kind, Packet)) =
           EventIds(q, EventsOf(detail, kind, Fresh))
             \cup EventIds(q, EventsOf(detail, kind, Old))
<1>1. EventsOf(detail, kind, Packet) =
        EventsOf(detail, kind, Fresh) \cup EventsOf(detail, kind, Old)
  BY FreshOrOld DEF EventsOf
<1> QED  BY <1>1 DEF EventIds, Places

LEMMA IdsOfNone ==
  ASSUME NEW S
  PROVE  /\ IdsIn(<<>>, S) = {}
         /\ EventIds(<<>>, S) = {}
         /\ Ascending(<<>>, S)
         /\ EventsAscending(<<>>, S)
         /\ Distinct(<<>>, S)
         /\ EventsDistinct(<<>>, S)
BY DEF IdsIn, EventIds, Ascending, EventsAscending, Distinct, EventsDistinct,
       Places

\* Steps that put no packet anywhere: events about bytes and resumes come and
\* go, and the retry queue may lose packets.
LEMMA QuietStage ==
  ASSUME TypeInv, NEW kind \in Kinds, StageInv(kind),
         UNCHANGED <<request_queue, attempts, published>>,
         IdsIn(retry_queue', Packet) \subseteq IdsIn(retry_queue, Packet),
         \A detail \in {"PublishPacket", "PublishData"}, S \in {Fresh, Old} :
           LET E == EventsOf(detail, kind, S)
           IN \/ dc_events' = dc_events
              \/ \E e \in Event : e \notin E /\ dc_events' = Append(dc_events, e)
              \/ /\ dc_events # <<>>
                 /\ Head(dc_events) \notin E
                 /\ dc_events' = Tail(dc_events)
  PROVE  StageInv(kind)'
<1>1. dc_events \in Seq(Event)
  BY DEF TypeInv, TypeOK
<1>2. ASSUME NEW detail \in {"PublishPacket", "PublishData"},
             NEW S \in {Fresh, Old}
      PROVE  /\ EventIds(dc_events', EventsOf(detail, kind, S)) =
                  EventIds(dc_events, EventsOf(detail, kind, S))
             /\ EventsAscending(dc_events, EventsOf(detail, kind, S)) =>
                  EventsAscending(dc_events', EventsOf(detail, kind, S))
  <2> DEFINE E == EventsOf(detail, kind, S)
  <2>1. \/ dc_events' = dc_events
        \/ \E e \in Event : e \notin E /\ dc_events' = Append(dc_events, e)
        \/ /\ dc_events # <<>>
           /\ Head(dc_events) \notin E
           /\ dc_events' = Tail(dc_events)
    OBVIOUS
  <2> HIDE DEF E
  <2>2. /\ EventIds(dc_events', E) = EventIds(dc_events, E)
        /\ EventsAscending(dc_events, E) => EventsAscending(dc_events', E)
    BY <1>1, <2>1, OtherEvents
  <2> QED  BY <2>2 DEF E
<1>3. Called(kind)' = Called(kind) /\ Announced(kind)' = Announced(kind)
  BY <1>2 DEF Called, Announced
<1>4. Queuing(kind)' = Queuing(kind)
  BY DEF Queuing
<1>5. Tried(kind)' \subseteq Tried(kind)
  <2>1. EventIds(dc_events', EventsOf("PublishData", kind, Old)) =
          EventIds(dc_events, EventsOf("PublishData", kind, Old))
    BY <1>2
  <2> QED  BY <2>1 DEF Tried
<1>6. Staged(Tried(kind)', Queuing(kind)', Announced(kind)', Called(kind)',
             published[kind]')
  BY <1>3, <1>4, <1>5, StagedKeeps DEF StageInv
<1>7. Ascending(request_queue[kind], Fresh)'
  BY DEF StageInv
<1>8. /\ EventsAscending(dc_events', EventsOf("PublishData", kind, Fresh))
      /\ EventsAscending(dc_events', EventsOf("PublishPacket", kind, Fresh))
  BY <1>2 DEF StageInv
<1> QED  BY <1>6, <1>7, <1>8 DEF StageInv

\* The retry queue's ids after a packet has left it.
LEMMA RetryIdsShrink ==
  ASSUME TypeInv, Dequeued, retry_queue # <<>>
  PROVE  IdsIn(retry_queue', Packet) \subseteq IdsIn(retry_queue, Packet)
<1>1. retry_queue \in Seq(Packet) /\ retry_queue' = Tail(retry_queue)
  BY DEF TypeInv, TypeOK, Dequeued
<1> QED  BY <1>1, ShrinkingIds

\* The steps that put no packet anywhere.
Quiet ==
  \/ OnBufferedAmountChange \/ SendDone \/ TrimOne \/ TrimDone
  \/ OnRetryFrom \/ RetryDone \/ ServerReconnects \/ Restart
  \/ CloseSession \/ ReceiveData \/ (\E kind \in Kinds : DcTransmit(kind))

\* What they do to the events, and that they leave the packets alone.
LEMMA QuietEffect ==
  ASSUME TypeInv, Quiet
  PROVE  /\ UNCHANGED <<request_queue, attempts, published,
                        next_packet_sequence>>
         /\ \/ dc_events' = dc_events
            \/ \E e \in Event :
                 /\ e.detail \in {"BufferedAmountChange", "RetryFrom"}
                 /\ dc_events' = Append(dc_events, e)
            \/ /\ dc_events # <<>>
               /\ Head(dc_events).detail \in {"BufferedAmountChange", "RetryFrom"}
               /\ dc_events' = Tail(dc_events)
         /\ \/ retry_queue' = retry_queue
            \/ retry_queue # <<>> /\ Dequeued
         /\ pc # "done" <=> pc' # "done"
<1>1. CASE OnBufferedAmountChange
  BY <1>1 DEF OnBufferedAmountChange, Receives, retry, history, app
<1>2. CASE SendDone
  BY <1>2 DEF SendDone, retry, history, app, TypeInv, TypeOK
<1>3. CASE TrimOne
  BY <1>3 DEF TrimOne, history, app, task
<1>4. CASE TrimDone
  BY <1>4 DEF TrimDone, retry, history, app
<1>5. CASE OnRetryFrom
  BY <1>5 DEF OnRetryFrom, Receives, retry, history, app
<1>6. CASE RetryDone
  BY <1>6 DEF RetryDone, retry, history, app
<1>7. CASE ServerReconnects
  BY <1>7 DEF ServerReconnects, retry, history, app, task
<1>8. CASE Restart
  <2> DEFINE e == AmountEvent("RetryFrom", "reliable", Head(reconnect_response))
  <2>1. /\ UNCHANGED <<request_queue, attempts, published,
                       next_packet_sequence, retry_queue, pc>>
        /\ dc_events' = Emitted(e) \/ dc_events' = dc_events
    BY <1>8 DEF Restart, retry, history, app, task
  <2>2. e \in Event /\ e.detail = "RetryFrom"
    <3>1. reconnect_response \in Seq(Nat) /\ reconnect_response # <<>>
      BY <1>8 DEF Restart, TypeInv, TypeOK
    <3>2. Head(reconnect_response) \in Nat
      BY <3>1, HeadAndTail
    <3> QED  BY <3>2 DEF Event, AmountEvent, Kinds
  <2> QED  BY <2>1, <2>2 DEF Emitted
<1>9. CASE CloseSession
  BY <1>9 DEF CloseSession, retry, history, app, task
<1>10. CASE ReceiveData
  BY <1>10 DEF ReceiveData, retry, history, app, task
<1>11. ASSUME NEW kind \in Kinds, DcTransmit(kind)
       PROVE  /\ UNCHANGED <<request_queue, attempts, published,
                             next_packet_sequence, retry_queue, pc>>
              /\ \/ dc_events' = dc_events
                 \/ \E e \in Event :
                      /\ e.detail \in {"BufferedAmountChange", "RetryFrom"}
                      /\ dc_events' = Append(dc_events, e)
  <2> DEFINE p == Head(dcBuffer[kind])
             e == AmountEvent("BufferedAmountChange", kind, Size(p))
  <2>1. /\ UNCHANGED <<request_queue, attempts, published,
                       next_packet_sequence, retry_queue, pc>>
        /\ dc_events' = Emitted(e)
    BY <1>11 DEF DcTransmit, retry, history, app, task
  <2>2. e \in Event /\ e.detail = "BufferedAmountChange"
    <3>1. dcBuffer[kind] \in Seq(Packet) /\ dcBuffer[kind] # <<>>
      BY <1>11 DEF DcTransmit, TypeInv, TypeOK
    <3>2. p \in Packet
      BY <3>1, HeadAndTail
    <3>3. Size(p) \in Nat
      BY <3>2, SizeIsNat
    <3> QED  BY <3>3 DEF Event, AmountEvent
  <2> QED  BY <2>1, <2>2 DEF Emitted
<1> QED
  BY <1>1, <1>2, <1>3, <1>4, <1>5, <1>6, <1>7, <1>8, <1>9, <1>10, <1>11
     DEF Quiet

LEMMA NumberedShrinks ==
  ASSUME retry_queue # <<>>, Dequeued, NumberInv
  PROVE  retry_queue' \in Seq(Numbered) /\ retry_queue' \in Seq(Old)
BY HeadAndTail DEF Dequeued, NumberInv

LEMMA QuietOrder ==
  ASSUME TypeInv, OrderInv, Quiet
  PROVE  OrderInv'
<1>1. /\ UNCHANGED <<request_queue, attempts, published, next_packet_sequence>>
      /\ \/ dc_events' = dc_events
         \/ \E e \in Event :
              /\ e.detail \in {"BufferedAmountChange", "RetryFrom"}
              /\ dc_events' = Append(dc_events, e)
         \/ /\ dc_events # <<>>
            /\ Head(dc_events).detail \in {"BufferedAmountChange", "RetryFrom"}
            /\ dc_events' = Tail(dc_events)
      /\ \/ retry_queue' = retry_queue
         \/ retry_queue # <<>> /\ Dequeued
      /\ pc # "done" <=> pc' # "done"
  BY QuietEffect
<1>2. IdsIn(retry_queue', Packet) \subseteq IdsIn(retry_queue, Packet)
  BY <1>1, RetryIdsShrink
<1>3. NumberInv'
  BY <1>1, NumberedShrinks DEF OrderInv, NumberInv
<1>4. ASSUME NEW kind \in Kinds,
             NEW detail \in {"PublishPacket", "PublishData"},
             NEW S \in {Fresh, Old}
      PROVE  LET E == EventsOf(detail, kind, S)
             IN \/ dc_events' = dc_events
                \/ \E e \in Event : e \notin E /\ dc_events' = Append(dc_events, e)
                \/ /\ dc_events # <<>>
                   /\ Head(dc_events) \notin E
                   /\ dc_events' = Tail(dc_events)
  BY <1>1 DEF EventsOf
<1>5. ASSUME NEW kind \in Kinds PROVE StageInv(kind)'
  BY <1>1, <1>2, <1>4, QuietStage DEF OrderInv
<1>6. CalledInv'
  <2>1. dc_events \in Seq(Event) /\ "reliable" \in Kinds
    BY DEF TypeInv, TypeOK, Kinds
  <2>2. EventIds(dc_events', EventsOf("PublishPacket", "reliable", Fresh)) =
          EventIds(dc_events, EventsOf("PublishPacket", "reliable", Fresh))
    BY <1>4, <2>1, OtherEvents
  <2> QED  BY <1>1, <2>2 DEF OrderInv, CalledInv, Called
<1>7. AttemptsInv'
  BY <1>1 DEF OrderInv, AttemptsInv
<1> QED  BY <1>3, <1>5, <1>6, <1>7 DEF OrderInv

-----------------------------------------------------------------------------
(***************************************************************************)
(* The steps that move a packet                                            *)
(***************************************************************************)

\* A call: the packet is the last one called.
LEMMA PublishDataStage ==
  ASSUME TypeInv, NEW kind \in Kinds, PublishData(kind), pc # "done",
         NEW k \in Kinds, StageInv(k)
  PROVE  /\ StageInv(k)'
         /\ k = kind => Called(k)' = Called(k) \cup {published[k] + 1}
         /\ k # kind => Called(k)' = Called(k)
<1> DEFINE p == [id |-> published[kind] + 1, sequence |-> 0, waited |-> TRUE]
           e == PacketEvent("PublishPacket", kind, p)
<1>1. /\ published \in [Kinds -> Nat]
      /\ published["lossy"] \in Nat /\ published["reliable"] \in Nat
      /\ MaxCalls \in Nat
      /\ published["lossy"] + published["reliable"] < MaxCalls
      /\ dc_events \in Seq(Event)
  BY ReliableChannelAssumption DEF TypeInv, TypeOK, Kinds, PublishData
<1>2. published[kind] + 1 \in Ids
  BY <1>1 DEF Kinds, Ids
<1>3. p \in Fresh
  BY <1>2 DEF Fresh, Packet
<1>4. /\ e \in Event /\ e.detail = "PublishPacket" /\ e.kind = kind
      /\ e.packet = p /\ p.id = published[kind] + 1
  BY <1>3 DEF Event, PacketEvent, Fresh
<1>5. dc_events' = Append(dc_events, e)
  BY DEF PublishData, Emitted
<1>6. /\ published' = [published EXCEPT ![kind] = published[kind] + 1]
      /\ UNCHANGED <<request_queue, attempts, retry_queue>>
  BY DEF PublishData, retry, history
<1> HIDE DEF e, p
<1>7. ASSUME NEW S
      PROVE  /\ e \notin EventsOf("PublishData", k, S)
             /\ EventIds(dc_events', EventsOf("PublishData", k, S)) =
                  EventIds(dc_events, EventsOf("PublishData", k, S))
  <2>1. e \notin EventsOf("PublishData", k, S)
    BY <1>4 DEF EventsOf
  <2> QED  BY <1>1, <1>4, <1>5, <2>1, EventAdded
<1>8. EventsAscending(dc_events', EventsOf("PublishData", k, Fresh))
  <2>1. EventsAscending(dc_events, EventsOf("PublishData", k, Fresh))
    BY DEF StageInv
  <2>2. e \notin EventsOf("PublishData", k, Fresh)
    BY <1>7
  <2> QED  BY <1>1, <1>4, <1>5, <2>1, <2>2, EventsAscendingGrows
<1>9. /\ Tried(k)' = Tried(k) /\ Queuing(k)' = Queuing(k)
      /\ Announced(k)' = Announced(k)
  BY <1>6, <1>7 DEF Tried, Queuing, Announced
<1>10. Ascending(request_queue[k], Fresh)'
  BY <1>6 DEF StageInv
<1>11. EventsAscending(dc_events, EventsOf("PublishPacket", k, Fresh))
  BY DEF StageInv
<1>12. Staged(Tried(k), Queuing(k), Announced(k), Called(k), published[k])
  BY DEF StageInv
<1>13. CASE k = kind
  <2>1. e \in EventsOf("PublishPacket", k, Fresh)
    BY <1>3, <1>4, <1>13 DEF EventsOf
  <2>2. Called(k)' = Called(k) \cup {published[k] + 1}
    BY <1>1, <1>4, <1>5, <1>13, <2>1, EventAdded DEF Called
  <2>3. published'[k] = published[k] + 1 /\ published[k] \in Nat
    BY <1>1, <1>6, <1>13
  <2>4. Staged(Tried(k), Queuing(k), Announced(k), Called(k)', published'[k])
    BY <1>12, <2>2, <2>3, StagedCalled
  <2>5. Below(Called(k), {e.packet.id})
    <3>1. Called(k) \subseteq 1..published[k]
      BY <1>12 DEF Staged
    <3> QED  BY <1>4, <1>13, <2>3, <3>1 DEF Below
  <2>6. EventsAscending(dc_events', EventsOf("PublishPacket", k, Fresh))
    BY <1>1, <1>4, <1>5, <1>11, <2>5, EventsAscendingGrows DEF Called
  <2> QED
    BY <1>8, <1>9, <1>10, <1>13, <2>2, <2>4, <2>6 DEF StageInv
<1>14. CASE k # kind
  <2>1. e \notin EventsOf("PublishPacket", k, Fresh)
    BY <1>4, <1>14 DEF EventsOf
  <2>2. Called(k)' = Called(k)
    BY <1>1, <1>4, <1>5, <2>1, EventAdded DEF Called
  <2>3. published'[k] = published[k]
    BY <1>1, <1>6, <1>14
  <2>4. EventsAscending(dc_events', EventsOf("PublishPacket", k, Fresh))
    BY <1>1, <1>4, <1>5, <1>11, <2>1, EventsAscendingGrows
  <2> QED
    BY <1>8, <1>9, <1>10, <1>12, <1>14, <2>2, <2>3, <2>4 DEF StageInv
<1> QED  BY <1>13, <1>14

\* Without a task a call changes the number of calls only.
LEMMA PublishDataLate ==
  ASSUME TypeInv, NEW kind \in Kinds, PublishData(kind), pc = "done",
         NEW k \in Kinds, StageInv(k)
  PROVE  StageInv(k)'
<1>1. /\ UNCHANGED <<dc_events, request_queue, attempts, retry_queue>>
      /\ published' = [published EXCEPT ![kind] = published[kind] + 1]
      /\ published \in [Kinds -> Nat]
  BY DEF PublishData, Emitted, retry, history, TypeInv, TypeOK
<1>2. /\ Tried(k)' = Tried(k) /\ Queuing(k)' = Queuing(k)
      /\ Announced(k)' = Announced(k) /\ Called(k)' = Called(k)
  BY <1>1 DEF Tried, Queuing, Announced, Called
<1>3. 1..published[k] \subseteq 1..published'[k]
  BY <1>1
<1>4. Staged(Tried(k), Queuing(k), Announced(k), Called(k), published'[k])
  BY <1>3 DEF StageInv, Staged
<1> QED  BY <1>1, <1>2, <1>4 DEF StageInv

LEMMA IntervalGrows ==
  ASSUME NEW n \in Nat, NEW m \in Nat, n \in 1..(m + 1)
  PROVE  (n..m) \cup {m + 1} = n..(m + 1)
OBVIOUS

LEMMA IntervalShrinks ==
  ASSUME NEW n \in Nat, NEW m \in Nat
  PROVE  (n..m) \ {n} = (n + 1)..m
OBVIOUS

LEMMA PublishDataOrder ==
  ASSUME TypeInv, OrderInv, NEW kind \in Kinds, PublishData(kind)
  PROVE  OrderInv'
<1>1. /\ UNCHANGED <<request_queue, attempts, retry_queue, pc,
                     next_packet_sequence>>
      /\ published' = [published EXCEPT ![kind] = published[kind] + 1]
      /\ published \in [Kinds -> Nat] /\ "reliable" \in Kinds
      /\ next_packet_sequence \in Nat
  BY DEF PublishData, retry, history, task, TypeInv, TypeOK, Kinds
<1>2. NumberInv' /\ AttemptsInv'
  BY <1>1 DEF OrderInv, NumberInv, AttemptsInv
<1>3. ASSUME NEW k \in Kinds PROVE StageInv(k)'
  BY PublishDataStage, PublishDataLate DEF OrderInv
<1>4. next_packet_sequence' \in 1..(published'["reliable"] + 1)
  BY <1>1 DEF OrderInv, CalledInv
<1>5. ASSUME pc # "done"
      PROVE  Called("reliable")' =
               next_packet_sequence'..published'["reliable"]
  <2>1. Called("reliable") = next_packet_sequence..published["reliable"]
    BY <1>5 DEF OrderInv, CalledInv
  <2>2. CASE kind = "reliable"
    <3>1. Called("reliable")' =
            Called("reliable") \cup {published["reliable"] + 1}
      BY <1>1, <1>5, <2>2, PublishDataStage DEF OrderInv
    <3>2. next_packet_sequence \in 1..(published["reliable"] + 1)
      BY DEF OrderInv, CalledInv
    <3>3. published'["reliable"] = published["reliable"] + 1
      BY <1>1, <2>2
    <3>4. published["reliable"] \in Nat
      BY <1>1
    <3> QED  BY <1>1, <2>1, <3>1, <3>2, <3>3, <3>4, IntervalGrows
  <2>3. CASE kind # "reliable"
    <3>1. Called("reliable")' = Called("reliable")
      BY <1>1, <1>5, <2>3, PublishDataStage DEF OrderInv
    <3> QED  BY <1>1, <2>1, <2>3, <3>1
  <2> QED  BY <2>2, <2>3
<1>6. CalledInv'
  BY <1>1, <1>4, <1>5 DEF CalledInv
<1> QED  BY <1>2, <1>3, <1>6 DEF OrderInv

\* The task takes the calls of a kind in their order, and what is still called
\* comes after it.
LEMMA HeadCalled ==
  ASSUME TypeInv, OrderInv, Receives("PublishPacket")
  PROVE  LET e == Head(dc_events)
             C == EventsOf("PublishPacket", e.kind, Fresh)
         IN /\ e.kind \in Kinds /\ e \in C
            /\ e.packet \in Fresh
            /\ Called(e.kind) = EventIds(Tail(dc_events), C) \cup {e.packet.id}
            /\ Below({e.packet.id}, EventIds(Tail(dc_events), C))
            /\ EventsAscending(Tail(dc_events), C)
            /\ e.kind = "reliable" => e.packet.id = next_packet_sequence
<1> DEFINE e == Head(dc_events)
           C == EventsOf("PublishPacket", e.kind, Fresh)
<1>1. dc_events # <<>> /\ e.detail = "PublishPacket" /\ pc # "done"
  BY DEF Receives
<1>2. e \in GoodEvents /\ e \in Event /\ dc_events \in Seq(Event)
  BY <1>1, HeadEvent DEF TypeInv, TypeOK
<1>3. e.packet \in Fresh /\ e.kind \in Kinds
  BY <1>1, <1>2 DEF GoodEvents, Event
<1>4. e \in C
  BY <1>1, <1>2, <1>3 DEF EventsOf
<1>5. EventsAscending(dc_events, C)
  BY <1>3 DEF OrderInv, StageInv
<1> HIDE DEF C
<1>6. /\ EventsAscending(Tail(dc_events), C)
      /\ Below({e.packet.id}, EventIds(Tail(dc_events), C))
  BY <1>1, <1>2, <1>4, <1>5, EventsAscendingShrinks
<1>7. EventIds(dc_events, C) = EventIds(Tail(dc_events), C) \cup {e.packet.id}
  BY <1>1, <1>2, <1>4, EventTaken
<1>8. Called(e.kind) = EventIds(dc_events, C)
  BY DEF Called, C
<1>9. ASSUME e.kind = "reliable" PROVE e.packet.id = next_packet_sequence
  <2> DEFINE x == e.packet.id
             n == next_packet_sequence
             m == published["reliable"]
  <2>1. EventIds(Tail(dc_events), C) \cup {x} = n..m
    BY <1>1, <1>7, <1>8, <1>9 DEF OrderInv, CalledInv
  <2>2. n \in Nat /\ m \in Nat
    BY DEF TypeInv, TypeOK, Kinds
  <2> HIDE DEF x, n, m
  <2>3. x \in n..m
    BY <2>1
  <2>4. n \in n..m
    BY <2>2, <2>3
  <2>5. ASSUME n # x PROVE FALSE
    <3>1. n \in EventIds(Tail(dc_events), C)
      BY <2>1, <2>4, <2>5
    <3>2. x < n
      BY <1>6, <3>1 DEF Below, x
    <3> QED  BY <2>2, <2>3, <3>2
  <2> QED  BY <2>5 DEF x, n
<1> QED  BY <1>3, <1>4, <1>6, <1>7, <1>8, <1>9 DEF C

\* An event of one kind does not concern the stages of the other.
LEMMA OtherKind ==
  ASSUME NEW e \in Event, NEW k, e.kind # k, NEW detail, NEW S
  PROVE  e \notin EventsOf(detail, k, S)
BY DEF EventsOf

LEMMA AssignSequenceStage ==
  ASSUME TypeInv, OrderInv, AssignSequence, NEW k \in Kinds
  PROVE  LET e == Head(dc_events)
         IN /\ StageInv(k)'
            /\ k = e.kind => Called(k)' = Called(k) \ {e.packet.id}
            /\ k # e.kind => Called(k)' = Called(k)
<1> DEFINE e == Head(dc_events)
           p == IF e.kind = "reliable"
                THEN [e.packet EXCEPT !.sequence = next_packet_sequence]
                ELSE e.packet
           f == PacketEvent("PublishData", e.kind, p)
           t == Tail(dc_events)
<1>1. /\ Receives("PublishPacket")
      /\ dc_events # <<>>
      /\ e.detail = "PublishPacket"
      /\ dc_events' = Append(t, f)
      /\ UNCHANGED <<request_queue, attempts, retry_queue, published>>
  BY DEF AssignSequence, Receives, retry, history, app
<1>2. /\ e.kind \in Kinds /\ e.packet \in Fresh
      /\ e \in Event /\ t \in Seq(Event) /\ dc_events \in Seq(Event)
  BY <1>1, HeadCalled, HeadEvent DEF TypeInv, TypeOK
<1>3. /\ p \in Fresh /\ p.id = e.packet.id
  BY <1>2 DEF Fresh, Packet, TypeInv, TypeOK
<1>4. /\ f \in Event /\ f.detail = "PublishData" /\ f.kind = e.kind
      /\ f.packet = p
  BY <1>2, <1>3 DEF Event, PacketEvent, Fresh
<1> DEFINE C == EventsOf("PublishPacket", k, Fresh)
           A == EventsOf("PublishData", k, Fresh)
           O == EventsOf("PublishData", k, Old)
           x == e.packet.id
<1> HIDE DEF f, p
<1>5. f \notin C /\ f \notin O /\ e \notin A /\ e \notin O
  BY <1>1, <1>3, <1>4, FreshOrOld DEF EventsOf
<1>6. /\ Staged(Tried(k), Queuing(k), Announced(k), Called(k), published[k])
      /\ Ascending(request_queue[k], Fresh)
      /\ EventsAscending(dc_events, A)
      /\ EventsAscending(dc_events, C)
  BY DEF OrderInv, StageInv
<1>7. /\ Called(k) = EventIds(dc_events, C) /\ Called(k)' = EventIds(dc_events', C)
      /\ Announced(k) = EventIds(dc_events, A)
      /\ Announced(k)' = EventIds(dc_events', A)
      /\ Queuing(k)' = Queuing(k)
  BY <1>1 DEF Called, Announced, Queuing
<1> HIDE DEF C, A, O
<1>8. /\ EventIds(t, A) = EventIds(dc_events, A)
      /\ EventsAscending(t, A)
      /\ EventIds(t, O) = EventIds(dc_events, O)
      /\ EventsAscending(t, C)
  BY <1>1, <1>2, <1>5, <1>6, OtherEvents, EventsAscendingShrinks
<1>9. /\ EventIds(dc_events', C) = EventIds(t, C)
      /\ EventIds(dc_events', O) = EventIds(t, O)
      /\ EventsAscending(dc_events', C)
  <2>1. EventIds(dc_events', C) = EventIds(t, C)
    BY <1>1, <1>2, <1>4, <1>5, EventAdded
  <2>2. EventIds(dc_events', O) = EventIds(t, O)
    BY <1>1, <1>2, <1>4, <1>5, EventAdded
  <2>3. EventsAscending(dc_events', C)
    BY <1>1, <1>2, <1>4, <1>5, <1>8, EventsAscendingGrows
  <2> QED  BY <2>1, <2>2, <2>3
<1>10. Tried(k)' = Tried(k)
  BY <1>1, <1>8, <1>9 DEF Tried, O
<1>11. CASE k = e.kind
  <2>1. /\ e \in C
        /\ Called(k) = EventIds(t, C) \cup {x}
        /\ Below({x}, EventIds(t, C))
    BY <1>1, <1>11, HeadCalled DEF C
  <2>2. f \in A
    BY <1>3, <1>4, <1>11 DEF A, EventsOf
  <2>3. EventIds(dc_events', A) = EventIds(t, A) \cup {x}
    <3>1. f.packet.id = x
      BY <1>3, <1>4
    <3>2. EventIds(Append(t, f), A) = EventIds(t, A) \cup {f.packet.id}
      BY <1>2, <1>4, <2>2, EventAdded
    <3> QED  BY <1>1, <3>1, <3>2
  <2>4. Called(k)' = EventIds(t, C) /\ Announced(k)' = Announced(k) \cup {x}
    BY <1>7, <1>8, <1>9, <2>3
  <2>5. Staged(Tried(k), Queuing(k), Announced(k)', Called(k)', published[k])
    BY <1>6, <2>1, <2>4, StagedAnnounced
  <2>6. EventsAscending(dc_events', A)
    <3>1. Below(EventIds(t, A), {x})
      BY <1>6, <1>7, <1>8, <2>1 DEF Staged, Below
    <3> QED  BY <1>1, <1>2, <1>3, <1>4, <1>8, <3>1, EventsAscendingGrows
  <2>7. x \notin EventIds(t, C)
    <3>1. \A y \in EventIds(t, C) : x < y
      BY <2>1 DEF Below
    <3>2. x \in Int
      BY <1>2, ReliableChannelAssumption DEF Fresh, Packet, Ids
    <3> QED  BY <3>1, <3>2
  <2>8. Called(k)' = Called(k) \ {x}
    BY <2>1, <2>4, <2>7
  <2>9. StageInv(k)'
    BY <1>1, <1>6, <1>7, <1>9, <1>10, <2>5, <2>6 DEF StageInv, A, C
  <2> QED  BY <1>11, <2>8, <2>9
<1>12. CASE k # e.kind
  <2>1. e \notin C /\ f \notin A
    BY <1>2, <1>4, <1>12, OtherKind DEF C, A
  <2>2. EventIds(t, C) = EventIds(dc_events, C)
    BY <1>1, <1>2, <2>1, OtherEvents
  <2>3. EventIds(dc_events', A) = EventIds(t, A)
    BY <1>1, <1>2, <1>4, <2>1, EventAdded
  <2>4. EventsAscending(dc_events', A)
    BY <1>1, <1>2, <1>4, <1>8, <2>1, EventsAscendingGrows
  <2>5. Called(k)' = Called(k) /\ Announced(k)' = Announced(k)
    BY <1>7, <1>8, <1>9, <2>2, <2>3
  <2>6. StageInv(k)'
    BY <1>1, <1>6, <1>7, <1>9, <1>10, <2>4, <2>5 DEF StageInv, A, C
  <2> QED  BY <1>12, <2>5, <2>6
<1> QED  BY <1>11, <1>12

LEMMA AssignSequenceOrder ==
  ASSUME TypeInv, OrderInv, AssignSequence
  PROVE  OrderInv'
<1> DEFINE e == Head(dc_events)
<1>1. /\ Receives("PublishPacket")
      /\ UNCHANGED <<request_queue, attempts, retry_queue, published, pc>>
      /\ next_packet_sequence' = IF e.kind = "reliable"
                                 THEN next_packet_sequence + 1
                                 ELSE next_packet_sequence
      /\ pc # "done"
      /\ next_packet_sequence \in Nat /\ published["reliable"] \in Nat
      /\ "reliable" \in Kinds
  BY DEF AssignSequence, Receives, retry, history, app, task, TypeInv, TypeOK,
         Kinds
<1>2. NumberInv' /\ AttemptsInv'
  BY <1>1 DEF OrderInv, NumberInv, AttemptsInv
<1>3. ASSUME NEW k \in Kinds PROVE StageInv(k)'
  BY AssignSequenceStage
<1>4. Called("reliable") = next_packet_sequence..published["reliable"]
  BY <1>1 DEF OrderInv, CalledInv
<1>5. next_packet_sequence \in 1..(published["reliable"] + 1)
  BY DEF OrderInv, CalledInv
<1>6. CASE e.kind = "reliable"
  <2>1. e.packet.id = next_packet_sequence /\ e.packet.id \in Called("reliable")
    BY <1>1, <1>6, HeadCalled
  <2>2. Called("reliable")' = Called("reliable") \ {next_packet_sequence}
    BY <1>1, <1>6, <2>1, AssignSequenceStage
  <2>3. next_packet_sequence \in next_packet_sequence..published["reliable"]
    BY <1>4, <2>1
  <2>4. /\ next_packet_sequence' = next_packet_sequence + 1
        /\ published'["reliable"] = published["reliable"]
    BY <1>1, <1>6
  <2>5. Called("reliable")' = next_packet_sequence'..published'["reliable"]
    BY <1>1, <1>4, <2>2, <2>4, IntervalShrinks
  <2>6. next_packet_sequence' \in 1..(published'["reliable"] + 1)
    BY <1>1, <1>5, <2>3, <2>4
  <2>7. CalledInv'
    BY <2>5, <2>6 DEF CalledInv
  <2> QED  BY <1>2, <1>3, <2>7 DEF OrderInv
<1>7. CASE e.kind # "reliable"
  <2>1. Called("reliable")' = Called("reliable")
    BY <1>1, <1>7, AssignSequenceStage
  <2>2. /\ next_packet_sequence' = next_packet_sequence
        /\ published'["reliable"] = published["reliable"]
    BY <1>1, <1>7
  <2>3. Called("reliable")' = next_packet_sequence'..published'["reliable"]
    BY <1>4, <2>1, <2>2
  <2>4. next_packet_sequence' \in 1..(published'["reliable"] + 1)
    BY <1>5, <2>2
  <2>5. CalledInv'
    BY <2>3, <2>4 DEF CalledInv
  <2> QED  BY <1>2, <1>3, <2>5 DEF OrderInv
<1> QED  BY <1>2, <1>3, <1>6, <1>7 DEF OrderInv

LEMMA QueueDataStage ==
  ASSUME TypeInv, QueueData, NEW k \in Kinds, StageInv(k)
  PROVE  StageInv(k)' /\ Called(k)' = Called(k)
<1> DEFINE e == Head(dc_events)
           p == e.packet
           t == Tail(dc_events)
           C == EventsOf("PublishPacket", k, Fresh)
           A == EventsOf("PublishData", k, Fresh)
           O == EventsOf("PublishData", k, Old)
<1>1. /\ dc_events # <<>>
      /\ e.detail = "PublishData"
      /\ dc_events' = t
      /\ request_queue' =
           [request_queue EXCEPT ![e.kind] = Append(@, e.packet)]
      /\ UNCHANGED <<attempts, retry_queue, published>>
  BY DEF QueueData, Receives, Queued, retry, app, history
<1>2. /\ p \in Packet /\ e.kind \in Kinds
      /\ e \in Event /\ t \in Seq(Event) /\ dc_events \in Seq(Event)
      /\ request_queue \in [Kinds -> Seq(Packet)]
  BY <1>1, HeadEvent DEF GoodEvents, Event, TypeInv, TypeOK
<1>3. e \notin C
  BY <1>1 DEF EventsOf
<1>4. /\ Staged(Tried(k), Queuing(k), Announced(k), Called(k), published[k])
      /\ Ascending(request_queue[k], Fresh)
      /\ EventsAscending(dc_events, A)
      /\ EventsAscending(dc_events, C)
  BY DEF StageInv
<1>5. /\ Called(k) = EventIds(dc_events, C) /\ Called(k)' = EventIds(t, C)
      /\ Announced(k) = EventIds(dc_events, A)
      /\ Announced(k)' = EventIds(t, A)
      /\ Queuing(k) = IdsIn(request_queue[k], Fresh)
      /\ Queuing(k)' = IdsIn(request_queue'[k], Fresh)
  BY <1>1 DEF Called, Announced, Queuing
<1>6. /\ Tried(k) = UNION {IdsIn(attempts[k], Packet),
                          IdsIn(request_queue[k], Old), EventIds(dc_events, O),
                          IF k = "reliable" THEN IdsIn(retry_queue, Packet)
                          ELSE {}}
      /\ Tried(k)' = UNION {IdsIn(attempts[k], Packet),
                           IdsIn(request_queue'[k], Old), EventIds(t, O),
                           IF k = "reliable" THEN IdsIn(retry_queue, Packet)
                           ELSE {}}
  BY <1>1 DEF Tried
<1>7. e.kind = k => (e \in A <=> p \in Fresh) /\ (e \in O <=> p \in Old)
  BY <1>1, <1>2 DEF EventsOf
<1>8. e.kind # k => e \notin A /\ e \notin O
  BY DEF EventsOf
<1> HIDE DEF C, A, O
<1>9. /\ EventsAscending(t, A) /\ EventsAscending(t, C)
      /\ e \in A => Below({p.id}, EventIds(t, A))
  BY <1>1, <1>2, <1>4, EventsAscendingShrinks
<1>10. Called(k)' = Called(k)
  BY <1>1, <1>2, <1>3, <1>5, EventTaken
<1>11. CASE e.kind # k
  <2>1. request_queue'[k] = request_queue[k]
    BY <1>1, <1>2, <1>11
  <2>2. EventIds(dc_events, A) = EventIds(t, A)
    BY <1>1, <1>2, <1>8, <1>11, EventTaken
  <2>3. EventIds(dc_events, O) = EventIds(t, O)
    BY <1>1, <1>2, <1>8, <1>11, EventTaken
  <2>4. /\ Tried(k)' = Tried(k) /\ Queuing(k)' = Queuing(k)
        /\ Announced(k)' = Announced(k)
    BY <1>5, <1>6, <2>1, <2>2, <2>3
  <2> QED
    BY <1>1, <1>4, <1>9, <1>10, <2>1, <2>4 DEF StageInv, A, C
<1>12. CASE e.kind = k /\ p \in Fresh
  <2>1. /\ request_queue'[k] = Append(request_queue[k], p)
        /\ request_queue[k] \in Seq(Packet)
    BY <1>1, <1>2, <1>12
  <2>2. e \in A /\ e \notin O /\ p \notin Old
    BY <1>7, <1>12, FreshOrOld
  <2>3. EventIds(dc_events, A) = EventIds(t, A) \cup {p.id}
    BY <1>1, <1>2, <2>2, EventTaken
  <2>4. EventIds(dc_events, O) = EventIds(t, O)
    BY <1>1, <1>2, <2>2, EventTaken
  <2>5. Queuing(k)' = Queuing(k) \cup {p.id}
    BY <1>2, <1>5, <1>12, <2>1, PacketAdded
  <2>6. IdsIn(request_queue'[k], Old) = IdsIn(request_queue[k], Old)
    BY <1>2, <2>1, <2>2, PacketAdded
  <2>7. Tried(k)' = Tried(k)
    BY <1>6, <2>4, <2>6
  <2>8. /\ p.id \in Announced(k) /\ Announced(k)' \subseteq Announced(k)
        /\ Below({p.id}, Announced(k)')
    BY <1>5, <1>9, <2>2, <2>3
  <2>9. Staged(Tried(k)', Queuing(k)', Announced(k)', Called(k)', published[k])
    BY <1>4, <1>10, <2>5, <2>7, <2>8, StagedQueued
  <2>10. Ascending(request_queue'[k], Fresh)
    <3>1. Below(IdsIn(request_queue[k], Fresh), {p.id})
      BY <1>4, <1>5, <2>8 DEF Staged, Below
    <3> QED  BY <1>2, <1>4, <2>1, <3>1, AscendingGrows
  <2> QED  BY <1>1, <1>9, <1>10, <2>9, <2>10 DEF StageInv, A, C
<1>13. CASE e.kind = k /\ p \notin Fresh
  <2>1. /\ request_queue'[k] = Append(request_queue[k], p)
        /\ request_queue[k] \in Seq(Packet)
    BY <1>1, <1>2, <1>13
  <2>2. e \notin A /\ e \in O /\ p \in Old
    BY <1>2, <1>7, <1>13, FreshOrOld
  <2>3. EventIds(dc_events, A) = EventIds(t, A)
    BY <1>1, <1>2, <2>2, EventTaken
  <2>4. EventIds(dc_events, O) = EventIds(t, O) \cup {p.id}
    BY <1>1, <1>2, <2>2, EventTaken
  <2>5. Queuing(k)' = Queuing(k)
    BY <1>2, <1>5, <1>13, <2>1, PacketAdded
  <2>6. IdsIn(request_queue'[k], Old) = IdsIn(request_queue[k], Old) \cup {p.id}
    BY <1>2, <2>1, <2>2, PacketAdded
  <2>7. Tried(k)' = Tried(k)
    BY <1>6, <2>4, <2>6
  <2>8. Announced(k)' = Announced(k)
    BY <1>5, <2>3
  <2>9. Ascending(request_queue'[k], Fresh)
    BY <1>2, <1>4, <1>13, <2>1, AscendingGrows
  <2> QED
    BY <1>1, <1>4, <1>9, <1>10, <2>5, <2>7, <2>8, <2>9 DEF StageInv, A, C
<1> QED  BY <1>10, <1>11, <1>12, <1>13

LEMMA QueueDataOrder ==
  ASSUME TypeInv, OrderInv, QueueData
  PROVE  OrderInv'
<1> DEFINE e == Head(dc_events)
<1>1. /\ dc_events # <<>>
      /\ e.detail = "PublishData"
      /\ request_queue' =
           [request_queue EXCEPT ![e.kind] = Append(@, e.packet)]
      /\ UNCHANGED <<attempts, retry_queue, published, next_packet_sequence>>
      /\ pc # "done" /\ pc' # "done"
      /\ "reliable" \in Kinds
  BY DEF QueueData, Receives, Queued, retry, app, history, Kinds
<1>2. /\ e.kind \in Kinds /\ request_queue \in [Kinds -> Seq(Packet)]
      /\ e.kind = "reliable" => e.packet \in Numbered
  BY <1>1, HeadEvent DEF GoodEvents, Event, TypeInv, TypeOK
<1>3. request_queue'["reliable"] \in Seq(Numbered)
  <2>1. request_queue["reliable"] \in Seq(Numbered)
    BY DEF OrderInv, NumberInv
  <2>2. CASE e.kind = "reliable"
    <3>1. Append(request_queue["reliable"], e.packet) \in Seq(Numbered)
      BY <1>2, <2>1, <2>2, Appended
    <3> QED  BY <1>1, <1>2, <2>2, <3>1
  <2>3. CASE e.kind # "reliable"
    BY <1>1, <1>2, <2>1, <2>3
  <2> QED  BY <2>2, <2>3
<1>4. NumberInv' /\ AttemptsInv'
  BY <1>1, <1>3 DEF OrderInv, NumberInv, AttemptsInv
<1>5. ASSUME NEW k \in Kinds PROVE StageInv(k)' /\ Called(k)' = Called(k)
  BY QueueDataStage DEF OrderInv
<1>6. CalledInv'
  BY <1>1, <1>5 DEF OrderInv, CalledInv
<1> QED  BY <1>4, <1>5, <1>6 DEF OrderInv

\* What the task does with a packet and what it means for the other kind.
LEMMA SendOneStage ==
  ASSUME TypeInv, SendOne, NEW k \in Kinds, StageInv(k)
  PROVE  StageInv(k)' /\ Called(k)' = Called(k)
<1> DEFINE q == request_queue[sending]
           p == Head(q)
           kept == [p EXCEPT !.waited = FALSE]
<1>1. /\ sending \in Kinds
      /\ q \in Seq(Packet) /\ q # <<>>
      /\ p \in Packet
      /\ Tail(q) \in Seq(Packet)
  BY HeadQueued DEF SendOne
<1>2. /\ request_queue' = [request_queue EXCEPT ![sending] = Tail(q)]
      /\ attempts' = [attempts EXCEPT ![sending] = Append(attempts[sending], p)]
      /\ UNCHANGED <<dc_events, published>>
      /\ Retain(p)
  BY DEF SendOne
<1>3. /\ request_queue \in [Kinds -> Seq(Packet)]
      /\ attempts \in [Kinds -> Seq(Packet)]
      /\ retry_queue \in Seq(Packet)
  BY DEF TypeInv, TypeOK
<1>4. /\ sending = "reliable" => retry_queue' = Append(retry_queue, kept)
      /\ sending # "reliable" => retry_queue' = retry_queue
  BY <1>2 DEF Retain, retry
<1>5. kept \in Packet /\ kept.id = p.id
  BY <1>1, CopyKept
<1> HIDE DEF kept
<1>6. /\ Staged(Tried(k), Queuing(k), Announced(k), Called(k), published[k])
      /\ Ascending(request_queue[k], Fresh)
      /\ EventsAscending(dc_events, EventsOf("PublishData", k, Fresh))
      /\ EventsAscending(dc_events, EventsOf("PublishPacket", k, Fresh))
  BY DEF StageInv
<1>7. Called(k)' = Called(k) /\ Announced(k)' = Announced(k)
  BY <1>2 DEF Called, Announced
<1>8. CASE k # sending
  <2>1. /\ request_queue'[k] = request_queue[k]
        /\ attempts'[k] = attempts[k]
        /\ k = "reliable" => retry_queue' = retry_queue
    BY <1>1, <1>2, <1>3, <1>4, <1>8 DEF Kinds
  <2>2. Tried(k)' = Tried(k) /\ Queuing(k)' = Queuing(k)
    BY <1>2, <2>1 DEF Tried, Queuing
  <2> QED  BY <1>2, <1>6, <1>7, <2>1, <2>2 DEF StageInv
<1>9. CASE k = sending
  <2>1. /\ request_queue'[k] = Tail(q) /\ request_queue[k] = q
        /\ attempts'[k] = Append(attempts[k], p)
        /\ attempts[k] \in Seq(Packet)
    BY <1>1, <1>2, <1>3, <1>9
  <2>2. IdsIn(attempts'[k], Packet) = IdsIn(attempts[k], Packet) \cup {p.id}
    BY <1>1, <2>1, PacketAdded
  <2>3. k = "reliable" =>
          IdsIn(retry_queue', Packet) = IdsIn(retry_queue, Packet) \cup {p.id}
    <3>1. IdsIn(Append(retry_queue, kept), Packet) =
            IdsIn(retry_queue, Packet) \cup {kept.id}
      BY <1>3, <1>5, PacketAdded
    <3> QED  BY <1>4, <1>5, <1>9, <3>1
  <2>4. IdsIn(Tail(q), Old) \subseteq IdsIn(q, Old)
    BY <1>1, ShrinkingIds
  <2>5. Tried(k)' \subseteq Tried(k) \cup {p.id}
    <3>1. UNCHANGED dc_events
      BY <1>2
    <3> QED  BY <2>1, <2>2, <2>3, <2>4, <3>1 DEF Tried
  <2>6. /\ Queuing(k)' = IdsIn(Tail(q), Fresh) /\ Queuing(k) = IdsIn(q, Fresh)
    BY <2>1 DEF Queuing
  <2>7. Queuing(k)' \subseteq Queuing(k)
    BY <1>1, <2>6, ShrinkingIds
  <2>8. /\ Ascending(Tail(q), Fresh)
        /\ p \in Fresh => Below({p.id}, IdsIn(Tail(q), Fresh))
    BY <1>1, <1>6, <2>1, AscendingShrinks
  <2>9. Staged(Tried(k)', Queuing(k)', Announced(k), Called(k), published[k])
    <3>1. CASE p \in Fresh
      <4>1. p.id \in Queuing(k)
        BY <1>1, <2>6, <3>1, PacketTaken
      <4> QED  BY <1>6, <2>5, <2>6, <2>7, <2>8, <3>1, <4>1, StagedTried
    <3>2. CASE p \notin Fresh
      <4>1. p \in Old
        BY <1>1, <3>2, FreshOrOld
      <4>2. p.id \in IdsIn(request_queue[k], Old)
        BY <1>1, <2>1, <4>1, PacketTaken
      <4>3. Tried(k)' \subseteq Tried(k)
        BY <2>5, <4>2 DEF Tried
      <4> QED  BY <1>6, <2>7, <4>3, StagedKeeps
    <3> QED  BY <3>1, <3>2
  <2> QED  BY <1>2, <1>6, <1>7, <2>1, <2>8, <2>9 DEF StageInv
<1> QED  BY <1>7, <1>8, <1>9

LEMMA SendOneOrder ==
  ASSUME TypeInv, OrderInv, SendOne
  PROVE  OrderInv'
<1> DEFINE q == request_queue[sending]
           p == Head(q)
           kept == [p EXCEPT !.waited = FALSE]
<1>1. /\ sending \in Kinds
      /\ q \in Seq(Packet) /\ q # <<>>
      /\ p \in Packet
      /\ Tail(q) \in Seq(Packet)
  BY HeadQueued DEF SendOne
<1>2. /\ request_queue' = [request_queue EXCEPT ![sending] = Tail(q)]
      /\ attempts' = [attempts EXCEPT ![sending] = Append(attempts[sending], p)]
      /\ UNCHANGED <<dc_events, published, next_packet_sequence, pc>>
      /\ Retain(p)
  BY DEF SendOne, task
<1>3. /\ request_queue \in [Kinds -> Seq(Packet)]
      /\ attempts \in [Kinds -> Seq(Packet)]
      /\ "reliable" \in Kinds
  BY DEF TypeInv, TypeOK, Kinds
<1>4. /\ sending = "reliable" => retry_queue' = Append(retry_queue, kept)
      /\ sending # "reliable" => retry_queue' = retry_queue
  BY <1>2 DEF Retain, retry
<1>5. kept \in Old /\ kept \in Packet /\ kept.id = p.id
      /\ kept.sequence = p.sequence
  BY <1>1, CopyKept
<1> HIDE DEF kept
<1>6. NumberInv'
  <2>1. /\ request_queue["reliable"] \in Seq(Numbered)
        /\ attempts["reliable"] \in Seq(Numbered)
        /\ retry_queue \in Seq(Numbered) /\ retry_queue \in Seq(Old)
    BY DEF OrderInv, NumberInv
  <2>2. CASE sending = "reliable"
    <3>1. p \in Numbered /\ Tail(q) \in Seq(Numbered)
      BY <1>1, <2>1, <2>2, HeadAndTail
    <3>2. kept \in Numbered
      BY <1>5, <3>1 DEF Numbered
    <3>3. Append(attempts["reliable"], p) \in Seq(Numbered)
      BY <2>1, <3>1, Appended
    <3>4. retry_queue' \in Seq(Numbered)
      BY <1>4, <2>1, <2>2, <3>2, Appended
    <3>5. retry_queue' \in Seq(Old)
      BY <1>4, <1>5, <2>1, <2>2, Appended
    <3>6. /\ request_queue'["reliable"] = Tail(q)
          /\ attempts'["reliable"] = Append(attempts["reliable"], p)
      BY <1>2, <1>3, <2>2
    <3> QED  BY <3>1, <3>3, <3>4, <3>5, <3>6 DEF NumberInv
  <2>3. CASE sending # "reliable"
    <3>1. /\ request_queue'["reliable"] = request_queue["reliable"]
          /\ attempts'["reliable"] = attempts["reliable"]
      BY <1>2, <1>3, <2>3
    <3> QED  BY <1>4, <2>1, <2>3, <3>1 DEF NumberInv
  <2> QED  BY <2>2, <2>3
<1>7. ASSUME NEW k \in Kinds PROVE StageInv(k)' /\ Called(k)' = Called(k)
  BY SendOneStage DEF OrderInv
<1>8. CalledInv'
  BY <1>2, <1>3, <1>7 DEF OrderInv, CalledInv
<1>9. AttemptsInv'
  <2> DEFINE a == attempts[sending]
  <2>1. a \in Seq(Packet)
    BY <1>1, <1>3
  <2>2. /\ Places(Append(a, p), Fresh) \subseteq
             Places(a, Fresh) \cup (IF p \in Fresh THEN {Len(a) + 1} ELSE {})
        /\ \A i \in 1..Len(a) : Append(a, p)[i] = a[i]
        /\ Append(a, p)[Len(a) + 1] = p
        /\ Places(a, Fresh) \subseteq 1..Len(a)
        /\ Len(a) \in Nat
    BY <1>1, <2>1, PlacesGrow
  <2>3. ASSUME p \in Fresh, NEW i \in 1..Len(a) PROVE a[i].id < p.id
    <3>1. p.id \in Queuing(sending)
      BY <1>1, <2>3, PacketTaken DEF Queuing
    <3>2. a[i].id \in Tried(sending)
      <4>1. a[i] \in Packet
        BY <2>1
      <4>2. i \in Places(a, Packet)
        BY <4>1 DEF Places
      <4>3. a[i].id \in IdsIn(a, Packet)
        BY <4>2 DEF IdsIn
      <4> QED  BY <4>3 DEF Tried
    <3>3. Below(Tried(sending), Queuing(sending))
      BY <1>1 DEF OrderInv, StageInv, Staged
    <3> QED  BY <3>1, <3>2, <3>3 DEF Below
  <2>4. \A j \in Places(a, Fresh) : \A i \in 1..(j - 1) : a[i].id < a[j].id
    BY <1>1 DEF OrderInv, AttemptsInv
  <2>5. ASSUME NEW j \in Places(Append(a, p), Fresh), NEW i \in 1..(j - 1)
        PROVE  Append(a, p)[i].id < Append(a, p)[j].id
    <3>1. CASE j \in Places(a, Fresh)
      <4>1. j \in 1..Len(a) /\ i \in 1..Len(a)
        BY <2>2, <3>1
      <4> QED  BY <2>2, <2>4, <3>1, <4>1
    <3>2. CASE j \notin Places(a, Fresh)
      <4>1. p \in Fresh /\ j = Len(a) + 1
        BY <2>2, <3>2
      <4>2. i \in 1..Len(a)
        BY <2>2, <4>1
      <4> QED  BY <2>2, <2>3, <4>1, <4>2
    <3> QED  BY <3>1, <3>2
  <2>6. ASSUME NEW k \in Kinds
        PROVE  \A j \in Places(attempts'[k], Fresh) :
                 \A i \in 1..(j - 1) : attempts'[k][i].id < attempts'[k][j].id
    <3>1. CASE k = sending
      <4>1. attempts'[k] = Append(a, p)
        BY <1>1, <1>2, <1>3, <3>1
      <4> QED  BY <2>5, <4>1
    <3>2. CASE k # sending
      <4>1. attempts'[k] = attempts[k]
        BY <1>1, <1>2, <1>3, <3>2
      <4> QED  BY <4>1 DEF OrderInv, AttemptsInv
    <3> QED  BY <3>1, <3>2
  <2> QED  BY <2>6 DEF AttemptsInv
<1> QED  BY <1>6, <1>7, <1>8, <1>9 DEF OrderInv

\* A packet of the retry queue is announced again, or is gone.
LEMMA RetryOneOrder ==
  ASSUME TypeInv, OrderInv, RetryOne
  PROVE  OrderInv'
<1> DEFINE p == Head(retry_queue)
           e == PacketEvent("PublishData", "reliable", p)
<1>1. /\ retry_queue # <<>>
      /\ Dequeued
      /\ dc_events' = Append(dc_events, e) \/ dc_events' = dc_events
      /\ UNCHANGED <<request_queue, attempts, published,
                     next_packet_sequence, pc>>
  BY DEF RetryOne, app, history, task
<1>2. retry_queue \in Seq(Packet) /\ dc_events \in Seq(Event)
  BY DEF TypeInv, TypeOK
<1>3. p \in Old /\ p \in Packet
  BY <1>1, <1>2, HeadAndTail DEF OrderInv, NumberInv
<1>4. /\ e \in Event /\ e.detail = "PublishData" /\ e.kind = "reliable"
      /\ e.packet = p
  BY <1>3 DEF Event, PacketEvent, Kinds
<1> HIDE DEF e
<1>5. NumberInv' /\ AttemptsInv'
  BY <1>1, NumberedShrinks DEF OrderInv, NumberInv, AttemptsInv
<1>6. IdsIn(retry_queue', Packet) \subseteq IdsIn(retry_queue, Packet)
  BY <1>1, RetryIdsShrink
<1>7. p.id \in IdsIn(retry_queue, Packet)
  BY <1>1, <1>2, <1>3, PacketTaken
<1>8. ASSUME NEW k \in Kinds PROVE StageInv(k)' /\ Called(k)' = Called(k)
  <2> DEFINE C == EventsOf("PublishPacket", k, Fresh)
             A == EventsOf("PublishData", k, Fresh)
             O == EventsOf("PublishData", k, Old)
  <2>1. e \notin C /\ e \notin A /\ (e \in O => k = "reliable")
    BY <1>3, <1>4, FreshOrOld DEF EventsOf
  <2>2. /\ Staged(Tried(k), Queuing(k), Announced(k), Called(k), published[k])
        /\ Ascending(request_queue[k], Fresh)
        /\ EventsAscending(dc_events, A)
        /\ EventsAscending(dc_events, C)
    BY <1>8 DEF OrderInv, StageInv
  <2>3. /\ Called(k) = EventIds(dc_events, C)
        /\ Called(k)' = EventIds(dc_events', C)
        /\ Announced(k) = EventIds(dc_events, A)
        /\ Announced(k)' = EventIds(dc_events', A)
        /\ Queuing(k)' = Queuing(k)
    BY <1>1 DEF Called, Announced, Queuing
  <2> HIDE DEF C, A, O
  <2>4. /\ EventIds(dc_events', C) = EventIds(dc_events, C)
        /\ EventsAscending(dc_events', C)
    BY <1>1, <1>2, <1>4, <2>1, <2>2, OtherEvents
  <2>5. /\ EventIds(dc_events', A) = EventIds(dc_events, A)
        /\ EventsAscending(dc_events', A)
    BY <1>1, <1>2, <1>4, <2>1, <2>2, OtherEvents
  <2>6. EventIds(dc_events', O) \subseteq
          EventIds(dc_events, O) \cup (IF k = "reliable" THEN {p.id} ELSE {})
    <3>1. CASE dc_events' = dc_events
      BY <3>1
    <3>2. CASE dc_events' = Append(dc_events, e) /\ e \in O
      BY <1>2, <1>4, <2>1, <3>2, EventAdded
    <3>3. CASE dc_events' = Append(dc_events, e) /\ e \notin O
      BY <1>2, <1>4, <3>3, EventAdded
    <3> QED  BY <1>1, <3>1, <3>2, <3>3
  <2>7. Tried(k)' \subseteq Tried(k)
    <3>1. k = "reliable" => p.id \in Tried(k)
      BY <1>7 DEF Tried
    <3>2. EventIds(dc_events', O) \subseteq Tried(k)
      BY <2>6, <3>1 DEF Tried, O
    <3>3. (k = "reliable" => IdsIn(retry_queue', Packet) \subseteq Tried(k))
      BY <1>6 DEF Tried
    <3> QED  BY <1>1, <3>2, <3>3 DEF Tried, O
  <2>8. Staged(Tried(k)', Queuing(k)', Announced(k)', Called(k)', published[k])
    BY <2>2, <2>3, <2>4, <2>5, <2>7, StagedKeeps
  <2> QED
    BY <1>1, <2>2, <2>3, <2>4, <2>5, <2>8 DEF StageInv, A, C
<1>9. CalledInv'
  <2>1. "reliable" \in Kinds
    BY DEF Kinds
  <2> QED  BY <1>1, <1>8, <2>1 DEF OrderInv, CalledInv
<1> QED  BY <1>5, <1>8, <1>9 DEF OrderInv

LEMMA StopOrder ==
  ASSUME TypeInv, OrderInv, Stop
  PROVE  OrderInv'
<1>1. /\ dc_events' = <<>> /\ retry_queue' = <<>> /\ pc' = "done"
      /\ \A k \in Kinds : request_queue'[k] = <<>>
      /\ UNCHANGED <<attempts, published, next_packet_sequence>>
      /\ "reliable" \in Kinds
  BY DEF Stop, history, Kinds
<1>2. NumberInv' /\ AttemptsInv'
  <2>1. request_queue'["reliable"] = <<>> /\ retry_queue' = <<>>
    BY <1>1
  <2>2. <<>> \in Seq(Numbered) /\ <<>> \in Seq(Old)
    OBVIOUS
  <2>3. NumberInv'
    BY <1>1, <2>1, <2>2 DEF OrderInv, NumberInv
  <2>4. AttemptsInv'
    BY <1>1 DEF OrderInv, AttemptsInv
  <2> QED  BY <2>3, <2>4
<1>3. ASSUME NEW k \in Kinds PROVE StageInv(k)'
  <2>1. Staged(Tried(k), Queuing(k), Announced(k), Called(k), published[k])
    BY DEF OrderInv, StageInv
  <2>2. /\ Queuing(k)' = {} /\ Announced(k)' = {} /\ Called(k)' = {}
    BY <1>1, IdsOfNone DEF Queuing, Announced, Called
  <2>3. /\ IdsIn(request_queue'[k], Old) = {}
        /\ EventIds(dc_events', EventsOf("PublishData", k, Old)) = {}
        /\ IdsIn(retry_queue', Packet) = {}
    BY <1>1, IdsOfNone
  <2>4. Tried(k)' \subseteq Tried(k)
    BY <1>1, <2>3 DEF Tried
  <2>5. Staged(Tried(k)', Queuing(k)', Announced(k)', Called(k)', published[k])
    BY <2>1, <2>2, <2>4, StagedKeeps
  <2>6. /\ Ascending(request_queue'[k], Fresh)
        /\ EventsAscending(dc_events', EventsOf("PublishData", k, Fresh))
        /\ EventsAscending(dc_events', EventsOf("PublishPacket", k, Fresh))
    BY <1>1, IdsOfNone
  <2> QED  BY <1>1, <2>5, <2>6 DEF StageInv
<1>4. CalledInv'
  BY <1>1 DEF OrderInv, CalledInv
<1> QED  BY <1>2, <1>3, <1>4 DEF OrderInv

-----------------------------------------------------------------------------
(***************************************************************************)
(* The invariant of types and order                                        *)
(***************************************************************************)
Inv == TypeInv /\ OrderInv

LEMMA InitInv == Init => Inv
<1> SUFFICES ASSUME Init PROVE Inv
  OBVIOUS
<1>1. /\ dc_events = <<>> /\ retry_queue = <<>> /\ buffered_size = 0
      /\ request_queue = [k \in Kinds |-> <<>>]
      /\ attempts = [k \in Kinds |-> <<>>]
      /\ published = [k \in Kinds |-> 0]
      /\ next_packet_sequence = 1 /\ pc = "select"
      /\ published["lossy"] = 0 /\ published["reliable"] = 0
      /\ "reliable" \in Kinds
  BY DEF Init, Kinds
<1>2. TypeOK
  <2>1. /\ dc_events \in Seq(Event) /\ retry_queue \in Seq(Packet)
        /\ request_queue \in [Kinds -> Seq(Packet)]
        /\ attempts \in [Kinds -> Seq(Packet)]
        /\ dcBuffer \in [Kinds -> Seq(Packet)]
        /\ published \in [Kinds -> Nat]
        /\ buffered_amount \in [Kinds -> Nat]
        /\ rejected \in [Kinds -> Nat]
        /\ answered \in [Kinds -> SUBSET Nat]
    BY DEF Init
  <2>2. /\ net \in Seq(Nat) /\ reconnect_response \in Seq(Nat)
        /\ delivered \in Seq(Nat) /\ resumed \in Seq(Nat)
    BY DEF Init
  <2>3. /\ next_packet_sequence = 1 /\ pc = "select" /\ sending = "lossy"
        /\ after = "select" /\ target = 0 /\ buffered_size = 0
        /\ server_seq = 0 /\ closed = FALSE
    BY DEF Init
  <2> QED  BY <2>1, <2>2, <2>3 DEF TypeOK, Kinds
<1>3. TypeInv
  <2>1. published["lossy"] + published["reliable"] <= MaxCalls
    BY <1>1, ReliableChannelAssumption
  <2>2. Sized(retry_queue, buffered_size)
    BY <1>1, SizedEmpty
  <2>3. dc_events \in Seq(GoodEvents)
    BY <1>1
  <2> QED  BY <1>1, <1>2, <2>1, <2>2, <2>3 DEF TypeInv
<1>4. NumberInv /\ AttemptsInv
  <2>1. \A k \in Kinds : attempts[k] = <<>> /\ request_queue[k] = <<>>
    BY <1>1
  <2> QED  BY <1>1, <2>1 DEF NumberInv, AttemptsInv, Places
<1>5. ASSUME NEW k \in Kinds PROVE StageInv(k)
  <2>1. attempts[k] = <<>> /\ request_queue[k] = <<>>
    BY <1>1
  <2>2. /\ Queuing(k) = {} /\ Announced(k) = {} /\ Called(k) = {}
        /\ Tried(k) = {}
    BY <1>1, <2>1, IdsOfNone DEF Queuing, Announced, Called, Tried
  <2>3. Staged(Tried(k), Queuing(k), Announced(k), Called(k), published[k])
    BY <2>2 DEF Staged, Below
  <2> QED  BY <1>1, <2>1, <2>3, IdsOfNone DEF StageInv
<1>6. CalledInv
  <2>1. Called("reliable") = {}
    BY <1>1, IdsOfNone DEF Called
  <2>2. next_packet_sequence..published["reliable"] = {}
    BY <1>1
  <2> QED  BY <1>1, <2>1, <2>2 DEF CalledInv
<1> QED  BY <1>3, <1>4, <1>5, <1>6 DEF Inv, OrderInv

LEMMA StepInv == Inv /\ [Next]_vars => Inv'
<1> SUFFICES ASSUME TypeInv, OrderInv, [Next]_vars PROVE TypeInv' /\ OrderInv'
  BY DEF Inv
<1>1. ASSUME NEW kind \in Kinds, PublishData(kind)
      PROVE  TypeInv' /\ OrderInv'
  BY <1>1, PublishDataType, PublishDataOrder
<1>2. CASE AssignSequence
  <2>1. Receives("PublishPacket")
    BY <1>2 DEF AssignSequence
  <2>2. Head(dc_events).kind = "reliable" =>
          Head(dc_events).packet.id = next_packet_sequence
    BY <2>1, HeadCalled
  <2> QED  BY <1>2, <2>2, AssignSequenceType, AssignSequenceOrder
<1>3. CASE QueueData
  BY <1>3, QueueDataType, QueueDataOrder
<1>4. CASE SendOne
  BY <1>4, SendOneType, SendOneOrder
<1>5. CASE RetryOne
  BY <1>5, RetryOneType, RetryOneOrder DEF OrderInv, NumberInv
<1>6. CASE Stop
  BY <1>6, StopType, StopOrder
<1>7. CASE Quiet
  <2>1. OrderInv'
    BY <1>7, QuietOrder
  <2>2. TypeInv'
    BY <1>7, BufferedAmountType, OtherType, RestartType, DcTransmitType
       DEF Quiet
  <2> QED  BY <2>1, <2>2
<1>8. CASE UNCHANGED vars
  <2>1. UNCHANGED <<dc_events, next_packet_sequence, pc, sending, after, target,
                    request_queue, buffered_amount, retry_queue, buffered_size,
                    dcBuffer, net, server_seq, reconnect_response, delivered,
                    resumed, closed, published, answered, attempts, rejected>>
    BY <1>8 DEF vars, task, retry, link, app, history
  <2>2. TypeInv'
    BY <2>1 DEF TypeInv, TypeOK
  <2>3. ASSUME NEW k \in Kinds PROVE StageInv(k)'
    BY <2>1 DEF OrderInv, StageInv, Tried, Queuing, Announced, Called
  <2>4. NumberInv' /\ CalledInv' /\ AttemptsInv'
    BY <2>1 DEF OrderInv, NumberInv, CalledInv, AttemptsInv, Called
  <2> QED  BY <2>2, <2>3, <2>4 DEF OrderInv
<1> QED
  BY <1>1, <1>2, <1>3, <1>4, <1>5, <1>6, <1>7, <1>8 DEF Next, TaskStep, Quiet

LEMMA SpecInv == Spec => []Inv
BY InitInv, StepInv, PTL DEF Spec

\* The state keeps its types: the counters of bytes and of the retry queue,
\* which are unsigned in the code, never go below zero.
THEOREM TypeCorrect == Spec => []TypeOK
<1>1. Inv => TypeOK
  BY DEF Inv, TypeInv
<1> QED  BY SpecInv, <1>1, PTL

\* First sends are in the order of the calls and numbered in it, whatever is
\* held back, retried or rejected on the way (_send_until_threshold,
\* _enqueue_for_retry_from).
THEOREM SendsInOrder == Spec => []FirstSendsInOrder
<1>1. Inv => FirstSendsInOrder
  <2> SUFFICES ASSUME TypeInv, OrderInv,
                      NEW kind \in Kinds, NEW j \in 1..Len(attempts[kind])
               PROVE  LET p == attempts[kind][j]
                      IN /\ kind = "reliable" => p.sequence = p.id
                         /\ IsFirst(kind, j) =>
                              \A i \in 1..(j - 1) : attempts[kind][i].id < p.id
    BY DEF Inv, FirstSendsInOrder
  <2>1. attempts[kind] \in Seq(Packet)
    BY DEF TypeInv, TypeOK
  <2>2. attempts[kind][j] \in Packet
    BY <2>1
  <2>3. kind = "reliable" => attempts[kind][j] \in Numbered
    BY DEF OrderInv, NumberInv
  <2>4. IsFirst(kind, j) => j \in Places(attempts[kind], Fresh)
    BY <2>2 DEF IsFirst, Places, Fresh
  <2>5. IsFirst(kind, j) =>
          \A i \in 1..(j - 1) : attempts[kind][i].id < attempts[kind][j].id
    BY <2>4 DEF OrderInv, AttemptsInv
  <2> QED  BY <2>3, <2>5 DEF Numbered
<1> QED  BY SpecInv, <1>1, PTL

-----------------------------------------------------------------------------
(***************************************************************************)
(* Counting                                                                *)
(***************************************************************************)

LEMMA PlacesFinite ==
  ASSUME NEW T, NEW q \in Seq(T), NEW S
  PROVE  IsFiniteSet(Places(q, S)) /\ Count(q, S) \in Nat
<1>1. Places(q, S) \subseteq 1..Len(q) /\ Len(q) \in Nat
  BY DEF Places
<1>2. IsFiniteSet(1..Len(q))
  BY <1>1, FS_Interval
<1>3. IsFiniteSet(Places(q, S))
  BY <1>1, <1>2, FS_Subset
<1> QED  BY <1>3, FS_CardinalityType DEF Count

LEMMA CountGrows ==
  ASSUME NEW T, NEW q \in Seq(T), NEW x \in T, NEW S
  PROVE  /\ x \in S => Count(Append(q, x), S) = Count(q, S) + 1
         /\ x \notin S => Count(Append(q, x), S) = Count(q, S)
<1>1. /\ Places(Append(q, x), S) =
           Places(q, S) \cup (IF x \in S THEN {Len(q) + 1} ELSE {})
      /\ Places(q, S) \subseteq 1..Len(q)
      /\ Len(q) \in Nat
  BY PlacesGrow
<1>2. IsFiniteSet(Places(q, S))
  BY PlacesFinite
<1>3. CASE x \in S
  <2>1. Places(Append(q, x), S) = Places(q, S) \cup {Len(q) + 1}
    BY <1>1, <1>3
  <2>2. Len(q) + 1 \notin Places(q, S)
    BY <1>1
  <2> QED  BY <1>2, <1>3, <2>1, <2>2, FS_AddElement DEF Count
<1>4. CASE x \notin S
  BY <1>1, <1>4 DEF Count
<1> QED  BY <1>3, <1>4

LEMMA CountShrinks ==
  ASSUME NEW T, NEW q \in Seq(T), q # <<>>, NEW S
  PROVE  /\ Head(q) \in S => Count(Tail(q), S) + 1 <= Count(q, S)
         /\ Count(Tail(q), S) <= Count(q, S)
<1> DEFINE P == Places(Tail(q), S)
           R == Places(q, S) \ {1}
           f == [i \in P |-> i + 1]
<1>1. Tail(q) \in Seq(T)
  OBVIOUS
<1>2. /\ IsFiniteSet(Places(q, S)) /\ Count(q, S) \in Nat
      /\ IsFiniteSet(P) /\ Count(Tail(q), S) \in Nat
  BY <1>1, PlacesFinite
<1>3. \A i \in P : i \in Nat \ {0} /\ i + 1 \in R
  BY PlacesShrink
<1>4. f \in Injection(P, R)
  BY <1>3 DEF Injection, IsInjective
<1>5. /\ IsFiniteSet(R)
      /\ Cardinality(R) = IF 1 \in Places(q, S) THEN Count(q, S) - 1
                          ELSE Count(q, S)
  BY <1>2, FS_RemoveElement DEF Count
<1>6. Count(Tail(q), S) <= Cardinality(R)
  BY <1>4, <1>5, FS_Injection DEF Count
<1>7. 1 \in Places(q, S) <=> Head(q) \in S
  BY PlacesShrink
<1> HIDE DEF P, R, f
<1> QED  BY <1>2, <1>5, <1>6, <1>7

LEMMA CountNone ==
  ASSUME NEW S PROVE Count(<<>>, S) = 0
BY FS_EmptySet DEF Count, Places

-----------------------------------------------------------------------------
(***************************************************************************)
(* One place for a packet, and a resume for every repeat                   *)
(***************************************************************************)

\* What CountInv says of n, for counts and conditions.
Paid(tries, comes, asked, asking, numbered, resumes) ==
  tries + OneIf(comes) + asked + OneIf(asking) <= OneIf(numbered) + resumes

LEMMA CountTypes ==
  ASSUME TypeInv, NEW S
  PROVE  /\ Count(attempts["reliable"], S) \in Nat
         /\ Count(dc_events, S) \in Nat
         /\ Count(resumed, S) \in Nat
<1>1. /\ attempts["reliable"] \in Seq(Packet)
      /\ dc_events \in Seq(Event)
      /\ resumed \in Seq(Nat)
  BY DEF TypeInv, TypeOK, Kinds
<1> QED  BY <1>1, PlacesFinite

\* Events that ask for nothing, or that are gone.
LEMMA CountOther ==
  ASSUME TypeInv, NEW S, NEW q2,
         \/ q2 = dc_events
         \/ \E e \in Event : e \notin S /\ q2 = Append(dc_events, e)
         \/ dc_events # <<>> /\ q2 = Tail(dc_events)
         \/ /\ dc_events # <<>>
            /\ \E e \in Event : e \notin S /\ q2 = Append(Tail(dc_events), e)
  PROVE  Count(q2, S) <= Count(dc_events, S) /\ Count(q2, S) \in Nat
<1>1. dc_events \in Seq(Event)
  BY DEF TypeInv, TypeOK
<1>2. Count(dc_events, S) \in Nat
  BY <1>1, PlacesFinite
<1>3. CASE q2 = dc_events
  BY <1>2, <1>3
<1>4. ASSUME NEW e \in Event, e \notin S, q2 = Append(dc_events, e)
      PROVE  Count(q2, S) <= Count(dc_events, S) /\ Count(q2, S) \in Nat
  BY <1>1, <1>2, <1>4, CountGrows
<1>5. ASSUME dc_events # <<>>
      PROVE  /\ Count(Tail(dc_events), S) <= Count(dc_events, S)
             /\ Count(Tail(dc_events), S) \in Nat
             /\ Tail(dc_events) \in Seq(Event)
  <2>1. Tail(dc_events) \in Seq(Event)
    BY <1>1, <1>5, HeadAndTail
  <2> QED  BY <1>1, <1>5, <2>1, CountShrinks, PlacesFinite
<1>6. ASSUME dc_events # <<>>, NEW e \in Event, e \notin S,
             q2 = Append(Tail(dc_events), e)
      PROVE  Count(q2, S) <= Count(dc_events, S) /\ Count(q2, S) \in Nat
  <2>1. Count(q2, S) = Count(Tail(dc_events), S)
    BY <1>5, <1>6, CountGrows
  <2> QED  BY <1>5, <1>6, <2>1
<1> QED  BY <1>3, <1>4, <1>5, <1>6

\* The steps for which no count can grow.
LEMMA CountKeeps ==
  ASSUME TypeInv, CountInv,
         UNCHANGED <<attempts, resumed>>,
         \A n \in Ids : /\ Count(dc_events', AsksFor(n)) \in Nat
                        /\ Count(dc_events', AsksFor(n)) <=
                             Count(dc_events, AsksFor(n)),
         (Coming \cup Sending)' \subseteq Coming \cup Sending,
         pc' = "retry" =>
           pc = "retry" /\ target' = target /\ Kept' \subseteq Kept,
         next_packet_sequence' = next_packet_sequence
  PROVE  CountInv'
<1> SUFFICES ASSUME NEW n \in Ids
             PROVE  Paid(Count(attempts["reliable"], CopiesOf(n)),
                         n \in (Coming \cup Sending)',
                         Count(dc_events', AsksFor(n)),
                         pc' = "retry" /\ target' < n /\ n \in Kept',
                         n < next_packet_sequence,
                         Count(resumed, 0..(n - 1)))
  BY DEF CountInv, Paid
<1>1. Paid(Count(attempts["reliable"], CopiesOf(n)),
           n \in Coming \cup Sending,
           Count(dc_events, AsksFor(n)),
           pc = "retry" /\ target < n /\ n \in Kept,
           n < next_packet_sequence,
           Count(resumed, 0..(n - 1)))
  BY DEF CountInv, Paid
<1>2. /\ Count(attempts["reliable"], CopiesOf(n)) \in Nat
      /\ Count(dc_events, AsksFor(n)) \in Nat
      /\ Count(resumed, 0..(n - 1)) \in Nat
  BY CountTypes
<1>3. n \in (Coming \cup Sending)' => n \in Coming \cup Sending
  OBVIOUS
<1>4. (pc' = "retry" /\ target' < n /\ n \in Kept') =>
        (pc = "retry" /\ target < n /\ n \in Kept)
  OBVIOUS
<1>5. /\ Count(dc_events', AsksFor(n)) \in Nat
      /\ Count(dc_events', AsksFor(n)) <= Count(dc_events, AsksFor(n))
  OBVIOUS
<1> QED  BY <1>1, <1>2, <1>3, <1>4, <1>5 DEF Paid, OneIf

\* Calls, reports and resumes leave every packet in its place.
LEMMA PlaceKeeps ==
  ASSUME TypeInv, PlaceInv, NEW q2,
         LET E == EventsOf("PublishData", "reliable", Packet)
         IN \/ q2 = dc_events
            \/ \E e \in Event : e \notin E /\ q2 = Append(dc_events, e)
            \/ /\ dc_events # <<>>
               /\ Head(dc_events) \notin E
               /\ q2 = Tail(dc_events),
         dc_events' = q2,
         UNCHANGED request_queue,
         retry_queue' = retry_queue \/ (retry_queue # <<>> /\ Dequeued)
  PROVE  /\ PlaceInv'
         /\ Coming' = Coming /\ Sending' = Sending /\ Kept' \subseteq Kept
<1> DEFINE E == EventsOf("PublishData", "reliable", Packet)
<1>1. dc_events \in Seq(Event) /\ retry_queue \in Seq(Packet)
  BY DEF TypeInv, TypeOK
<1>2. /\ Coming = EventIds(dc_events, E) /\ Coming' = EventIds(dc_events', E)
      /\ EventsDistinct(dc_events, E)
  BY DEF Coming, PlaceInv
<1>3. \/ dc_events' = dc_events
      \/ \E e \in Event : e \notin E /\ dc_events' = Append(dc_events, e)
      \/ dc_events # <<>> /\ Head(dc_events) \notin E
                          /\ dc_events' = Tail(dc_events)
  OBVIOUS
<1> HIDE DEF E
<1>4. Coming' = Coming /\ EventsDistinct(dc_events', E)
  BY <1>1, <1>2, <1>3, OtherEvents
<1>5. Sending' = Sending
  BY DEF Sending
<1>6. Kept' \subseteq Kept /\ Distinct(retry_queue', Packet)
  <2>1. Distinct(retry_queue, Packet)
    BY DEF PlaceInv
  <2>2. CASE retry_queue' = retry_queue
    BY <2>1, <2>2 DEF Kept
  <2>3. CASE retry_queue # <<>> /\ Dequeued
    <3>1. retry_queue' = Tail(retry_queue)
      BY <2>3 DEF Dequeued
    <3>2. Distinct(Tail(retry_queue), Packet)
      BY <1>1, <2>1, <2>3, DistinctShrinks
    <3>3. IdsIn(Tail(retry_queue), Packet) \subseteq IdsIn(retry_queue, Packet)
      BY <1>1, <2>3, ShrinkingIds
    <3> QED  BY <3>1, <3>2, <3>3 DEF Kept
  <2> QED  BY <2>2, <2>3
<1> QED  BY <1>4, <1>5, <1>6 DEF PlaceInv, E

LEMMA PublishDataRepeat ==
  ASSUME TypeInv, RepeatInv, NEW kind \in Kinds, PublishData(kind)
  PROVE  RepeatInv'
<1> DEFINE p == [id |-> published[kind] + 1, sequence |-> 0, waited |-> TRUE]
           e == PacketEvent("PublishPacket", kind, p)
<1>1. /\ dc_events' = Emitted(e)
      /\ UNCHANGED <<request_queue, attempts, retry_queue, resumed, pc, target,
                     next_packet_sequence>>
  BY DEF PublishData, retry, history, link, task
<1>2. e \in Event /\ e.detail = "PublishPacket"
  <2>1. /\ published \in [Kinds -> Nat]
        /\ published["lossy"] \in Nat /\ published["reliable"] \in Nat
        /\ MaxCalls \in Nat
        /\ published["lossy"] + published["reliable"] < MaxCalls
    BY ReliableChannelAssumption DEF TypeInv, TypeOK, Kinds, PublishData
  <2>2. published[kind] + 1 \in Ids
    BY <2>1 DEF Kinds, Ids
  <2>3. p \in Packet
    BY <2>2 DEF Packet
  <2> QED  BY <2>3 DEF Event, PacketEvent
<1> HIDE DEF e
<1>3. dc_events' = dc_events \/ dc_events' = Append(dc_events, e)
  BY <1>1 DEF Emitted
<1>4. /\ e \notin EventsOf("PublishData", "reliable", Packet)
      /\ \A n \in Ids : e \notin AsksFor(n)
  BY <1>2 DEF EventsOf, AsksFor
<1>5. /\ PlaceInv'
      /\ Coming' = Coming /\ Sending' = Sending /\ Kept' \subseteq Kept
  BY <1>1, <1>2, <1>3, <1>4, PlaceKeeps DEF RepeatInv
<1>6. \A n \in Ids : /\ Count(dc_events', AsksFor(n)) \in Nat
                     /\ Count(dc_events', AsksFor(n)) <=
                          Count(dc_events, AsksFor(n))
  BY <1>2, <1>3, <1>4, CountOther
<1>7. CountInv'
  BY <1>1, <1>5, <1>6, CountKeeps DEF RepeatInv
<1> QED  BY <1>5, <1>7 DEF RepeatInv

\* The steps that only report, trim or turn to something else.
LEMMA QuietRepeat ==
  ASSUME TypeInv, RepeatInv, Quiet, ~OnRetryFrom, ~Restart
  PROVE  RepeatInv'
<1>1. /\ UNCHANGED <<request_queue, attempts, published, next_packet_sequence>>
      /\ \/ retry_queue' = retry_queue
         \/ retry_queue # <<>> /\ Dequeued
  BY QuietEffect
<1>2. /\ UNCHANGED resumed
      /\ pc' = "retry" => pc = "retry" /\ target' = target
      /\ \/ dc_events' = dc_events
         \/ \E e \in Event : /\ e.detail = "BufferedAmountChange"
                             /\ dc_events' = Append(dc_events, e)
         \/ /\ dc_events # <<>>
            /\ Head(dc_events).detail = "BufferedAmountChange"
            /\ dc_events' = Tail(dc_events)
  <2>1. CASE OnBufferedAmountChange
    BY <2>1 DEF OnBufferedAmountChange, Receives, link
  <2>2. CASE SendDone
    BY <2>2 DEF SendDone, link, TypeInv, TypeOK
  <2>3. CASE TrimOne
    BY <2>3 DEF TrimOne, link, task
  <2>4. CASE TrimDone
    BY <2>4 DEF TrimDone, link
  <2>5. CASE RetryDone
    BY <2>5 DEF RetryDone, link
  <2>6. CASE ServerReconnects
    BY <2>6 DEF ServerReconnects, task
  <2>7. CASE CloseSession
    BY <2>7 DEF CloseSession, link, task
  <2>8. CASE ReceiveData
    BY <2>8 DEF ReceiveData, task
  <2>9. ASSUME NEW kind \in Kinds, DcTransmit(kind)
        PROVE  /\ UNCHANGED <<resumed, pc, target>>
               /\ \/ dc_events' = dc_events
                  \/ \E e \in Event : /\ e.detail = "BufferedAmountChange"
                                      /\ dc_events' = Append(dc_events, e)
    <3> DEFINE p == Head(dcBuffer[kind])
               e == AmountEvent("BufferedAmountChange", kind, Size(p))
    <3>1. UNCHANGED <<resumed, pc, target>> /\ dc_events' = Emitted(e)
      BY <2>9 DEF DcTransmit, task
    <3>2. e \in Event /\ e.detail = "BufferedAmountChange"
      <4>1. dcBuffer[kind] \in Seq(Packet) /\ dcBuffer[kind] # <<>>
        BY <2>9 DEF DcTransmit, TypeInv, TypeOK
      <4>2. p \in Packet
        BY <4>1, HeadAndTail
      <4>3. Size(p) \in Nat
        BY <4>2, SizeIsNat
      <4> QED  BY <4>3 DEF Event, AmountEvent
    <3> QED  BY <3>1, <3>2 DEF Emitted
  <2> QED
    BY <2>1, <2>2, <2>3, <2>4, <2>5, <2>6, <2>7, <2>8, <2>9 DEF Quiet
<1>3. LET E == EventsOf("PublishData", "reliable", Packet)
      IN \/ dc_events' = dc_events
         \/ \E e \in Event : e \notin E /\ dc_events' = Append(dc_events, e)
         \/ /\ dc_events # <<>>
            /\ Head(dc_events) \notin E
            /\ dc_events' = Tail(dc_events)
  BY <1>2 DEF EventsOf
<1>4. /\ PlaceInv'
      /\ Coming' = Coming /\ Sending' = Sending /\ Kept' \subseteq Kept
  BY <1>1, <1>3, PlaceKeeps DEF RepeatInv
<1>5. ASSUME NEW n \in Ids
      PROVE  /\ Count(dc_events', AsksFor(n)) \in Nat
             /\ Count(dc_events', AsksFor(n)) <= Count(dc_events, AsksFor(n))
  <2>1. \/ dc_events' = dc_events
        \/ \E e \in Event : /\ e \notin AsksFor(n)
                            /\ dc_events' = Append(dc_events, e)
        \/ dc_events # <<>> /\ dc_events' = Tail(dc_events)
    BY <1>2 DEF AsksFor
  <2> QED  BY <2>1, CountOther
<1>6. CountInv'
  BY <1>1, <1>2, <1>4, <1>5, CountKeeps DEF RepeatInv
<1> QED  BY <1>4, <1>6 DEF RepeatInv

\* A resume asks, and its asking is paid for.
LEMMA RestartRepeat ==
  ASSUME TypeInv, RepeatInv, Restart
  PROVE  RepeatInv'
<1> DEFINE m == Head(reconnect_response)
           e == AmountEvent("RetryFrom", "reliable", m)
<1>1. /\ UNCHANGED <<request_queue, attempts, retry_queue, pc, target,
                     next_packet_sequence>>
      /\ \/ dc_events' = Emitted(e) /\ resumed' = Append(resumed, m)
         \/ dc_events' = dc_events /\ resumed' = resumed
  BY DEF Restart, retry, history, task
<1>2. m \in Nat /\ e \in Event /\ e.detail = "RetryFrom" /\ e.amount = m
  <2>1. reconnect_response \in Seq(Nat) /\ reconnect_response # <<>>
    BY DEF Restart, TypeInv, TypeOK
  <2>2. m \in Nat
    BY <2>1, HeadAndTail
  <2> QED  BY <2>2 DEF Event, AmountEvent, Kinds
<1> HIDE DEF e, m
<1>3. dc_events' = dc_events \/ dc_events' = Append(dc_events, e)
  BY <1>1 DEF Emitted
<1>4. e \notin EventsOf("PublishData", "reliable", Packet)
  BY <1>2 DEF EventsOf
<1>5. /\ PlaceInv'
      /\ Coming' = Coming /\ Sending' = Sending /\ Kept' \subseteq Kept
  BY <1>1, <1>2, <1>3, <1>4, PlaceKeeps DEF RepeatInv
<1>6. Kept' = Kept
  BY <1>1 DEF Kept
<1>7. ASSUME NEW n \in Ids
      PROVE  Paid(Count(attempts'["reliable"], CopiesOf(n)),
                  n \in (Coming \cup Sending)',
                  Count(dc_events', AsksFor(n)),
                  pc' = "retry" /\ target' < n /\ n \in Kept',
                  n < next_packet_sequence',
                  Count(resumed', 0..(n - 1)))
  <2>1. Paid(Count(attempts["reliable"], CopiesOf(n)),
             n \in Coming \cup Sending,
             Count(dc_events, AsksFor(n)),
             pc = "retry" /\ target < n /\ n \in Kept,
             n < next_packet_sequence,
             Count(resumed, 0..(n - 1)))
    BY DEF RepeatInv, CountInv, Paid
  <2>2. /\ Count(attempts["reliable"], CopiesOf(n)) \in Nat
        /\ Count(dc_events, AsksFor(n)) \in Nat
        /\ Count(resumed, 0..(n - 1)) \in Nat
        /\ n \in Nat \ {0}
    BY CountTypes, ReliableChannelAssumption DEF Ids
  <2>3. resumed \in Seq(Nat) /\ dc_events \in Seq(Event)
    BY DEF TypeInv, TypeOK
  <2>4. e \in AsksFor(n) <=> m \in 0..(n - 1)
    BY <1>2, <2>2 DEF AsksFor
  <2>5. CASE dc_events' = dc_events /\ resumed' = resumed
    BY <1>1, <1>5, <1>6, <2>1, <2>5
  <2>6. /\ attempts' = attempts /\ next_packet_sequence' = next_packet_sequence
        /\ n \in (Coming \cup Sending)' <=> n \in Coming \cup Sending
        /\ (pc' = "retry" /\ target' < n /\ n \in Kept') <=>
             (pc = "retry" /\ target < n /\ n \in Kept)
    BY <1>1, <1>5, <1>6
  <2>7. CASE dc_events' = Emitted(e) /\ resumed' = Append(resumed, m)
    <3>1. CASE m \in 0..(n - 1)
      <4>1. Count(resumed', 0..(n - 1)) = Count(resumed, 0..(n - 1)) + 1
        BY <1>2, <2>3, <2>7, <3>1, CountGrows
      <4>2. /\ Count(dc_events', AsksFor(n)) \in Nat
            /\ Count(dc_events', AsksFor(n)) <= Count(dc_events, AsksFor(n)) + 1
        <5>1. CASE dc_events' = dc_events
          BY <2>2, <5>1
        <5>2. CASE dc_events' = Append(dc_events, e)
          <6>1. Count(Append(dc_events, e), AsksFor(n)) =
                  Count(dc_events, AsksFor(n)) + 1
            BY <1>2, <2>3, <2>4, <3>1, CountGrows
          <6> QED  BY <2>2, <5>2, <6>1
        <5> QED  BY <1>3, <5>1, <5>2
      <4> QED  BY <2>1, <2>2, <2>6, <4>1, <4>2 DEF Paid, OneIf
    <3>2. CASE m \notin 0..(n - 1)
      <4>1. Count(resumed', 0..(n - 1)) = Count(resumed, 0..(n - 1))
        BY <1>2, <2>3, <2>7, <3>2, CountGrows
      <4>2. Count(dc_events', AsksFor(n)) = Count(dc_events, AsksFor(n))
        <5>1. Count(Append(dc_events, e), AsksFor(n)) =
                Count(dc_events, AsksFor(n))
          BY <1>2, <2>3, <2>4, <3>2, CountGrows
        <5> QED  BY <1>3, <5>1
      <4> QED  BY <2>1, <2>2, <2>6, <4>1, <4>2 DEF Paid, OneIf
    <3> QED  BY <3>1, <3>2
  <2> QED  BY <1>1, <2>5, <2>7
<1>8. CountInv'
  BY <1>7 DEF CountInv, Paid
<1> QED  BY <1>5, <1>8 DEF RepeatInv

\* The task turns to what was asked for.
LEMMA OnRetryFromRepeat ==
  ASSUME TypeInv, RepeatInv, OnRetryFrom
  PROVE  RepeatInv'
<1> DEFINE e == Head(dc_events)
<1>1. /\ dc_events # <<>> /\ e.detail = "RetryFrom"
      /\ dc_events' = Tail(dc_events)
      /\ target' = e.amount
      /\ pc = "select"
      /\ UNCHANGED <<request_queue, attempts, retry_queue, resumed,
                     next_packet_sequence>>
  BY DEF OnRetryFrom, Receives, retry, history, link
<1>2. e \in Event /\ dc_events \in Seq(Event) /\ Tail(dc_events) \in Seq(Event)
  BY <1>1, HeadEvent DEF TypeInv, TypeOK
<1>3. e \notin EventsOf("PublishData", "reliable", Packet)
  BY <1>1 DEF EventsOf
<1>4. /\ PlaceInv'
      /\ Coming' = Coming /\ Sending' = Sending /\ Kept' \subseteq Kept
  BY <1>1, <1>3, PlaceKeeps DEF RepeatInv
<1>5. ASSUME NEW n \in Ids
      PROVE  Paid(Count(attempts'["reliable"], CopiesOf(n)),
                  n \in (Coming \cup Sending)',
                  Count(dc_events', AsksFor(n)),
                  pc' = "retry" /\ target' < n /\ n \in Kept',
                  n < next_packet_sequence',
                  Count(resumed', 0..(n - 1)))
  <2>1. Paid(Count(attempts["reliable"], CopiesOf(n)),
             n \in Coming \cup Sending,
             Count(dc_events, AsksFor(n)),
             pc = "retry" /\ target < n /\ n \in Kept,
             n < next_packet_sequence,
             Count(resumed, 0..(n - 1)))
    BY DEF RepeatInv, CountInv, Paid
  <2>2. /\ Count(attempts["reliable"], CopiesOf(n)) \in Nat
        /\ Count(dc_events, AsksFor(n)) \in Nat
        /\ Count(dc_events', AsksFor(n)) \in Nat
        /\ Count(resumed, 0..(n - 1)) \in Nat
    BY <1>1, <1>2, CountTypes, PlacesFinite
  <2>3. CASE e.amount < n
    <3>1. e \in AsksFor(n)
      BY <1>1, <1>2, <2>3 DEF AsksFor
    <3>2. Count(dc_events', AsksFor(n)) + 1 <= Count(dc_events, AsksFor(n))
      BY <1>1, <1>2, <3>1, CountShrinks
    <3> QED  BY <1>1, <1>4, <2>1, <2>2, <3>2 DEF Paid, OneIf
  <2>4. CASE ~(e.amount < n)
    <3>1. Count(dc_events', AsksFor(n)) <= Count(dc_events, AsksFor(n))
      BY <1>1, <1>2, CountShrinks
    <3>2. ~(target' < n)
      BY <1>1, <2>4
    <3> QED  BY <1>1, <1>4, <2>1, <2>2, <3>1, <3>2 DEF Paid, OneIf
  <2> QED  BY <2>3, <2>4
<1>6. CountInv'
  BY <1>5 DEF CountInv, Paid
<1> QED  BY <1>4, <1>6 DEF RepeatInv

\* A packet that gets its number is in no place yet.
LEMMA AssignSequenceRepeat ==
  ASSUME TypeInv, OrderInv, RepeatInv, AssignSequence
  PROVE  RepeatInv'
<1> DEFINE e == Head(dc_events)
           p == IF e.kind = "reliable"
                THEN [e.packet EXCEPT !.sequence = next_packet_sequence]
                ELSE e.packet
           f == PacketEvent("PublishData", e.kind, p)
           t == Tail(dc_events)
           E == EventsOf("PublishData", "reliable", Packet)
           x == e.packet.id
<1>1. /\ Receives("PublishPacket")
      /\ dc_events # <<>> /\ e.detail = "PublishPacket"
      /\ dc_events' = Append(t, f)
      /\ pc = "select"
      /\ UNCHANGED <<request_queue, attempts, retry_queue, published, pc, target,
                     resumed>>
      /\ next_packet_sequence' = IF e.kind = "reliable"
                                 THEN next_packet_sequence + 1
                                 ELSE next_packet_sequence
      /\ next_packet_sequence \in Nat
  BY DEF AssignSequence, Receives, retry, history, app, task, link, TypeInv,
         TypeOK
<1>2. /\ e.kind \in Kinds /\ e.packet \in Fresh
      /\ e \in Event /\ t \in Seq(Event) /\ dc_events \in Seq(Event)
  BY <1>1, HeadCalled, HeadEvent DEF TypeInv, TypeOK
<1>3. p \in Packet /\ p.id = x
  BY <1>1, <1>2 DEF Fresh, Packet
<1>4. /\ f \in Event /\ f.detail = "PublishData" /\ f.kind = e.kind
      /\ f.packet = p
  BY <1>2, <1>3 DEF Event, PacketEvent
<1> HIDE DEF f, p
<1>5. /\ e \notin E
      /\ f \in E <=> e.kind = "reliable"
      /\ \A n \in Ids : f \notin AsksFor(n)
  BY <1>1, <1>3, <1>4 DEF EventsOf, AsksFor
<1>6. /\ Coming = EventIds(dc_events, E) /\ Coming' = EventIds(dc_events', E)
      /\ EventsDistinct(dc_events, E)
  BY DEF Coming, RepeatInv, PlaceInv
<1> HIDE DEF E
<1>7. EventIds(t, E) = Coming /\ EventsDistinct(t, E)
  BY <1>1, <1>2, <1>5, <1>6, EventTaken, EventsDistinctShrinks
<1>8. Sending' = Sending /\ Kept' = Kept
  BY <1>1 DEF Sending, Kept
<1>9. \A n \in Ids : /\ Count(dc_events', AsksFor(n)) \in Nat
                     /\ Count(dc_events', AsksFor(n)) <=
                          Count(dc_events, AsksFor(n))
  BY <1>1, <1>4, <1>5, CountOther
<1>10. CASE e.kind # "reliable"
  <2>1. EventIds(dc_events', E) = EventIds(t, E)
    BY <1>1, <1>2, <1>4, <1>5, <1>10, EventAdded
  <2>2. EventsDistinct(dc_events', E)
    BY <1>1, <1>2, <1>4, <1>5, <1>7, <1>10, EventsDistinctGrows
  <2>3. Coming' = Coming
    BY <1>6, <1>7, <2>1
  <2>4. PlaceInv'
    BY <1>1, <1>8, <2>2, <2>3 DEF RepeatInv, PlaceInv, E
  <2>5. CountInv'
    BY <1>1, <1>8, <1>9, <1>10, <2>3, CountKeeps DEF RepeatInv
  <2> QED  BY <2>4, <2>5 DEF RepeatInv
<1>11. CASE e.kind = "reliable"
  <2>1. x = next_packet_sequence /\ x \in Called("reliable")
    BY <1>1, <1>11, HeadCalled
  <2>2. x \notin Coming /\ x \notin Sending /\ x \notin Kept
    <3> DEFINE T == Tried("reliable")
               Q == Queuing("reliable")
               A == Announced("reliable")
    <3>1. Below(T, Called("reliable")) /\ Below(Q, Called("reliable"))
          /\ Below(A, Called("reliable"))
      BY DEF OrderInv, StageInv, Staged, Kinds
    <3>2. Kept \subseteq T
      BY DEF Kept, Tried
    <3>3. Sending \subseteq T \cup Q
      BY IdsSplit DEF Sending, Tried, Queuing
    <3>4. Coming \subseteq T \cup A
      BY EventIdsSplit DEF Coming, Tried, Announced
    <3>5. x \in Int
      BY <1>1, <2>1
    <3>6. ASSUME x \in T \cup Q \cup A PROVE FALSE
      <4>1. x < x
        BY <2>1, <3>1, <3>6 DEF Below
      <4> QED  BY <3>5, <4>1
    <3> QED  BY <3>2, <3>3, <3>4, <3>6
  <2>3. EventIds(dc_events', E) = EventIds(t, E) \cup {x}
    <3>1. EventIds(Append(t, f), E) = EventIds(t, E) \cup {f.packet.id}
      BY <1>2, <1>4, <1>5, <1>11, EventAdded
    <3> QED  BY <1>1, <1>3, <1>4, <3>1
  <2>4. EventsDistinct(dc_events', E)
    BY <1>1, <1>2, <1>3, <1>4, <1>7, <2>2, EventsDistinctGrows
  <2>5. Coming' = Coming \cup {x}
    BY <1>6, <1>7, <2>3
  <2>6. PlaceInv'
    BY <1>1, <1>8, <2>2, <2>4, <2>5 DEF RepeatInv, PlaceInv, E
  <2>7. ASSUME NEW n \in Ids
        PROVE  Paid(Count(attempts'["reliable"], CopiesOf(n)),
                    n \in (Coming \cup Sending)',
                    Count(dc_events', AsksFor(n)),
                    pc' = "retry" /\ target' < n /\ n \in Kept',
                    n < next_packet_sequence',
                    Count(resumed', 0..(n - 1)))
    <3>1. Paid(Count(attempts["reliable"], CopiesOf(n)),
               n \in Coming \cup Sending,
               Count(dc_events, AsksFor(n)),
               pc = "retry" /\ target < n /\ n \in Kept,
               n < next_packet_sequence,
               Count(resumed, 0..(n - 1)))
      BY DEF RepeatInv, CountInv, Paid
    <3>2. /\ Count(attempts["reliable"], CopiesOf(n)) \in Nat
          /\ Count(dc_events, AsksFor(n)) \in Nat
          /\ Count(resumed, 0..(n - 1)) \in Nat
          /\ n \in Nat
      BY CountTypes, ReliableChannelAssumption DEF Ids
    <3>3. /\ attempts' = attempts /\ resumed' = resumed
          /\ next_packet_sequence' = next_packet_sequence + 1
          /\ ~(pc' = "retry") /\ ~(pc = "retry")
      BY <1>1, <1>11
    <3>4. n \in (Coming \cup Sending)' <=> n \in Coming \cup Sending \/ n = x
      BY <1>8, <2>5
    <3>5. /\ Count(dc_events', AsksFor(n)) \in Nat
          /\ Count(dc_events', AsksFor(n)) <= Count(dc_events, AsksFor(n))
      BY <1>9
    <3>6. CASE n = x
      <4>1. ~(n < next_packet_sequence) /\ n < next_packet_sequence'
            /\ ~(n \in Coming \cup Sending)
        BY <1>1, <2>1, <2>2, <3>3, <3>6
      <4> QED  BY <3>1, <3>2, <3>3, <3>5, <4>1 DEF Paid, OneIf
    <3>7. CASE n # x
      <4>1. n < next_packet_sequence' <=> n < next_packet_sequence
        BY <1>1, <2>1, <3>2, <3>3, <3>7
      <4> QED
        BY <3>1, <3>2, <3>3, <3>4, <3>5, <3>7, <4>1 DEF Paid, OneIf
    <3> QED  BY <3>6, <3>7
  <2>8. CountInv'
    BY <2>7 DEF CountInv, Paid
  <2> QED  BY <2>6, <2>8 DEF RepeatInv
<1> QED  BY <1>10, <1>11

LEMMA QueueDataRepeat ==
  ASSUME TypeInv, RepeatInv, QueueData
  PROVE  RepeatInv'
<1> DEFINE e == Head(dc_events)
           p == e.packet
           t == Tail(dc_events)
           E == EventsOf("PublishData", "reliable", Packet)
<1>1. /\ dc_events # <<>> /\ e.detail = "PublishData"
      /\ dc_events' = t
      /\ request_queue' =
           [request_queue EXCEPT ![e.kind] = Append(@, e.packet)]
      /\ pc' # "retry"
      /\ UNCHANGED <<attempts, retry_queue, resumed, next_packet_sequence>>
      /\ "reliable" \in Kinds
  BY DEF QueueData, Receives, Queued, retry, history, link, Kinds
<1>2. /\ p \in Packet /\ e.kind \in Kinds
      /\ e \in Event /\ dc_events \in Seq(Event)
      /\ request_queue \in [Kinds -> Seq(Packet)]
  BY <1>1, HeadEvent DEF GoodEvents, Event, TypeInv, TypeOK
<1>3. e \in E <=> e.kind = "reliable"
  BY <1>1, <1>2 DEF EventsOf
<1>4. /\ Coming = EventIds(dc_events, E) /\ Coming' = EventIds(t, E)
      /\ EventsDistinct(dc_events, E)
      /\ Sending = IdsIn(request_queue["reliable"], Packet)
      /\ Sending' = IdsIn(request_queue'["reliable"], Packet)
      /\ Distinct(request_queue["reliable"], Packet)
      /\ Kept' = Kept
  BY <1>1 DEF Coming, Sending, Kept, RepeatInv, PlaceInv
<1> HIDE DEF E
<1>5. /\ EventsDistinct(t, E)
      /\ e \in E => p.id \notin EventIds(t, E)
  BY <1>1, <1>2, <1>4, EventsDistinctShrinks
<1>6. /\ Coming \cap Sending = {} /\ Coming \cap Kept = {}
      /\ Sending \cap Kept = {}
      /\ Distinct(retry_queue, Packet)
  BY DEF RepeatInv, PlaceInv
<1>7. /\ PlaceInv'
      /\ (Coming \cup Sending)' = Coming \cup Sending
  <2>1. CASE e.kind = "reliable"
    <3>1. Coming = Coming' \cup {p.id}
      BY <1>1, <1>2, <1>3, <1>4, <2>1, EventTaken
    <3>2. p.id \notin Coming'
      BY <1>3, <1>4, <1>5, <2>1
    <3>3. /\ request_queue'["reliable"] = Append(request_queue["reliable"], p)
          /\ request_queue["reliable"] \in Seq(Packet)
      BY <1>1, <1>2, <2>1
    <3>4. Sending' = Sending \cup {p.id}
      BY <1>2, <1>4, <3>3, PacketAdded
    <3>5. p.id \notin Sending
      BY <1>6, <3>1
    <3>6. Distinct(request_queue'["reliable"], Packet)
      BY <1>2, <1>4, <3>3, <3>5, DistinctGrows
    <3>7. /\ Coming' \cap Sending' = {} /\ Coming' \cap Kept' = {}
          /\ Sending' \cap Kept' = {}
      BY <1>4, <1>6, <3>1, <3>2, <3>4
    <3> QED
      BY <1>1, <1>5, <1>6, <3>1, <3>4, <3>6, <3>7 DEF PlaceInv, E
  <2>2. CASE e.kind # "reliable"
    <3>1. Coming' = Coming
      BY <1>1, <1>2, <1>3, <1>4, <2>2, EventTaken
    <3>2. request_queue'["reliable"] = request_queue["reliable"]
      BY <1>1, <1>2, <2>2
    <3> QED
      BY <1>1, <1>4, <1>5, <1>6, <3>1, <3>2 DEF PlaceInv, E
  <2> QED  BY <2>1, <2>2
<1>8. \A n \in Ids : /\ Count(dc_events', AsksFor(n)) \in Nat
                     /\ Count(dc_events', AsksFor(n)) <=
                          Count(dc_events, AsksFor(n))
  BY <1>1, CountOther
<1>9. CountInv'
  BY <1>1, <1>7, <1>8, CountKeeps DEF RepeatInv
<1> QED  BY <1>7, <1>9 DEF RepeatInv

LEMMA SendOneRepeat ==
  ASSUME TypeInv, RepeatInv, SendOne
  PROVE  RepeatInv'
<1> DEFINE q == request_queue[sending]
           p == Head(q)
           kept == [p EXCEPT !.waited = FALSE]
<1>1. /\ sending \in Kinds
      /\ q \in Seq(Packet) /\ q # <<>>
      /\ p \in Packet
      /\ Tail(q) \in Seq(Packet)
  BY HeadQueued DEF SendOne
<1>2. /\ request_queue' = [request_queue EXCEPT ![sending] = Tail(q)]
      /\ attempts' = [attempts EXCEPT ![sending] = Append(attempts[sending], p)]
      /\ UNCHANGED <<dc_events, next_packet_sequence, pc, target, resumed>>
      /\ pc = "send"
      /\ Retain(p)
  BY DEF SendOne, task, link
<1>3. /\ request_queue \in [Kinds -> Seq(Packet)]
      /\ attempts \in [Kinds -> Seq(Packet)]
      /\ retry_queue \in Seq(Packet)
      /\ "reliable" \in Kinds
  BY DEF TypeInv, TypeOK, Kinds
<1>4. /\ sending = "reliable" => retry_queue' = Append(retry_queue, kept)
      /\ sending # "reliable" => retry_queue' = retry_queue
  BY <1>2 DEF Retain, retry
<1>5. kept \in Packet /\ kept.id = p.id
  BY <1>1, CopyKept
<1> HIDE DEF kept
<1>6. /\ Coming \cap Sending = {} /\ Coming \cap Kept = {}
      /\ Sending \cap Kept = {}
      /\ Distinct(retry_queue, Packet)
      /\ Distinct(request_queue["reliable"], Packet)
      /\ EventsDistinct(dc_events,
                        EventsOf("PublishData", "reliable", Packet))
  BY DEF RepeatInv, PlaceInv
<1>7. Coming' = Coming
  BY <1>2 DEF Coming
<1>8. \A n \in Ids : /\ Count(dc_events', AsksFor(n)) \in Nat
                     /\ Count(dc_events', AsksFor(n)) <=
                          Count(dc_events, AsksFor(n))
  BY <1>2, CountOther
<1>9. CASE sending # "reliable"
  <2>1. /\ request_queue'["reliable"] = request_queue["reliable"]
        /\ attempts'["reliable"] = attempts["reliable"]
        /\ retry_queue' = retry_queue
    BY <1>1, <1>2, <1>3, <1>4, <1>9
  <2>2. Sending' = Sending /\ Kept' = Kept
    BY <2>1 DEF Sending, Kept
  <2>3. PlaceInv'
    BY <1>2, <1>6, <1>7, <2>1, <2>2 DEF PlaceInv
  <2>4. ASSUME NEW n \in Ids
        PROVE  Paid(Count(attempts'["reliable"], CopiesOf(n)),
                    n \in (Coming \cup Sending)',
                    Count(dc_events', AsksFor(n)),
                    pc' = "retry" /\ target' < n /\ n \in Kept',
                    n < next_packet_sequence',
                    Count(resumed', 0..(n - 1)))
    BY <1>2, <1>7, <2>1, <2>2 DEF RepeatInv, CountInv, Paid
  <2>5. CountInv'
    BY <2>4 DEF CountInv, Paid
  <2> QED  BY <2>3, <2>5 DEF RepeatInv
<1>10. CASE sending = "reliable"
  <2> DEFINE x == p.id
  <2>1. /\ request_queue'["reliable"] = Tail(q)
        /\ request_queue["reliable"] = q
        /\ attempts'["reliable"] = Append(attempts["reliable"], p)
        /\ attempts["reliable"] \in Seq(Packet)
        /\ retry_queue' = Append(retry_queue, kept)
    BY <1>1, <1>2, <1>3, <1>4, <1>10
  <2>2. Sending = Sending' \cup {x}
    BY <1>1, <2>1, PacketTaken DEF Sending
  <2>3. /\ Distinct(Tail(q), Packet)
        /\ x \notin Sending'
    BY <1>1, <1>6, <2>1, DistinctShrinks DEF Sending
  <2>4. Kept' = Kept \cup {x}
    <3>1. IdsIn(Append(retry_queue, kept), Packet) =
            IdsIn(retry_queue, Packet) \cup {kept.id}
      BY <1>3, <1>5, PacketAdded
    <3> QED  BY <1>5, <2>1, <3>1 DEF Kept
  <2>5. Distinct(retry_queue', Packet)
    <3>1. kept.id \notin IdsIn(retry_queue, Packet)
      BY <1>5, <1>6, <2>2 DEF Kept
    <3> QED  BY <1>3, <1>5, <1>6, <2>1, <3>1, DistinctGrows
  <2>6. /\ Coming' \cap Sending' = {} /\ Coming' \cap Kept' = {}
        /\ Sending' \cap Kept' = {}
    BY <1>6, <1>7, <2>2, <2>3, <2>4
  <2>7. PlaceInv'
    BY <1>2, <1>6, <2>1, <2>3, <2>5, <2>6 DEF PlaceInv
  <2>8. ASSUME NEW n \in Ids
        PROVE  Paid(Count(attempts'["reliable"], CopiesOf(n)),
                    n \in (Coming \cup Sending)',
                    Count(dc_events', AsksFor(n)),
                    pc' = "retry" /\ target' < n /\ n \in Kept',
                    n < next_packet_sequence',
                    Count(resumed', 0..(n - 1)))
    <3>1. Paid(Count(attempts["reliable"], CopiesOf(n)),
               n \in Coming \cup Sending,
               Count(dc_events, AsksFor(n)),
               pc = "retry" /\ target < n /\ n \in Kept,
               n < next_packet_sequence,
               Count(resumed, 0..(n - 1)))
      BY DEF RepeatInv, CountInv, Paid
    <3>2. /\ Count(attempts["reliable"], CopiesOf(n)) \in Nat
          /\ Count(dc_events, AsksFor(n)) \in Nat
          /\ Count(resumed, 0..(n - 1)) \in Nat
      BY CountTypes
    <3>3. /\ dc_events' = dc_events /\ resumed' = resumed
          /\ next_packet_sequence' = next_packet_sequence
          /\ ~(pc' = "retry") /\ ~(pc = "retry")
      BY <1>2
    <3>4. CASE n = x
      <4>1. p \in CopiesOf(n)
        BY <1>1, <3>4 DEF CopiesOf
      <4>2. Count(attempts'["reliable"], CopiesOf(n)) =
              Count(attempts["reliable"], CopiesOf(n)) + 1
        BY <1>1, <2>1, <4>1, CountGrows
      <4>3. n \in Coming \cup Sending /\ ~(n \in (Coming \cup Sending)')
        BY <1>6, <1>7, <2>2, <2>3, <3>4
      <4> QED  BY <3>1, <3>2, <3>3, <4>2, <4>3 DEF Paid, OneIf
    <3>5. CASE n # x
      <4>1. p \notin CopiesOf(n)
        BY <3>5 DEF CopiesOf
      <4>2. Count(attempts'["reliable"], CopiesOf(n)) =
              Count(attempts["reliable"], CopiesOf(n))
        BY <1>1, <2>1, <4>1, CountGrows
      <4>3. n \in (Coming \cup Sending)' <=> n \in Coming \cup Sending
        BY <1>7, <2>2, <3>5
      <4> QED  BY <3>1, <3>2, <3>3, <4>2, <4>3 DEF Paid, OneIf
    <3> QED  BY <3>4, <3>5
  <2>9. CountInv'
    BY <2>8 DEF CountInv, Paid
  <2> QED  BY <2>7, <2>9 DEF RepeatInv
<1> QED  BY <1>9, <1>10

\* A packet that is sent again: the resume's asking is used up.
LEMMA RetryOneRepeat ==
  ASSUME TypeInv, OrderInv, RepeatInv, RetryOne
  PROVE  RepeatInv'
<1> DEFINE p == Head(retry_queue)
           e == PacketEvent("PublishData", "reliable", p)
           E == EventsOf("PublishData", "reliable", Packet)
           x == p.id
<1>1. /\ retry_queue # <<>> /\ pc = "retry"
      /\ retry_queue' = Tail(retry_queue)
      /\ dc_events' = IF Missing(p) THEN Append(dc_events, e) ELSE dc_events
      /\ UNCHANGED <<request_queue, attempts, next_packet_sequence, pc, target,
                     resumed>>
  BY DEF RetryOne, Dequeued, history, task, link
<1>2. retry_queue \in Seq(Packet) /\ dc_events \in Seq(Event)
  BY DEF TypeInv, TypeOK
<1>3. p \in Packet /\ p \in Numbered
  BY <1>1, <1>2, HeadAndTail DEF OrderInv, NumberInv
<1>4. Missing(p) <=> x > target
  BY <1>3 DEF Missing, Numbered
<1>5. /\ e \in Event /\ e.detail = "PublishData" /\ e.kind = "reliable"
      /\ e.packet = p /\ e \in E
  BY <1>3 DEF Event, PacketEvent, Kinds, EventsOf
<1>6. \A n \in Ids : e \notin AsksFor(n)
  BY <1>5 DEF AsksFor
<1>7. /\ Coming \cap Sending = {} /\ Coming \cap Kept = {}
      /\ Sending \cap Kept = {}
      /\ Distinct(retry_queue, Packet)
      /\ Distinct(request_queue["reliable"], Packet)
      /\ EventsDistinct(dc_events, E)
      /\ Coming = EventIds(dc_events, E) /\ Coming' = EventIds(dc_events', E)
  BY DEF RepeatInv, PlaceInv, Coming
<1> HIDE DEF e, E
<1>8. Sending' = Sending
  BY <1>1 DEF Sending
<1>9. Kept = Kept' \cup {x} /\ x \notin Kept' /\ Distinct(retry_queue', Packet)
  BY <1>1, <1>2, <1>3, <1>7, PacketTaken, DistinctShrinks DEF Kept
<1>10. /\ Coming' = IF Missing(p) THEN Coming \cup {x} ELSE Coming
       /\ EventsDistinct(dc_events', E)
  <2>1. CASE Missing(p)
    <3>1. dc_events' = Append(dc_events, e)
      BY <1>1, <2>1
    <3>2. EventIds(Append(dc_events, e), E) = EventIds(dc_events, E) \cup {e.packet.id}
      BY <1>2, <1>5, EventAdded
    <3>3. e.packet.id \notin EventIds(dc_events, E)
      BY <1>5, <1>7, <1>9
    <3>4. EventsDistinct(Append(dc_events, e), E)
      BY <1>2, <1>5, <1>7, <3>3, EventsDistinctGrows
    <3> QED  BY <1>5, <1>7, <2>1, <3>1, <3>2, <3>4
  <2>2. CASE ~Missing(p)
    BY <1>1, <1>7, <2>2
  <2> QED  BY <2>1, <2>2
<1>11. PlaceInv'
  <2>1. /\ Coming' \cap Sending' = {} /\ Coming' \cap Kept' = {}
        /\ Sending' \cap Kept' = {}
    BY <1>7, <1>8, <1>9, <1>10
  <2> QED  BY <1>1, <1>7, <1>9, <1>10, <2>1 DEF PlaceInv, E
<1>12. ASSUME NEW n \in Ids
       PROVE  Paid(Count(attempts'["reliable"], CopiesOf(n)),
                   n \in (Coming \cup Sending)',
                   Count(dc_events', AsksFor(n)),
                   pc' = "retry" /\ target' < n /\ n \in Kept',
                   n < next_packet_sequence',
                   Count(resumed', 0..(n - 1)))
  <2>1. Paid(Count(attempts["reliable"], CopiesOf(n)),
             n \in Coming \cup Sending,
             Count(dc_events, AsksFor(n)),
             pc = "retry" /\ target < n /\ n \in Kept,
             n < next_packet_sequence,
             Count(resumed, 0..(n - 1)))
    BY DEF RepeatInv, CountInv, Paid
  <2>2. /\ Count(attempts["reliable"], CopiesOf(n)) \in Nat
        /\ Count(dc_events, AsksFor(n)) \in Nat
        /\ Count(resumed, 0..(n - 1)) \in Nat
        /\ n \in Int /\ target \in Int
    <3>1. /\ Count(attempts["reliable"], CopiesOf(n)) \in Nat
          /\ Count(dc_events, AsksFor(n)) \in Nat
          /\ Count(resumed, 0..(n - 1)) \in Nat
      BY CountTypes
    <3>2. n \in Int
      BY ReliableChannelAssumption DEF Ids
    <3>3. target \in Int
      BY DEF TypeInv, TypeOK
    <3> QED  BY <3>1, <3>2, <3>3
  <2>3. /\ Count(dc_events', AsksFor(n)) \in Nat
        /\ Count(dc_events', AsksFor(n)) <= Count(dc_events, AsksFor(n))
    <3>1. dc_events' = dc_events \/ dc_events' = Append(dc_events, e)
      BY <1>1
    <3> QED  BY <1>5, <1>6, <3>1, CountOther
  <2>4. /\ attempts' = attempts /\ resumed' = resumed /\ target' = target
        /\ next_packet_sequence' = next_packet_sequence
        /\ pc' = "retry" /\ pc = "retry"
    BY <1>1
  <2>5. CASE n = x
    <3>1. n \in Kept /\ ~(n \in Kept') /\ ~(n \in Coming \cup Sending)
      BY <1>7, <1>9, <2>5
    <3>2. n \in (Coming \cup Sending)' => target < n
      BY <1>4, <1>8, <1>10, <2>2, <2>5, <3>1
    <3> QED  BY <2>1, <2>2, <2>3, <2>4, <3>1, <3>2 DEF Paid, OneIf
  <2>6. CASE n # x
    <3>1. /\ n \in Kept' <=> n \in Kept
          /\ n \in (Coming \cup Sending)' <=> n \in Coming \cup Sending
      BY <1>8, <1>9, <1>10, <2>6
    <3> QED  BY <2>1, <2>2, <2>3, <2>4, <3>1 DEF Paid, OneIf
  <2> QED  BY <2>5, <2>6
<1>13. CountInv'
  BY <1>12 DEF CountInv, Paid
<1> QED  BY <1>11, <1>13 DEF RepeatInv

LEMMA StopRepeat ==
  ASSUME TypeInv, RepeatInv, Stop
  PROVE  RepeatInv'
<1>1. /\ dc_events' = <<>> /\ retry_queue' = <<>> /\ pc' = "done"
      /\ request_queue'["reliable"] = <<>>
      /\ UNCHANGED <<attempts, next_packet_sequence, resumed>>
  BY DEF Stop, history, link, Kinds
<1>2. Coming' = {} /\ Sending' = {} /\ Kept' = {}
  BY <1>1, IdsOfNone DEF Coming, Sending, Kept
<1>3. PlaceInv'
  BY <1>1, <1>2, IdsOfNone DEF PlaceInv
<1>4. ASSUME NEW n \in Ids
      PROVE  /\ Count(dc_events', AsksFor(n)) \in Nat
             /\ Count(dc_events', AsksFor(n)) <= Count(dc_events, AsksFor(n))
  <2>1. Count(dc_events', AsksFor(n)) = 0
    BY <1>1, CountNone
  <2> QED  BY <2>1, CountTypes
<1>5. CountInv'
  BY <1>1, <1>2, <1>4, CountKeeps DEF RepeatInv
<1> QED  BY <1>3, <1>5 DEF RepeatInv

-----------------------------------------------------------------------------
LEMMA InitRepeat == Init => RepeatInv
<1> SUFFICES ASSUME Init PROVE RepeatInv
  OBVIOUS
<1>1. /\ dc_events = <<>> /\ retry_queue = <<>> /\ resumed = <<>>
      /\ request_queue["reliable"] = <<>> /\ attempts["reliable"] = <<>>
      /\ pc = "select" /\ next_packet_sequence = 1
  BY DEF Init, Kinds
<1>2. Coming = {} /\ Sending = {} /\ Kept = {}
  BY <1>1, IdsOfNone DEF Coming, Sending, Kept
<1>3. PlaceInv
  BY <1>1, <1>2, IdsOfNone DEF PlaceInv
<1>4. ASSUME NEW n \in Ids
      PROVE  /\ Count(attempts["reliable"], CopiesOf(n)) = 0
             /\ Count(dc_events, AsksFor(n)) = 0
             /\ Count(resumed, 0..(n - 1)) = 0
  BY <1>1, CountNone
<1>5. CountInv
  BY <1>1, <1>2, <1>4 DEF CountInv, OneIf
<1> QED  BY <1>3, <1>5 DEF RepeatInv

LEMMA StepRepeat == Inv /\ RepeatInv /\ [Next]_vars => RepeatInv'
<1> SUFFICES ASSUME TypeInv, OrderInv, RepeatInv, [Next]_vars PROVE RepeatInv'
  BY DEF Inv
<1>1. ASSUME NEW kind \in Kinds, PublishData(kind) PROVE RepeatInv'
  BY <1>1, PublishDataRepeat
<1>2. CASE AssignSequence
  BY <1>2, AssignSequenceRepeat
<1>3. CASE QueueData
  BY <1>3, QueueDataRepeat
<1>4. CASE SendOne
  BY <1>4, SendOneRepeat
<1>5. CASE RetryOne
  BY <1>5, RetryOneRepeat
<1>6. CASE Stop
  BY <1>6, StopRepeat
<1>7. CASE Quiet
  BY <1>7, QuietRepeat, RestartRepeat, OnRetryFromRepeat
<1>8. CASE UNCHANGED vars
  <2>1. UNCHANGED <<dc_events, next_packet_sequence, pc, target, request_queue,
                    retry_queue, resumed, attempts>>
    BY <1>8 DEF vars, task, retry, link, history
  <2>2. Coming' = Coming /\ Sending' = Sending /\ Kept' = Kept
    BY <2>1 DEF Coming, Sending, Kept
  <2> QED  BY <2>1, <2>2 DEF RepeatInv, PlaceInv, CountInv
<1> QED
  BY <1>1, <1>2, <1>3, <1>4, <1>5, <1>6, <1>7, <1>8 DEF Next, TaskStep, Quiet

LEMMA SpecRepeat == Spec => [](Inv /\ RepeatInv)
BY InitInv, StepInv, InitRepeat, StepRepeat, PTL DEF Spec

\* A packet is repeated at most once per resume that asked for it: what the
\* server had received is never sent again (_enqueue_for_retry_from), for any
\* number of resumes, overlapping or not.
THEOREM RepeatsAreMissing == Spec => []RepeatsOnlyMissing
<1>1. Inv /\ RepeatInv => RepeatsOnlyMissing
  <2> SUFFICES ASSUME TypeInv, OrderInv, RepeatInv,
                      NEW n \in 1..(next_packet_sequence - 1)
               PROVE  Cardinality({i \in 1..Len(attempts["reliable"]) :
                                     attempts["reliable"][i].sequence = n})
                        <= 1 + Cardinality({r \in 1..Len(resumed) :
                                              resumed[r] < n})
    BY DEF Inv, RepeatsOnlyMissing
  <2> DEFINE a == attempts["reliable"]
  <2>1. /\ a \in Seq(Packet) /\ a \in Seq(Numbered) /\ resumed \in Seq(Nat)
        /\ next_packet_sequence \in Nat
        /\ published["lossy"] \in Nat /\ published["reliable"] \in Nat
        /\ published["lossy"] + published["reliable"] <= MaxCalls
        /\ MaxCalls \in Nat
        /\ next_packet_sequence \in 1..(published["reliable"] + 1)
    BY ReliableChannelAssumption
       DEF TypeInv, TypeOK, OrderInv, NumberInv, CalledInv, Kinds
  <2>2. n \in Ids /\ n \in Nat \ {0} /\ n < next_packet_sequence
    BY <2>1 DEF Ids
  <2>3. {i \in 1..Len(a) : a[i].sequence = n} = Places(a, CopiesOf(n))
    <3>1. \A i \in 1..Len(a) : a[i] \in Packet /\ a[i] \in Numbered
      BY <2>1
    <3> QED  BY <3>1 DEF Places, CopiesOf, Numbered
  <2>4. {r \in 1..Len(resumed) : resumed[r] < n} = Places(resumed, 0..(n - 1))
    <3>1. \A r \in 1..Len(resumed) : resumed[r] \in Nat
      BY <2>1
    <3> QED  BY <2>2, <3>1 DEF Places
  <2>5. Paid(Count(a, CopiesOf(n)), n \in Coming \cup Sending,
             Count(dc_events, AsksFor(n)),
             pc = "retry" /\ target < n /\ n \in Kept,
             n < next_packet_sequence,
             Count(resumed, 0..(n - 1)))
    BY <2>2 DEF RepeatInv, CountInv, Paid
  <2>6. /\ Count(a, CopiesOf(n)) \in Nat
        /\ Count(dc_events, AsksFor(n)) \in Nat
        /\ Count(resumed, 0..(n - 1)) \in Nat
    BY CountTypes
  <2>7. Count(a, CopiesOf(n)) <= 1 + Count(resumed, 0..(n - 1))
    BY <2>2, <2>5, <2>6 DEF Paid, OneIf
  <2> QED  BY <2>3, <2>4, <2>7 DEF Count
<1> QED  BY SpecRepeat, <1>1, PTL

=============================================================================
