# TLA+ models of the LiveKit Rust SDK

Modules, TLC configurations and TLAPS proofs for the client logic of this
repository: how a room stays connected, how the publisher negotiates, and how
messages and data leave the client. Paths are relative to the repository root;
`rtc_engine/` and `room/` stand for `livekit/src/rtc_engine/` and
`livekit/src/room/`.

Run `tlc -config X.cfg M` and `tlapm M.tla` in this directory; the table of
runs below names the module of each configuration. `PROJECT.json` maps each
definition to the lines it models and lists runs, hazards and theorems.

## 1. Inventory of the system

A `Room` owns a `RoomSession`, which consumes the events of an `RtcEngine`. The
engine owns one `RtcSession` at a time and replaces or resumes it when it
breaks. A session owns two `PeerTransport`s, a `SignalClient`, the data
channels and their sender tasks. The FFI server wraps all of it for other
languages. Everything is a tokio task that talks to the others through
channels, shared atomics, and mutexes held across awaits.

| Component | State | Operations | Hard part | Correct when |
|---|---|---|---|---|
| Signal client (`livekit-api/src/signal_client/`) | stream slot behind an RwLock, queue behind a Mutex, `reconnecting` | send, flush_queue, restart, set_reconnected, close, signal_task | two locks held across awaits, streams that break under a send | each message is written once or known lost, in order; sends return |
| Peer transport (`rtc_engine/peer_transport.rs`) | mutex of `TransportInner`: pending candidates, `renegotiate`, `restarting_ice` | create_and_send_offer, set_remote_description, add_ice_candidate | a non-reentrant mutex across awaits, ICE restart with an offer outstanding | answers match offers, candidates are not lost or stranded |
| Negotiation (`rtc_engine/rtc_session.rs`, `utils/debouncer.rs`) | `NegotiationQueue`: state, waker, two atomics; the debouncer | publisher_negotiation_needed, queue_negotiation, the retry loop | flags read and written in separate steps, timeout races answer | one loop, nothing stuck, every change offered |
| Reliable and lossy channels (`rtc_session.rs`, `utils/tx_queue.rs`) | request queues, byte counters, retry queue, last sequence per sender | publish, flow control, retry after a resume | resend after a resume, trimming | no loss and no duplicate across a resume |
| Data-track sender (`rtc_engine/dc_sender.rs`) | bounded frame queue with a Notify, in_flight, byte counter | send, recv, drain, handle_bytes_sent | lost wake-ups, eviction, backpressure, failing sends | frames whole, in order, bounded buffer |
| Engine (`rtc_engine/mod.rs`) | the session, engine task, `closed`, `reconnecting`, `can_reconnect`, `full_reconnect`, reconnecting_lock | reconnection_needed, reconnect_task, try_restart, try_resume, close | reports of faults, close and cycles interleave; calls hold the lock across awaits | one cycle at a time, API calls see the latest session, no event of an old one is read after the new one |
| Room session (`room/mod.rs`) | connection state, participants, handle | a handler per engine event, close | handlers that spawn tasks, acknowledgements the engine awaits | the room leaves Reconnecting, closes when told, handles each announcement in its phase |
| Data-track publication (`livekit-datatrack/src/local/`) | descriptors by handle, a task per track, two bounded event channels | publish, unpublish, republish, shutdown, the SFU's answers | late answers, dropped events, a shutdown that joins tasks which wait for it | SFU, manager and owner agree when quiet; shutdown ends |
| Data-track subscription (`livekit-datatrack/src/remote/`) | descriptors by SID, the index of handles, a task and a broadcast channel per track | subscribe, unsubscribe, publication updates, handles, packets | stale requests of ended tasks, handles assigned again after a restart | index exact, a stream ends only with its track |
| Data-track packets (`packetizer.rs`, `depacketizer.rs`) | wrapping counters, the frame being assembled | packetize, push | loss, reordering, wrapping numbers, the buffer's limit | frames whole, none lost without need |
| Data streams (`room/data_stream/`) | open streams with their progress; a writer's index | header, chunk, trailer; write, close, drop | dropped calls, failed sends, packets repeated by a resume or lost by a restart | what is read is in order and whole but for packets a restart lost; it ends with its writer |
| RPC (`room/participant/local_participant.rs`) | pending acks and responses | perform_rpc, handle_incoming_* | timers against late acks and answers, repeated requests | one result per call, nothing left pending |
| Local media (`room/participant/local_participant.rs`, `rtc_session.rs`) | publications, transceivers, pending_tracks | publish_track, unpublish_track, add_track, create_sender, republication | a restart in the middle of a call, republication racing the application | room and server agree, published tracks survive a restart |
| Remote participants and publications | tables of objects | updates from the server | order of events during reconnection | events match the tables |
| E2EE, FFI server | handles and native objects | requests of the client | order of close | handles match objects |

Left aside: generated protocol code, the WebRTC and image-processing bindings,
the stateless server APIs, device wrappers, examples. `PROJECT.json` lists each
with its reason, and every hazard at its line.

## 2. Modules

    DcSender, Packets, LocalTracks --- DataTrackProofs
    PeerTransport <- Negotiation ----- NegotiationProofs
    Reconnection <= (Engine <- Room), DataStreams
      ------------------------------ RoomProofs
    SignalClient --------------------- SignalClientProofs
    LocalMedia ----------------------- LocalMediaProofs
    RpcService <= Rpc ---------------- RpcProofs
    RemoteTracks --------------------- RemoteTracksProofs
    ReliableChannel ------------------ ReliableChannelProofs

`<-` is EXTENDS, `<=` is implemented by (INSTANCE); `MCx` modules give the
constants of a run. A step is the code between two points where another task may
act: an await, a lock, an atomic load followed later by a store. Variables and
actions keep the names of the source. Byte contents, SDP text, logging and
wall-clock time are left out; a timeout is a step that may be taken at any time
it is armed.

**DcSender** (`rtc_engine/dc_sender.rs`). `queue`/`permit` are the
DataTrackSendQueue and its Notify, `pc` is the place of `DataChannelSender::run`
(`recheck` is the window between `try_pop` and registering for a wake-up).
`Send` and `NotifyOne` are the producer; `RecvPop`, `RecvRecheck`,
`OnBytesSent`, `Dispatch`, `DrainDone`, `Stop` the branches of the task. The
channel is external: it accepts packets, transmits them and reports bytes.

**PeerTransport** (`rtc_engine/peer_transport.rs`). `lock` is the tokio mutex;
`call[c]` says where a caller is in `create_and_send_offer`. `RollsBack` is the
ICE-restart path. The signal task handles one message at a time (`handler`,
`msg`); a description is a number, an ICE generation and the media changes it
covers. The server answers in order and trickles candidates.

**Negotiation** (`rtc_session.rs`) adds the four fields of NegotiationQueue, the
negotiation loops (`task`), publishers caught between loading
`waiting_for_answer` and writing the state (`app`), and the debouncer.
`fast_publish` is chosen at the start as the JoinResponse does.

**Engine** (`rtc_engine/mod.rs`) follows the reconnect cycle by its program
counter `rpc`; `waiting` counts tasks that wait for the write lock, `api` the
callers that hold the read lock, `loop[s]` is the engine task of session `s`,
`engine_tx` the events on their way to the room, `closer` the callers of
`close`. `session.close()` is one step. A session in `up` works; one that broke
may report it again. A caller can always end on a session that works or that
was closed (`ApiCanEnd`); on a broken one it may keep the lock for ever.

**Room** (`room/mod.rs`) extends it with the handlers of those events, the
tasks that `handle_signal_resumed` (`syncing`) and `handle_restarted`
(`republishing`) spawn, and closing the room. Participants are left out: which
updates an old session may still deliver is said of its engine task.

**Reconnection** is what those two promise together, without locks, events,
acknowledgements or attempts: one cycle at a time resumes or restarts, never
resumes after it decided to restart, settles with a session that works or
because the engine is closed, installs a session only if it is newer and no API
call uses the old one, and does not begin after the server asked to disconnect.
Room instantiates it: `Phase` reads the phase off `reconnecting`,
`full_reconnect` and the program counter `rpc`; the session works while it is in
`up`; its users are the callers that hold the read lock.

**SignalClient** (`signal_client/mod.rs`, `signal_stream.rs`). `stream`,
`readers`, `writer` and `waiters` are the slot behind tokio's RwLock, which
serves requests in order: a reader waits behind a writer that came first, which
is what makes the three-way wait of section 6 possible. `at[p]` is the place of
a task in `send`, `flush_queue` or `restart`. A ping is a send like another and
is not modelled separately; `signal_task` here never waits for one.

**ReliableChannel** (`rtc_session.rs`, `utils/tx_queue.rs`,
`rtc_engine/rtc_events.rs`). `dc_events` is the one queue through which callers,
channel callbacks and a resume speak to `data_channel_task`; `pc` is the task's
place among its four loops; `retry_queue` and `buffered_size` are the TxQueue.
The server and the receiver are as much as the sender depends on: the server
forwards packets as they come and remembers the highest number (`server_seq`),
the receiver hands every packet to its room. Its `packet_rx_state` only feeds
the sync state of its own resume and is left out. The channels survive a resume,
as they do in the code, so nothing in them is lost; the threshold, which
`set_data_channel_buffered_amount_low_threshold` can change, is a constant.

**LocalTracks** (`livekit-datatrack/src/local/manager.rs`, `mod.rs`, the forward
task of `room/mod.rs`). `manager` is the actor, `task[c]` the TrackTask of a
track, `forwarder[c]` its forward_publish_result. `event_in` and `event_out` are
bounded channels: what lies beyond position `Capacity` is a sender that waits,
so a full channel stops whoever the code stops, and the room's `try_send` loses
what the code loses (`lost` remembers which events). The SFU (`sfu`, `toSfu`,
`fromSfu`) is external.

**RemoteTracks** (`livekit-datatrack/src/remote/manager.rs`, `mod.rs`) has the
same shape for subscribers. `sub_handles` is the index by handle,
`subscription` and `sub_handle` the descriptors, `channel[t]` numbers the
broadcast channels a track has had; `late` marks a subscriber who joined a
channel whose task had already left its loop. The SFU assigns handles per
session.

**Packets** (`local/packetizer.rs`, `remote/depacketizer.rs`) joins both ends
by a channel that loses, reorders and repeats. A payload names the frame and the
chunk it came from, so a frame put together from two shows.

**DataStreams** (`room/data_stream/outgoing.rs`, `incoming.rs`) is one stream
between two rooms; `call` is the writer's pending future, `pump` the task that
publishes, `net` the reliable channel as ReliableChannel describes it, with its
repetition after a resume. `publish_data` answers once a packet is handed to the
data channel, so a full restart of the sender's session loses any tail of `net`,
and one of the reader's any stretch of it, answered packets included (`lost`),
while the stream goes on. A writer that is dropped without a runtime sends no
trailer (`untold`, `outgoing.rs:250`).

**Rpc** (`local_participant.rs`, the tasks of `room/mod.rs`) follows the caller
through its two waits and the callee's tasks. **RpcService** is what perform_rpc
promises: a call has one result, an answer given to this call or an error.
`KeepsPromise` in Rpc says that Rpc implements it, its liveness included.

**LocalMedia** (`local_participant.rs`, `rtc_engine/mod.rs`, `rtc_session.rs`,
`handle_restarted` of `room/mod.rs`). `call[<<t, n>>]` is the place of a
publish_track or unpublish_track, made by the application (`n = App`) or by the
task that republishes in session `n`. Of module Engine it keeps
reconnecting_lock (`conn` is "queued" while a writer waits for its readers); a
negotiation is one step.

Where a module defines an operator and next to it "a broken variant", the
variant is a plausible bug used to check that a property of the runs can fail;
no specification uses it.

## 3. Runs

One run per module or composition, shared by several properties, each stated so
that it holds in every scenario of its run. The run of kind "violation" shows a
statement of the code that the code does not keep. Where a run has `FaultSets`,
a behaviour first picks one of these sets and only its faults occur: this keeps
unrelated faults apart and the state space small.

| Run | Module, cfg | Bounds | Shows |
|---|---|---|---|
| dc_sender | MCDcSender | 5 frames of 2, 0, 1, 3, 1 packets, capacity 1, threshold of 1.5 packets, failing sends, close | packet order, exact accounting, no lost wake-up, every frame settles |
| negotiation | MCNegotiation, Negotiation | both modes, 2 loops, 2 publishers, 2 changes, 1 ICE restart, 1 candidate per generation; no faults, or late answers and lost offers, or failures and a close | loops end, a retry marked during a loop is honoured, a note to renegotiate waits only for an answer on its way, nothing stuck InProgress, answers match, candidates conserved |
| room | MCRoom, Room | 2 reports of faults (a repeated one counts), 2 attempts, 1 API caller, resumes and restarts that fail or are refused, a server disconnect, a close by the application | latest session, no event of an old session after a newer one; Engine and Room implement Reconnection; cycles that can begin and go on end, the room leaves Reconnecting, a disconnect closes it, a fault is handled |
| signal_restarts | MCSignalClient, Signal_restarts | an application task and the negotiation, 2 messages each, 2 failures, 1 restart | messages conserved, in order, delivered |
| reliable | MCReliableChannel, Reliable | 3 calls over either channel, packets of 1 and 2 bytes, threshold 2, 1 resume, failing sends, close | order of first sends, what is repeated; calls return, reliable packets arrive |
| local_tracks | MCLocalTracks, LocalTracks | 2 tracks, 1 handle, channels of 2, 1 frame, 2 restarts, refusals, timeouts, close | no orphan at the SFU, what an owner holds is served, shutdown ends |
| remote_tracks | MCRemoteTracks, RemoteTracks | 1 track, 2 subscribers, channels of 2, packet channel of 1, 2 packets, 1 restart, unpublication, timeouts, close | index exact, SFU and descriptors agree, streams end with their track |
| remote_misrouted | MCRemoteTracks, Remote_misrouted | 2 tracks, 2 subscribers, no packets, 1 restart | violation: a restart leaves an active subscription without its entry in the index |
| packets | MCPackets, Packets | 3 frames of 0, 1, 3 or 4 chunks, 2 frame numbers, 4 sequence numbers, buffer of 3, 1 repeat, any loss and order | frames whole; a frame that arrives cleanly is delivered |
| data_streams | MCDataStreams, DataStreams | total announced or not, 3 writes, any 2 of a failed send, a dropped call, a resume, a full restart of either side, the close of the sender's room; a dropped reader, a writer dropped without a runtime | what is read is in order and has no hole but a packet that a restart lost; a stream that ends without an error was read whole; a stream ends with its writer |
| rpc | MCRpc, Rpc | 2 calls, one of them cancellable, 1 failed send, 1 resume that repeats 1 packet, timers at any time | no stale entry; Rpc implements RpcService |
| local_media | MCLocalMedia, LocalMedia | 1 track, 3 sessions, 3 events (calls of publish_track and lost connections together); no faults, or one kind of: late answers, dropped futures, failed calls | a publication that can be unpublished has its transceiver, room and server agree, tracks are back when the room reports Reconnected, the room leaves Reconnecting |

Why these bounds suffice for the cases that matter. DcSender: with capacity 1
the third frame in a row evicts, and a frame of two packets crosses the
threshold, so eviction, backpressure inside a frame, an empty frame and a
rejected packet meet in one behaviour. Negotiation: two changes are a request
and the one that overtakes its answer; two publishers race for the state; one
ICE restart has a generation before and after it; two loop identities would show
a second loop. Engine: two reports are one that starts a cycle and one that
meets it at any point, or the same break reported twice, two attempts are a
resume and the restart it escalates to. SignalClient: two messages of one sender
have an order, two failures are the loss of a stream and of its successor, one
restart has a stream before and after it. ReliableChannel: three packets of
unequal size fill the channel past its threshold while one waits, and a resume
at any point finds packets received, transmitted, buffered and queued.
LocalTracks: two tracks and one handle make an allocation fail or reuse; two
restarts overlap one republication; channels of two are filled by one track's
own events. RemoteTracks: two subscribers share a channel, and the second can
join between the first one's leaving and the request that follows; packets
beyond the first find the packet channel full. Packets: three frames reuse the
first frame number, a frame of four uses all sequence numbers and exceeds the
buffer. DataStreams: of three writes the middle one can be lost between two that
arrive; two troubles are any pair that meets, on the header, a chunk or the
trailer, two restarts among them. Rpc: two calls can exchange answers, a
repeated packet can be a request, an acknowledgement or a response. LocalMedia:
three sessions are two restarts, the second of which may start before the first
republication is over. `Max...` constants are guards on the environment only.
Deadlock checking is off since every system here may come to rest (nothing more
to send, closed, disconnected).

## 4. Fairness

Weak fairness of a task's steps says the executor polls a woken task again and
that awaited calls of the peer connection, the server and the network return, as
the code assumes when it awaits them without a timeout (where it has one, the
timeout is a step). DcSender and ReliableChannel state it per task and for the
channel. Negotiation, LocalTracks, DataStreams, LocalMedia, Room and Rpc state
it for the union of such steps: their behaviours are bounded, a step always uses
something up, and so no step of the union can be put off for ever by the others.
Strong fairness is used only where a tokio Mutex or RwLock is acquired in
SignalClient: both are FIFO, so a waiter that can get the lock again and again
gets it. Room, SignalClient and LocalMedia model the RwLock's order themselves:
a writer that waits keeps new readers out.

Nothing obliges an application to send, publish or close, or a fault to happen.
Three more steps of Room are not fair, since nothing in the code makes them
happen: the end of an API call on a session that is broken and not closed
(`publish_data` waits for its channel without a timeout), the sync state
(`query_tracks` waits for a manager that may wait for the cycle), and the end of
a republication. The liveness properties of Room hold up to these: `Held`,
`syncing` and `republishing` are their exceptions, each as "from some time on
for ever". LocalMedia, which has the answer of add_track under the lock and its
timeout, does without. Rpc assumes that `publish_data` returns, which it does
while the channel drains. Liveness and fairness are checked by TLC only.
RemoteTracks and Packets have safety properties only, and their runs use the
specification without fairness.

## 5. Proofs

The theorems hold for every value of the constants allowed by the ASSUMEs
(`DcSenderAssumption`, `EngineAssumption`, ...), which only say which constants
are numbers, that bounds are natural and that identities differ. Each safety
theorem is `Init => I`, `I /\ [Next]_vars => I'`, `I => P`.

* **DataTrackProofs**, of DcSender. `TypeInv` is TypeOK with "nothing is in
  flight while the task looks for a frame" and `NoLostWakeup`; both are needed
  since a frame is appended to `in_flight`. From it `TypeCorrect` and
  `WakeupsAreKept`. `CounterExact` adds `CountInv` (`buffered_amount` is what
  the channel holds, what it has reported and what was rejected) and
  `RejectedOrder`, by which a rejected packet is counted once. `Backpressure`
  needs `BufferInv`: the channel's bytes and pending reports are bounded by
  `buffered_amount` (not equal, since rejected packets stay counted).
  `NoInterleaving` needs `OrderInv`: queue, in_flight and wire, read from back
  to front, are one increasing sequence of (frame, index).
* **NegotiationProofs.** `task_running` is reset by the last step of a loop and
  not under the mutex of the state; `QueueInv` adds that a live task implies
  the flag, whence `OneNegotiator` and `InProgressIsServed`.
  `NoStrandedCandidates` is inductive by itself. `NotesAreRead` joins two
  arguments: what leaves a note behind, or takes one, holds the mutex, so a note
  is found only with an offer outstanding (`NoteInv`); and an offer outstanding
  that was not lost is at the server, or its answer is on its way or in the
  hands of the handler that takes the note. That this handler then makes the
  offer is not claimed (section 6). `CandidatesConserved` counts the
  places of a candidate: the signal channel, the handler's hand, the candidates
  held back, the peer connection. `AnswersMatch` needs that at most one offer
  or answer is under way, and only while its offer is outstanding.
* **RoomProofs.** `IInv` joins types, `CycleFlag` (the flag `reconnecting`
  mirrors a waiting or running reconnect task), `Escalated` (past its first
  attempt a cycle has decided for a restart) and `ApiInv` (a caller inside an
  API call keeps the cycle away). From it `TypeCorrect`, `SingleReconnectTask`,
  `ApiCallsUseLatest`; the action properties `ResumesOnlyFirst` and
  `DisconnectIsFinal` follow from `IInv` or from the guards of the steps.
  `HandledInStep` needs `EventInv`: at most one event that wants an
  acknowledgement is announced, it is that of the place where the reconnect task
  waits, and no stale acknowledgement is left in its channel. `OldTasksEnd`
  needs `TaskInv`, which follows the engine tasks through a restart: a task
  taken out of the handle is ended before a session is created, unless the
  engine is closed, and only a call of `close` that has marked it closed ends a
  task otherwise (`CloserInv`). `EngineImplements` is the refinement of
  Reconnection. Beside `IInv` it needs `SettleInv`: the session being connected
  is newer than the one in use, and a caller of `close` past its first step has
  marked the engine closed, so a cycle that gives up gives up a closed engine.
  `CycleKeeps` has a step per program point of the reconnect task: most leave
  `Phase` as it is, `ResumeWait` settles only with the session up, and
  `RestartWaitPc` installs under no reader since `ApiInv` keeps readers out.
  `OthersKeep` has the steps of everybody else, whose reports may begin or
  escalate a cycle and never settle one.
* **RoomProofs**, of DataStreams. `ReadExactly` and `GivenInOrder` relate the
  calls that returned at the writer to what a reader in another room has read,
  with a task, a channel and the server between them; `DataStreamsInv` follows a
  write through all of them. `IndexInv`: later writes have later chunk indices,
  or the same one after a failure, so an index names the writes that may carry
  it. `ReadInv`: the reader has one chunk for each index before the one it
  expects, and whatever else was made from that index on belongs to a later
  write; hence a repeated or reused chunk ends the stream and is never read
  twice or out of order. `SentInv`: the chunk of a write that succeeded was sent
  before any trailer and any later chunk (a write on a clone of a closed writer
  is why `acked` counts writes before a close). `CoverInv` is the part that took
  thought: for a write that succeeded and that no restart lost, at the end of
  what is on its way, and at every trailer and later chunk in it, the chunk is
  either still to come, behind the last header, or has been read. A resume sends
  again a tail of what was sent, which either starts behind the header or holds
  the header and the chunk; a restart only takes packets away. `CountInv` and
  `FromSent`: while every write has succeeded the indices are the writes'
  numbers, and what is read stands at its index. So a restart that loses a chunk
  of such a stream lets the reader have a beginning of it and no more.
  `OnlyDisturbedMiss` (failed sends alone never make a reader miss a chunk)
  needs `OnceInv` (one header on its way at most) and `FlowInv`: undisturbed,
  the chunks on their way have the indices expected, and chunk_index is the next
  one, counting a send whose answer is still to be read.
* **SignalClientProofs.** `TypeInv` adds to TypeOK that a sender inside `send`
  has a message, that streams are numbered without gaps, and that a restart
  under way has a number left; from it `TypeCorrect`. `Conserved` is inductive
  with it (`MessagesConserved`): a step that takes a message out of a hand or
  out of the queue puts it elsewhere. `WrittenOnce` needs `OnceInv`: a message
  in hand or still to be sent is nowhere else, and the queue holds none twice.
  `WrittenInOrder` needs `OrderInv`: the queue keeps the order of each sender's
  calls, and what was flushed from it came before what it still holds; and
  `WindowInv`: a sender that reads the slot while a message of its own is queued
  had flushed and found no stream, so the stream it gets now is one that
  restart() made and whose set_reconnected is still to come. Its message is then
  in `early`, the one excuse that the property knows. `ClosesOwnStream` needs
  `TaskOfStream`: only the last stream can have a signal task that has not
  ended, and it has ended once a restart locks the slot.
* **RpcProofs.** `Inv` says of every message, kept for a retry or on its way,
  that it is valid (a response carries an answer the callee gave to that call),
  of every task of the callee that its call was made, and of every response
  received that it is an answer to its call. With it every step of Rpc is a
  step of RpcService or leaves its variables alone, so `Implements` proves the
  safety part of the refinement for any number of calls, failures and repeats.
  `EntryInv` ties the pending entries to the caller's place: `EntriesRemoved`.
* **LocalMediaProofs.** `TransceiversInPlace` is why unpublish_track may unwrap
  the transceiver of a publication, outside the races named in the property.
  It needs to know which caller may hold a publication: a new identity is in
  no table (`Fresh`), one caller works on a publication (`Alone`), a track has
  one publication at a time unless it was raced for (`OnePublication`: theorem
  `PublishedOnce`), a task takes one turn per track (`OneTurn`), and a pending
  entry belongs to the call that made it (`PendingOwn`). `EntriesAwaited`: an
  entry of pending_tracks is awaited, unless its future was dropped or its task
  panicked. `RoomAgreesWithServer` needs `ServerInv`, which says of each track
  that is excused by none of the property's exceptions what holds at every stage
  of a publication: one call waits for the one request or answer on its way
  (`Waits`), the publication a call was given is the server's newest
  (`Answered`), a transceiver sends for a publication in the table or for the
  call that puts it there or removes it (`Sends`), the media sections follow the
  transceivers as soon as they were negotiated (`Streams`), and a publication
  without its transceiver in this session still has a republishing task due
  (`Restored`). A frame lemma (`TrackStays`) covers the tracks a step leaves
  alone; only a restart makes a track regular again, and leaves nothing of it.
  `TracksAreRestored` is about one lost connection and no faults (`Calm`), and
  needs to know how a reconnection gets on (`OneLoss`), that no call waits while
  the lock is held (`NoReaders`), that in the new session every call that waits
  gets its answer (`AnswersCome`) and that what the application owns is in the
  table or in the hands of a republishing task (`OwnedKept`). When that task
  ends nothing is in its hands, and `Restored` says where the publication is.
* **RemoteTracksProofs.** `TypeCorrect` carries `EventsInv`: an event on its way
  names what its handler will look up, and a caller whose request is queued, or
  whose sender a pending subscription holds, still asks for that track.
  `IndexCorrect` is `IndexSound` made inductive by it. `StreamsEndOnlyWithTrack`
  needs `LeaveInv` (while a track is published, its task runs only for an active
  subscription, and at most one request to unsubscribe is on its way, that of
  the task of this subscription) and `ReadingInv` (who reads a channel, and
  whether its task still serves it). The attempt to prove the property with the
  excuse "the channel had no reader when the subscriber joined" failed: with
  three subscribers a second one may join a channel whose task has ended, and
  then the channel has a reader. The history variable `late` therefore asks for
  the task and not for the readers; two subscribers could not show the
  difference. `SfuHasSubscriptions` follows the two ways a subscription takes.
  `Requested`: the last update for a track on its way to the SFU says what the
  manager wants, wherever it is queued, and with none on its way the SFU agrees
  (after a restart, once the manager has resent). `HandleKnown`: the last handle
  on its way back is the one the SFU uses, and with none on its way it is the
  one known here, unless an Unsubscribe is on its way. Each half has its own
  excuse, the event that was lost: the request to resend for the first, the
  handle of this very track for the second; lost packets excuse nothing. Only
  the last message about a track matters, so the proof rests on lemmas about
  what append, tail and concatenation do to the last element of a queue that
  belongs to a set.
* **DataTrackProofs**, of Packets (its Init, Next and Spec carry the module's
  name since both are extended here). The packetizer keeps no record of where a
  frame began, so the invariant says that there is a function from frames to
  first sequence numbers with which the packets on their way (`NetInv`), the
  chunks of the frame under way (`PartialInv`) and the packets that came in
  order (`StreakInv`) agree. The lemmas about `%` show that a frame of at most
  SequenceSpace chunks uses different numbers and that finalize visits exactly
  these. From it `OnlyWholeFrames` and `CleanFramesDelivered`, for counters of
  any width and any MaxBuffer: the run's widths of 2 and 4 are not special. The
  proof needs that a frame has no more chunks than there are sequence numbers
  (the assumption on Sizes). The packetizer does not check it; with an MTU of
  16000 bytes a longer frame would have more than a gigabyte.
* **DataTrackProofs**, of LocalTracks. `NoOrphan` and `PublishedIsServed` speak
  of moments when nothing is under way, so their invariant (`TracksInv`, while
  the room is open) says for every track what the messages on their way make up
  for. `Unaccepted`: a publish_track that the manager has not accepted has left
  no trace, and its request is queued once at most. `Stage`: what the
  descriptor, the task, the oneshot and the caller know of each other; a pending
  descriptor whose forward_publish_result has ended belongs to a caller that
  timed out, the one way in which an answer is dropped without telling the SFU.
  `Order`: no request to publish stands behind a request to unpublish. A
  RepublishTracks asks only for tracks that have a descriptor, and a track whose
  SfuUnpublishRequest is on its way has none; without this a late unpublish
  would end a new publication. `Looked`: a track the SFU publishes, or is asked
  to, has a running task, or the request of its task is queued, or the SFU is
  about to be told. `Served`: while no event was lost, an answer that the SFU
  has published a track is true, or what says otherwise (an SfuUnpublishResponse
  or a RepublishTracks) stands behind it. The lemmas are about one event in a
  queue and the events behind it, when another is appended or the first is taken
  (`AppendAdded`, `TailTaken`). The theorems are `PublishedHasTask` and
  `HeldIsServed`, for any number of tracks, handles and restarts and any
  EVENT_BUFFER_COUNT: the run's channels of two, which lose events soon, are not
  special. `ShutdownWaitsForTold` is the safe part of `ShutdownEnds`, which
  needs fairness: the task that shutdown() waits for has been told to end, so
  the wait is for room in the event queue and never for a task that sleeps.
* **ReliableChannelProofs.** A packet is called (its PublishPacket is in
  dc_events), announced (its PublishData is), queued, and tried. `TypeInv` adds
  to TypeOK that `buffered_size` is the sum of the retry queue's packets
  (`Sized`), so that trimming it never goes below zero: `TypeCorrect`.
  `OrderInv` says that each stage is in order and behind the next one, and that
  packets sent again belong to the last: `SendsInOrder`. `RepeatsAreMissing`
  bounds the attempts of a packet. `PlaceInv`: a packet is in one place,
  announced, queued or kept for a retry. `CountInv`: the attempts made, the one
  still to come, the RetryFrom events not read yet and the retry in progress are
  together at most one for the call and one for each resume that asked for the
  packet. A resume adds to both sides; a step that moves a packet from the retry
  queue to dc_events spends what the resume has paid. The lemmas are about the
  number of elements of a queue that lie in a set, when one is appended or
  taken.

Model-checked and not proved: everything under fairness (the prover has no rule
for it here). Every invariant and every action property that a run checks is
proved. Proved and not part of a run, since they are as plain in the model as in
the code or follow from a property that is: OneReconnectTask,
NeverDowngrades, AnnouncementsInStep, MissedOnlyIfDisturbed,
PendingOnlyWhileNeeded, PendingIsAwaited, the type invariants.

## 6. Where the code differs from what it says

Shown by a run: `register_subscriber_handle` (`remote/manager.rs:253`) removes
the old handle of a subscription from the index although another track may have
been assigned it in the new session (remote_misrouted).

Present in the models, and the reason why a property is stated as it is.

Connection and negotiation:

* A retry marked after the last decision of a negotiation loop is served by
  nobody, and no later change either: `queue_negotiation` never spawns a loop
  while the state is PendingRetry (`rtc_session.rs:1996`). RetryHonoured speaks
  of retries that a loop still reads.
* `set_remote_description` with `renegotiate` set makes an offer while it holds
  the mutex that making an offer locks: the handler of that answer blocks
  (NegotiatorTerminates and RetryHonoured except it by `restarts`).
* A resume that escalates to a restart skips the Restarting event, so the room
  keeps participants that have left. Without escalation a participant can come
  back: the old session's engine task reads events until the restart ends it, so
  an update handled between the acknowledgement of Restarting and the old
  session's close adds someone the new JoinResponse may not list
  (`room/mod.rs:1139`). Participants are not in the model; NoStaleEvents only
  says that no event of an old session is read later.
* `wait_reconnection` gives its caller the read lock for as long as the call
  lasts. `publish_data` waits for its completion without a timeout
  (`rtc_session.rs:1862`): on a channel that is dead and above its threshold it
  never returns, the write lock of `rtc_engine/mod.rs:748` is never obtained,
  and the cycle that would replace the session does not begin (`Held`).
* The acknowledgement of SignalResumed comes after `send_sync_state`, which
  awaits `query_tracks` (`room/mod.rs:1404`). The manager that answers may wait
  on a full event queue whose forward task waits for the end of this cycle
  (`room/mod.rs:2040`): the cycle then never ends (`syncing`).
* A restart under way when `close()` is called installs a session afterwards.
* An answer that races the ten-second timeout leaves a permit, so the next
  negotiation round does not wait for its answer. A request that reaches a
  debouncer whose timer has fired is swallowed.
* After an ICE restart rolled an offer back, the server still answers it, and
  that answer may be taken for the new offer's (AnswerMatchesOffer).
* A break that is reported while a settled cycle is ending is ignored and stays
  so unless it is reported again (FaultHandled excepts it as `missed`).

Signal messages:

* `send` with the stream locked for reading, `flush_queue` with the queue
  locked and a restart that waits to write can wait for one another for ever
  (QueueDelivered excepts it).
* A write that fails with a WebSocket error loses the message although `send`
  says it will "automatically queue the message if the connection fails"; a
  flush over a stream that has ended loses the whole queue (`lost` in
  Conserved); a queued message is overtaken by the next one of its sender if
  that one's flush found no stream and it was then given the stream of restart()
  before `set_reconnected` flushed the queue (SenderOrder, `early`); a message
  pushed just after that flush waits for the next send (QueueDelivered speaks of
  those queued before).

Data channels:

* Rejected packets of the data-track sender stay counted in `buffered_amount`
  and can hold the sender back for ever; the other packets of their frame are
  still sent. A failed send leaves its bytes counted in the reliable and lossy
  channels as well (PublishServed).
* TxQueue is trimmed to the bytes just reported, not to those still buffered,
  so packets the channel has not transmitted can leave it before a resume asks
  for them (the code logs "packets missing" then).
* Packets sent again go behind newer ones already queued, and the receiver
  hands a packet to the room although it has logged "Ignoring
  duplicate/out-of-order reliable data message" (`rtc_session.rs:1069`). After a
  resume a repeated chunk ends a stream with MissedChunk, a repeated header
  opens it twice, and a repeated RPC request runs the handler again.

Data tracks:

* A publish_track whose caller gave up leaves a publication at the SFU if the
  answer was queued (`local/manager.rs:196`). An unpublish_track while a
  republication is starting is overwritten by it (`:281`). A second answer for
  an active track, or a failed republication, removes the descriptor and not
  the task (`:205`).
* `shutdown` joins the track tasks while it no longer reads `event_in`, so with
  that channel full it does not return (ShutdownEnds excepts it).
* Shutdown, RepublishTracks and the SFU's answers are sent with `try_send` and
  lost when the queue is full.
* A subscriber can join the channel of a task that has just ended
  (`remote/manager.rs:149`): its stream ends although the track does not.
* A frame of more than 128 packets is never delivered, and an empty frame makes
  no packet.

Streams and RPC:

* A write on a clone of a writer that was closed returns Ok. A write whose
  future is dropped after its packet was queued uses its chunk index again.
* A write returns Ok once its packet is handed to the data channel
  (`rtc_session.rs:1017`). A full restart (`rtc_engine/mod.rs:882`) discards
  what the old channel still holds, and the writer goes on: the next chunk makes
  the reader fail with MissedChunk, and a stream without an announced length
  whose last chunks were lost, but not its trailer, ends without an error. If
  the trailer is lost the reader waits for ever.
* A writer that is dropped on a thread without a runtime skips its trailer
  silently (`outgoing.rs:250`): the reader waits for ever.
* A call reports ConnectionTimeout although the handler ran, or may still run.

Local media:

* If the engine restarts between add_track and create_sender, publish_track
  ends with a publication that the new session's server does not know
  (ServerAgrees excepts it as `straddled`).
* An application that unpublishes a track while it is being republished either
  sees it published again or makes the task panic on a track that is None; the
  room then stays Reconnecting. Overlapping restarts republish a track twice, or
  leave a publication whose transceiver is None and which panics when
  unpublished (`raced`).
* A republication that fails is only logged: the room reports Reconnected
  without the track. `tests/peer_connection_signaling_test.rs:802` says
  "Republish runs asynchronously after Reconnected", while `room/mod.rs:1615`
  waits for it.
* The task spawned on Restarted sets the state to Connected also when the room
  was closed or interrupted again meanwhile.
* A late answer of add_track is taken for the answer to the next call for the
  same track (`unanswered`); a dropped publish_track leaves its entry in
  pending_tracks, so the next one fails with "track already published".

## 7. Not modelled, and why

`session.close()` is one step, although it joins four tasks. The subscriber's
transport answers offers one at a time and shares the mutex logic of the
publisher's. The first connection (validation, regions, proxies) is sequential
retrying. `ensure_publisher_connected` polls until the channel is open and is
left out of the paths that call it. Remote publications, permissions and
metadata are tables written by one event at a time; what the Room module keeps
of them is who is present across a reconnection. Encryption, the server APIs,
bindings and devices are left out for the reasons `PROJECT.json` gives: thin
wrappers of native code, generated code, or single requests without state. They
are most of the repository's lines (the generated protocol code alone is
about half), so the lines mapped here are a small share of the whole and a large
one of the client core they come from.

## 8. Plan

In order of importance.

1. RemoteMedia: remote publications and subscriptions, whose tracks, server
   updates and unsubscriptions arrive in any order, across a restart.
2. Liveness of the abstract cycle: that Engine and Room implement Reconnection
   with fairness, so that CycleTerminates follows from the abstract module.
3. The FFI server's handle table and the order of events a client sees when a
   room closes.

Runs stay few: a run shows several properties, and a new module takes the place
of the settled parts of an older run.
