---------------------------- MODULE PeerTransport ----------------------------
(***************************************************************************)
(* The publisher's PeerTransport (livekit/src/rtc_engine/peer_transport.rs)*)
(* with the part of RtcSession's signal_task that feeds it answers and ICE *)
(* candidates, the peer connection it drives and the server at the other   *)
(* end of the signal channel.                                              *)
(*                                                                         *)
(* TransportInner lives behind a tokio Mutex, which is not reentrant.      *)
(* create_and_send_offer and set_remote_description keep it locked across  *)
(* their awaits, so a step here is the code between two points where       *)
(* another task can interfere.                                             *)
(*                                                                         *)
(* Data abstraction: a session description is its number, the ICE          *)
(* generation of its credentials and, for an offer, the number of media    *)
(* changes (version) it covers.  SDP munging does not change any of them.  *)
(***************************************************************************)
EXTENDS Naturals, Sequences

CONSTANTS
  Offerers,      \* tasks that call create_and_send_offer with the defaults
  Free,          \* the value of lock when nobody holds it
  NoMsg,         \* no signal message is being handled
  MaxRestarts,   \* bound on ICE restarts
  MaxCandidates, \* bound on the remote candidates of one ICE generation
  FaultSets      \* the sets of faults that a behaviour may allow

\* The caller with ice_restart (RtcSession::restart_publisher) and the task
\* that handles one signal message at a time.
Restart == "restart"
Signal == "signal"
Callers == Offerers \cup {Restart, Signal}

ASSUME PeerTransportAssumption ==
  /\ Restart \notin Offerers
  /\ Signal \notin Offerers
  /\ Free \notin Callers
  /\ MaxRestarts \in Nat
  /\ MaxCandidates \in Nat
  /\ FaultSets \subseteq
       SUBSET {"failure", "lost offer", "late answer", "close"}

VARIABLES
  lock,               \* who holds the mutex of TransportInner
  renegotiate,        \* TransportInner.renegotiate
  restarting_ice,     \* TransportInner.restarting_ice
  pending_candidates, \* TransportInner.pending_candidates
  call,               \* where each caller is in create_and_send_offer
  signaling_state,    \* of the peer connection
  localOffer,         \* the latest local offer
  remote,             \* the current remote description, number 0 for none
  applied,            \* remote candidates given to the peer connection
  refused,            \* history: those lost by a call of it that failed
  handler,            \* where the signal task is in on_signal_event
  msg,                \* the signal message being handled
  inbox,              \* signal messages from the server
  toServer,           \* offers on their way to the server
  wanted,             \* media changes made so far (tracks added, removed)
  restarts,           \* ICE restarts requested so far
  serverGen,          \* ICE generation the server last answered, 0 for none
  trickled,           \* candidates the server sent, per generation
  faults              \* the faults this behaviour allows

transportVars ==
  <<lock, renegotiate, restarting_ice, pending_candidates, call>>
pcVars == <<signaling_state, localOffer, remote, applied,
            refused>>
signalVars == <<handler, msg, inbox, toServer, serverGen, trickled>>
ptVars == <<transportVars, pcVars, signalVars, wanted, restarts>>

Generations == 1..(MaxRestarts + 1)

Offer == [number : Nat, version : Nat, gen : Nat]
SignalMessage == [kind : {"answer"}, number : Nat, gen : Nat]
                   \cup [kind : {"candidate"}, gen : Nat, index : Nat]

\* The peer connection may reject an operation.
CanFail == "failure" \in faults

-----------------------------------------------------------------------------
(***************************************************************************)
(* create_and_send_offer                                                   *)
(***************************************************************************)

\* A caller enters the function.
OfferCall(c) ==
  /\ call[c] = "idle"
  /\ call' = [call EXCEPT ![c] = "lock"]

\* The caller resumes with the function's result.
OfferReturn(c, result) ==
  /\ call[c] = result
  /\ call' = [call EXCEPT ![c] = "idle"]

\* A broken variant of RollsBack: every caller, at any time.
RollsBackAlways(c) == TRUE

\* Which caller rolls an outstanding offer back.
RollsBack(c) == c = Restart /\ remote.number > 0

\* The mutex is taken.  With an offer outstanding, an ICE restart rolls it
\* back by applying the current remote description again; anyone else only
\* leaves a note to renegotiate.  A closed connection is left alone.
OfferLock(c) ==
  LET ice == c = Restart
      outstanding == signaling_state = "have_local_offer"
      rollback == outstanding /\ RollsBack(c)
  IN /\ call[c] = "lock"
     /\ lock = Free
     /\ restarting_ice' = (restarting_ice \/ ice)
     /\ \/ /\ outstanding /\ ~rollback
           /\ renegotiate' = TRUE
           /\ call' = [call EXCEPT ![c] = "ok"]
           /\ UNCHANGED <<lock, signaling_state>>
        \/ /\ signaling_state = "closed"
           /\ call' = [call EXCEPT ![c] = "ok"]
           /\ UNCHANGED <<lock, renegotiate, signaling_state>>
        \/ /\ signaling_state = "stable" \/ rollback
           /\ lock' = c
           /\ call' = [call EXCEPT ![c] = "create"]
           /\ signaling_state' = "stable"
           /\ UNCHANGED renegotiate
        \/ /\ CanFail /\ rollback
           /\ call' = [call EXCEPT ![c] = "err"]
           /\ UNCHANGED <<lock, renegotiate, signaling_state>>
     /\ UNCHANGED <<pending_candidates, localOffer, remote, applied, refused,
                    signalVars, wanted, restarts>>

\* An awaited operation of the peer connection failed: `?` unlocks and
\* returns the error.
OfferFail(c) ==
  /\ call[c] \in {"create", "set_local"}
  /\ CanFail \/ signaling_state = "closed"
  /\ call' = [call EXCEPT ![c] = "err"]
  /\ lock' = Free
  /\ UNCHANGED <<renegotiate, restarting_ice, pending_candidates, pcVars,
                 signalVars, wanted, restarts>>

\* peer_connection.create_offer: the offer covers the media as it is now.
OfferCreate(c) ==
  /\ call[c] = "create"
  /\ signaling_state # "closed"
  /\ localOffer' = [number |-> localOffer.number + 1,
                    version |-> wanted,
                    gen |-> localOffer.gen + IF c = Restart THEN 1 ELSE 0]
  /\ call' = [call EXCEPT ![c] = "set_local"]
  /\ UNCHANGED <<lock, renegotiate, restarting_ice, pending_candidates,
                 signaling_state, remote, applied, refused,
                 signalVars, wanted, restarts>>

\* set_local_description, then the on_offer handler: the offer goes to the
\* rtc task and from there to the server, in order.
OfferSetLocal(c) ==
  /\ call[c] = "set_local"
  /\ signaling_state # "closed"
  /\ signaling_state' = "have_local_offer"
  /\ toServer' = Append(toServer, localOffer)
  /\ call' = [call EXCEPT ![c] = "ok"]
  /\ lock' = Free
  /\ UNCHANGED <<renegotiate, restarting_ice, pending_candidates, localOffer,
                 remote, applied, refused, handler, msg, inbox,
                 serverGen, trickled, wanted, restarts>>

\* RtcSession::restart_publisher, called once per resume.
RestartPublisher ==
  /\ restarts < MaxRestarts
  /\ restarts' = restarts + 1
  /\ OfferCall(Restart)
  /\ UNCHANGED <<lock, renegotiate, restarting_ice, pending_candidates, pcVars,
                 signalVars, wanted>>

RestartPublisherDone ==
  /\ \E result \in {"ok", "err"} : OfferReturn(Restart, result)
  /\ UNCHANGED <<lock, renegotiate, restarting_ice, pending_candidates, pcVars,
                 signalVars, wanted, restarts>>

-----------------------------------------------------------------------------
(***************************************************************************)
(* The signal task: one message at a time, each handler awaited            *)
(***************************************************************************)
ReceiveSignal ==
  /\ handler = "idle"
  /\ inbox # <<>>
  /\ msg' = Head(inbox)
  /\ inbox' = Tail(inbox)
  /\ handler' = Head(inbox).kind
  /\ UNCHANGED <<transportVars, pcVars, toServer, serverGen, trickled, wanted,
                 restarts>>

CandidatesIn(seq) == {seq[i] : i \in 1..Len(seq)}

\* A broken variant of Settle: the note stays.
SettleKeepsNote == restarting_ice' = FALSE /\ UNCHANGED renegotiate

\* pending_candidates.drain(..)
HandOver == pending_candidates' = <<>>

\* The answer ends the ICE restart and takes the note to renegotiate.
Settle == restarting_ice' = FALSE /\ renegotiate' = FALSE

\* set_remote_description with the answer, which the peer connection rejects
\* when it has no offer outstanding.  Then the pending candidates are given
\* to the peer connection; when one is rejected `?` returns and the drained
\* rest is lost.  With renegotiate set, create_and_send_offer is called while
\* the mutex is still held.
SetRemoteDescription ==
  /\ handler = "answer"
  /\ lock = Free
  /\ \/ /\ signaling_state # "have_local_offer" \/ CanFail
        /\ handler' = "idle" /\ msg' = NoMsg
        /\ UNCHANGED <<transportVars, pcVars>>
     \/ /\ signaling_state = "have_local_offer"
        /\ signaling_state' = "stable"
        /\ remote' = [number |-> msg.number, gen |-> msg.gen]
        /\ HandOver
        /\ \/ /\ applied' = applied \cup CandidatesIn(pending_candidates)
              /\ Settle
              /\ IF renegotiate
                 THEN /\ lock' = Signal
                      /\ call' = [call EXCEPT ![Signal] = "lock"]
                 ELSE UNCHANGED <<lock, call>>
              /\ handler' = "answered" /\ UNCHANGED <<msg, refused>>
           \/ /\ CanFail
              /\ \E k \in 1..Len(pending_candidates) :
                   LET added == SubSeq(pending_candidates, 1, k - 1)
                       rest == SubSeq(pending_candidates, k,
                                      Len(pending_candidates))
                   IN /\ applied' = applied \cup CandidatesIn(added)
                      /\ refused' = refused \cup CandidatesIn(rest)
              /\ handler' = "idle" /\ msg' = NoMsg
              /\ UNCHANGED <<lock, call, restarting_ice, renegotiate>>
        /\ UNCHANGED localOffer
  /\ UNCHANGED <<inbox, toServer, serverGen, trickled, wanted, restarts>>

\* set_remote_description returns: directly, or after the nested
\* create_and_send_offer.  The handler of the answer goes on from here.
AnswerDone ==
  /\ handler = "answered"
  /\ call[Signal] \in {"idle", "ok", "err"}
  /\ lock' = IF lock = Signal THEN Free ELSE lock
  /\ call' = [call EXCEPT ![Signal] = "idle"]
  /\ handler' = "idle"
  /\ msg' = NoMsg
  /\ UNCHANGED <<renegotiate, restarting_ice, pending_candidates, pcVars,
                 inbox, toServer, serverGen, trickled, wanted, restarts>>

\* A broken variant of Keep: the candidate is forgotten.
KeepNothing(candidate) == UNCHANGED pending_candidates

\* pending_candidates.push(ice_candidate)
Keep(candidate) == pending_candidates' = Append(pending_candidates, candidate)

\* add_ice_candidate under the mutex: keep the candidate for later, or
\* unlock and go on to the peer connection.
AddIceCandidate ==
  /\ handler = "candidate"
  /\ lock = Free
  /\ \/ /\ remote.number > 0 /\ ~restarting_ice
        /\ handler' = "adding"
        /\ UNCHANGED <<msg, pending_candidates>>
     \/ /\ remote.number = 0 \/ restarting_ice
        /\ Keep(msg)
        /\ handler' = "idle" /\ msg' = NoMsg
  /\ UNCHANGED <<lock, renegotiate, restarting_ice, call, pcVars, inbox,
                 toServer, serverGen, trickled, wanted, restarts>>

\* peer_connection.add_ice_candidate, without the mutex; an error is logged.
AddToConnection ==
  /\ handler = "adding"
  /\ \/ applied' = applied \cup {msg} /\ UNCHANGED refused
     \/ CanFail /\ refused' = refused \cup {msg} /\ UNCHANGED applied
  /\ handler' = "idle"
  /\ msg' = NoMsg
  /\ UNCHANGED <<transportVars, signaling_state, localOffer, remote,
                 inbox, toServer, serverGen, trickled, wanted,
                 restarts>>

-----------------------------------------------------------------------------
(***************************************************************************)
(* The environment: the server and the session's close                     *)
(***************************************************************************)

\* The server answers offers in order.
ServerAnswer ==
  /\ toServer # <<>>
  /\ toServer' = Tail(toServer)
  /\ inbox' = Append(inbox, [kind |-> "answer",
                             number |-> Head(toServer).number,
                             gen |-> Head(toServer).gen])
  /\ serverGen' = Head(toServer).gen
  /\ UNCHANGED <<transportVars, pcVars, handler, msg, trickled, wanted,
                 restarts>>

\* The server trickles a candidate of the ICE generation of the offer it has
\* received, possibly before it answers it.
ServerTrickle ==
  LET gen == IF toServer = <<>> THEN serverGen ELSE Head(toServer).gen
  IN /\ gen \in Generations
     /\ trickled[gen] < MaxCandidates
     /\ trickled' = [trickled EXCEPT ![gen] = @ + 1]
     /\ inbox' = Append(inbox, [kind |-> "candidate", gen |-> gen,
                                index |-> trickled[gen] + 1])
     /\ UNCHANGED <<transportVars, pcVars, handler, msg, toServer,
                    serverGen, wanted, restarts>>

\* An offer sent on a dead signal connection is not queued, it is lost.
LoseOffer ==
  /\ "lost offer" \in faults
  /\ toServer # <<>>
  /\ toServer' = Tail(toServer)
  /\ UNCHANGED <<transportVars, pcVars, handler, msg, inbox, serverGen,
                 trickled, wanted, restarts>>

\* SessionInner::close closes the peer connection.
ClosePc ==
  /\ "close" \in faults
  /\ signaling_state # "closed"
  /\ signaling_state' = "closed"
  /\ UNCHANGED <<transportVars, localOffer, remote, applied,
                 refused, signalVars, wanted, restarts>>

-----------------------------------------------------------------------------
PTInit ==
  /\ lock = Free
  /\ renegotiate = FALSE
  /\ restarting_ice = FALSE
  /\ pending_candidates = <<>>
  /\ call = [c \in Callers |-> "idle"]
  /\ signaling_state = "stable"
  /\ localOffer = [number |-> 0, version |-> 0, gen |-> 1]
  /\ remote = [number |-> 0, gen |-> 0]
  /\ applied = {}
  /\ refused = {}
  /\ handler = "idle"
  /\ msg = NoMsg
  /\ inbox = <<>>
  /\ toServer = <<>>
  /\ wanted = 0
  /\ restarts = 0
  /\ serverGen = 0
  /\ trickled = [g \in Generations |-> 0]
  /\ faults \in FaultSets

\* The steps of the transport that its callers do not take themselves.
OfferStep(c) ==
  OfferLock(c) \/ OfferFail(c) \/ OfferCreate(c) \/ OfferSetLocal(c)

SignalStep ==
  \/ ReceiveSignal
  \/ SetRemoteDescription
  \/ AddIceCandidate
  \/ AddToConnection

ServerStep == ServerAnswer \/ ServerTrickle
=============================================================================
