-------------------------- MODULE NegotiationProofs --------------------------
(***************************************************************************)
(* Theorems about Negotiation, for any number of publishers, negotiation   *)
(* tasks, media changes, ICE restarts and candidates, with or without      *)
(* timeouts, failures and lost offers.                                     *)
(*                                                                         *)
(* QueueInv is what keeps a second negotiation loop away: the flag         *)
(* task_running is cleared by the last step of a loop, not under the mutex *)
(* of the state, so the argument needs both that a live task implies the   *)
(* flag and that only one task lives.                                      *)
(***************************************************************************)
EXTENDS Negotiation, TLAPS

\* A live task implies the flag.
LiveImpliesRunning == \A t \in Tasks : Live(t) => task_running

QueueInv ==
  /\ task \in [Tasks -> {"none", "start", "offer", "wait", "decide", "exit"}]
  /\ LiveImpliesRunning
  /\ SingleNegotiator
  /\ InProgressHasTask

LEMMA InitQueueInv == Init => QueueInv
  BY DEF Init, QueueInv, LiveImpliesRunning, SingleNegotiator,
         InProgressHasTask, Live

\* The steps that leave the task, the flag and the state alone.
LEMMA QueueUntouched ==
  ASSUME QueueInv, UNCHANGED <<task, task_running, state>>
  PROVE  QueueInv'
  BY DEF QueueInv, LiveImpliesRunning, SingleNegotiator, InProgressHasTask,
         Live, WillDecide

\* A task that goes from one point of its loop to another, the last decision
\* of the loop excluded.
LEMMA TaskAdvances ==
  ASSUME QueueInv, UNCHANGED <<task_running, state>>,
         NEW t \in Tasks, NEW to \in {"start", "offer", "wait", "decide"},
         task[t] \in {"start", "offer", "wait"},
         task' = [task EXCEPT ![t] = to]
  PROVE  QueueInv'
  BY DEF QueueInv, LiveImpliesRunning, SingleNegotiator, InProgressHasTask,
         Live, WillDecide

LEMMA NextQueueInv == QueueInv /\ [Next]_vars => QueueInv'
<1> SUFFICES ASSUME QueueInv, [Next]_vars PROVE QueueInv'
  OBVIOUS
<1> USE DEF queueVars
<1>1. ASSUME NEW p \in Publishers, NegotiationNeeded(p) PROVE QueueInv'
  BY <1>1, QueueUntouched DEF NegotiationNeeded
<1>2. ASSUME NEW p \in Publishers, MarkRetry(p) PROVE QueueInv'
  BY <1>2 DEF MarkRetry, QueueInv, LiveImpliesRunning, SingleNegotiator,
              InProgressHasTask, Live
<1>3. ASSUME NEW p \in Publishers, QueueNegotiation(p) PROVE QueueInv'
  <2>1. CASE MayStart
    <3>1. PICK t \in Tasks : task' = [task EXCEPT ![t] = "start"]
      BY <1>3, <2>1 DEF QueueNegotiation
    <3>2. \A u \in Tasks : ~Live(u)
      BY <2>1 DEF MayStart, QueueInv, LiveImpliesRunning
    <3>3. task_running'
      BY <1>3, <2>1 DEF QueueNegotiation, MayStart
    <3>4. QED
      BY <3>1, <3>2, <3>3 DEF QueueInv, LiveImpliesRunning, SingleNegotiator,
                              InProgressHasTask, Live, WillDecide
  <2>2. CASE ~MayStart
    BY <1>3, <2>2
    DEF QueueNegotiation, MayStart, QueueInv, LiveImpliesRunning,
        SingleNegotiator, InProgressHasTask, Live
  <2>3. QED
    BY <2>1, <2>2
<1>4. ASSUME NEW t \in Tasks, TaskStart(t) PROVE QueueInv'
  BY <1>4, TaskAdvances DEF TaskStart
<1>5. ASSUME NEW t \in Tasks, TaskOfferSent(t) PROVE QueueInv'
  BY <1>5, TaskAdvances DEF TaskOfferSent
<1>6. ASSUME NEW t \in Tasks, TaskOfferFailed(t) PROVE QueueInv'
  BY <1>6, TaskAdvances DEF TaskOfferFailed
<1>7. ASSUME NEW t \in Tasks, TaskNotified(t) PROVE QueueInv'
  BY <1>7, TaskAdvances DEF TaskNotified
<1>8. ASSUME NEW t \in Tasks, TaskTimeout(t) PROVE QueueInv'
  BY <1>8, TaskAdvances DEF TaskTimeout
<1>9. ASSUME NEW t \in Tasks, TaskDecide(t) PROVE QueueInv'
  <2>1. Live(t)
    BY <1>9 DEF TaskDecide, Live
  <2>2. CASE state = "PendingRetry"
    BY <1>9, <2>1, <2>2
    DEF TaskDecide, QueueInv, LiveImpliesRunning, SingleNegotiator,
        InProgressHasTask, Live, WillDecide
  <2>3. CASE state # "PendingRetry"
    BY <1>9, <2>1, <2>3
    DEF TaskDecide, QueueInv, LiveImpliesRunning, SingleNegotiator,
        InProgressHasTask, Live
  <2>4. QED
    BY <2>2, <2>3
<1>10. ASSUME NEW t \in Tasks, TaskExit(t) PROVE QueueInv'
  <2>1. Live(t) /\ ~WillDecide(t)
    BY <1>10 DEF TaskExit, Live, WillDecide
  <2>2. \A u \in Tasks : u # t => task[u] = "none"
    BY <2>1 DEF QueueInv, SingleNegotiator, Live
  <2>3. state # "InProgress"
    BY <2>1, <2>2 DEF QueueInv, InProgressHasTask, WillDecide
  <2>4. QED
    BY <1>10, <2>2, <2>3
    DEF TaskExit, QueueInv, LiveImpliesRunning, SingleNegotiator,
        InProgressHasTask, Live
<1>11. CASE DebounceFire \/ DebounceDone
  BY <1>11, QueueUntouched DEF DebounceFire, DebounceDone
<1>12. CASE AnswerReceived
  BY <1>12, QueueUntouched DEF AnswerReceived
<1>13. CASE TransportStep
  BY <1>13, QueueUntouched DEF TransportStep, AboveUnchanged
<1>14. CASE UNCHANGED vars
  BY <1>14, QueueUntouched DEF vars
<1>15. QED
  BY <1>1, <1>2, <1>3, <1>4, <1>5, <1>6, <1>7, <1>8, <1>9, <1>10, <1>11,
     <1>12, <1>13, <1>14
  DEF Next, AppStep, TaskStep

LEMMA SpecQueueInv == Spec => []QueueInv
<1>1. Init => QueueInv
  BY InitQueueInv
<1>2. QueueInv /\ [Next]_vars => QueueInv'
  BY NextQueueInv
<1>3. QED
  BY <1>1, <1>2, PTL DEF Spec

\* At most one negotiation loop runs, although task_running is reset outside
\* the mutex that guards the state.
THEOREM OneNegotiator == Spec => []SingleNegotiator
<1>1. QueueInv => SingleNegotiator
  BY DEF QueueInv
<1>2. QED
  BY <1>1, SpecQueueInv, PTL

\* The queue is never InProgress with no loop to look at it again.
THEOREM InProgressIsServed == Spec => []InProgressHasTask
<1>1. QueueInv => InProgressHasTask
  BY DEF QueueInv
<1>2. QED
  BY <1>1, SpecQueueInv, PTL

-----------------------------------------------------------------------------
(***************************************************************************)
(* Candidates                                                              *)
(***************************************************************************)

\* Candidates are held back only while there is no remote description or an
\* ICE restart is under way: every step that ends either reason hands them
\* over.  The property is inductive.
THEOREM NoStrandedCandidates == Spec => []PendingOnlyWhileNeeded
<1> USE DEF PendingOnlyWhileNeeded, queueVars, transportVars, pcVars,
            signalVars, ptRest, ptVars
<1>1. Init => PendingOnlyWhileNeeded
  BY DEF Init, PTInit
<1>2. ASSUME PendingOnlyWhileNeeded, [Next]_vars
      PROVE  PendingOnlyWhileNeeded'
  <2> USE <1>2
  <2>1. ASSUME NEW c \in Callers, OfferStep(c)
        PROVE  PendingOnlyWhileNeeded'
    BY <2>1 DEF OfferStep, OfferLock, OfferFail, OfferCreate, OfferSetLocal
  <2>2. CASE SignalStep
    <3>1. CASE SetRemoteDescription
      BY <3>1 DEF SetRemoteDescription, HandOver, Settle
    <3>2. CASE AddIceCandidate
      BY <3>2 DEF AddIceCandidate, Keep
    <3>3. CASE ReceiveSignal \/ AddToConnection
      BY <3>3 DEF ReceiveSignal, AddToConnection
    <3>4. QED
      BY <2>2, <3>1, <3>2, <3>3 DEF SignalStep
  <2>3. CASE RestartPublisher \/ RestartPublisherDone
    BY <2>3 DEF RestartPublisher, RestartPublisherDone
  <2>4. CASE ServerStep \/ LoseOffer \/ ClosePc
    BY <2>4 DEF ServerStep, ServerAnswer, ServerTrickle, LoseOffer, ClosePc
  <2>5. CASE TransportStep
    BY <2>1, <2>2, <2>3, <2>4, <2>5 DEF TransportStep
  <2>6. CASE \E p \in Publishers : AppStep(p)
    BY <2>6 DEF AppStep, NegotiationNeeded, MarkRetry, QueueNegotiation
  <2>7. ASSUME NEW t \in Tasks, TaskStep(t)
        PROVE  PendingOnlyWhileNeeded'
    <3>1. CASE TaskStart(t) \/ TaskOfferSent(t) \/ TaskOfferFailed(t)
      BY <3>1 DEF TaskStart, TaskOfferSent, TaskOfferFailed
    <3>2. CASE TaskNotified(t) \/ TaskTimeout(t)
      BY <3>2 DEF TaskNotified, TaskTimeout
    <3>3. CASE TaskDecide(t) \/ TaskExit(t)
      BY <3>3 DEF TaskDecide, TaskExit
    <3>4. QED
      BY <2>7, <3>1, <3>2, <3>3 DEF TaskStep
  <2>8. CASE DebounceFire \/ DebounceDone \/ AnswerReceived
    BY <2>8 DEF DebounceFire, DebounceDone, AnswerReceived, AnswerDone
  <2>9. CASE UNCHANGED vars
    BY <2>9 DEF vars
  <2>10. QED
    BY <2>5, <2>6, <2>7, <2>8, <2>9 DEF Next
<1>3. QED
  BY <1>1, <1>2, PTL DEF Spec

-----------------------------------------------------------------------------
(***************************************************************************)
(* Types, and who may touch the peer connection                            *)
(***************************************************************************)

\* A message is being handled exactly while the handler says so.
HandledMessage ==
  /\ handler \in {"answer", "candidate", "adding"} => msg \in SignalMessage
  /\ handler = "answer" => msg.kind = "answer"

TypeInv == TypeOK /\ HandledMessage

Offering(c) == call[c] \in {"create", "set_local"}

\* create_and_send_offer works on the peer connection under the mutex, and
\* with no offer outstanding.
LockInv ==
  \A c \in Callers :
    Offering(c) => lock = c /\ signaling_state # "have_local_offer"

Results == {"idle", "lock", "create", "set_local", "ok", "err"}

\* The steps above the transport and the stuttering steps: they enter and
\* leave create_and_send_offer, as callers other than the transport's own, and
\* touch nothing else of it.
AboveStep ==
  \/ \E p \in Publishers : AppStep(p)
  \/ \E t \in Tasks : TaskStep(t)
  \/ DebounceFire
  \/ DebounceDone
  \/ UNCHANGED vars

\* What a function update of call does.
LEMMA CallUpdate ==
  ASSUME call \in [Callers -> Results], NEW d \in Callers,
         NEW to \in Results, call' = [call EXCEPT ![d] = to]
  PROVE  /\ call' \in [Callers -> Results]
         /\ call'[d] = to
         /\ \A c \in Callers : c # d => call'[c] = call[c]
  OBVIOUS

LEMMA AboveStepEffect ==
  ASSUME TypeOK, AboveStep
  PROVE  /\ UNCHANGED <<ptRest, chosen>>
         /\ call' \in [Callers -> Results]
         /\ \A c \in Callers :
              \/ call'[c] = call[c]
              \/ c \in Offerers /\ ~Offering(c) /\ ~Offering(c)'
<1> USE DEF chosen
<1>0. call \in [Callers -> Results]
  BY DEF TypeOK, Results
<1>1. CASE UNCHANGED <<ptRest, chosen, call>>
  BY <1>0, <1>1
<1>2. ASSUME UNCHANGED <<ptRest, chosen>>, NEW d \in Offerers,
             OfferCall(d) \/ OfferReturn(d, "ok") \/ OfferReturn(d, "err")
      PROVE  /\ call' \in [Callers -> Results]
             /\ \A c \in Callers :
                  \/ call'[c] = call[c]
                  \/ c \in Offerers /\ ~Offering(c) /\ ~Offering(c)'
  <2>1. PICK to \in {"lock", "idle"} : call' = [call EXCEPT ![d] = to]
    BY <1>2 DEF OfferCall, OfferReturn
  <2>2. d \in Callers /\ to \in Results /\ ~Offering(d)
    BY <1>2 DEF Callers, Results, OfferCall, OfferReturn, Offering
  <2>3. /\ call' \in [Callers -> Results] /\ call'[d] = to
        /\ \A c \in Callers : c # d => call'[c] = call[c]
    BY <1>0, <2>1, <2>2, CallUpdate
  <2>4. ~Offering(d)'
    BY <2>3 DEF Offering
  <2>5. QED
    BY <2>2, <2>3, <2>4
<1>3. ASSUME NEW p \in Publishers, AppStep(p)
      PROVE  UNCHANGED <<ptRest, chosen, call>>
  BY <1>3 DEF AppStep, NegotiationNeeded, MarkRetry, QueueNegotiation, ptVars,
              ptRest, transportVars
<1>4. ASSUME NEW t \in Tasks, TaskStep(t)
      PROVE  \/ UNCHANGED <<ptRest, chosen, call>>
             \/ /\ UNCHANGED <<ptRest, chosen>>
                /\ t \in Offerers
                /\ \/ OfferCall(t) \/ OfferReturn(t, "ok")
                   \/ OfferReturn(t, "err")
  <2>1. t \in Offerers
    BY NegotiationAssumption
  <2>2. CASE TaskStart(t) \/ TaskOfferSent(t) \/ TaskOfferFailed(t)
    BY <2>1, <2>2 DEF TaskStart, TaskOfferSent, TaskOfferFailed
  <2>3. CASE TaskNotified(t) \/ TaskTimeout(t) \/ TaskDecide(t) \/ TaskExit(t)
    BY <2>3 DEF TaskNotified, TaskTimeout, TaskDecide, TaskExit, ptVars,
                ptRest, transportVars
  <2>4. QED
    BY <1>4, <2>2, <2>3 DEF TaskStep
<1>5. CASE DebounceFire \/ DebounceDone
  <2>1. Debounce \in Offerers
    BY NegotiationAssumption
  <2>2. /\ UNCHANGED <<ptRest, chosen>>
        /\ \/ OfferCall(Debounce) \/ OfferReturn(Debounce, "ok")
           \/ OfferReturn(Debounce, "err")
    BY <1>5 DEF DebounceFire, DebounceDone
  <2>3. QED
    BY <1>2, <2>1, <2>2
<1>6. CASE UNCHANGED vars
  BY <1>1, <1>6 DEF vars, ptVars, ptRest, transportVars
<1>7. QED
  BY <1>1, <1>2, <1>3, <1>4, <1>5, <1>6 DEF AboveStep

\* The cases of a step.
LEMMA StepCases ==
  ASSUME [Next]_vars
  PROVE  \/ AboveStep
         \/ /\ UNCHANGED chosen
            /\ \/ \E c \in Callers : OfferStep(c)
               \/ RestartPublisher \/ RestartPublisherDone
               \/ ReceiveSignal \/ SetRemoteDescription
               \/ AnswerDone
               \/ AddIceCandidate \/ AddToConnection
               \/ ServerAnswer \/ ServerTrickle
               \/ LoseOffer \/ ClosePc
  BY DEF Next, AboveStep, AnswerReceived, TransportStep, AboveUnchanged,
         SignalStep, ServerStep

\* What the proofs need of the assumptions on the constants.
LEMMA Identities ==
  /\ Restart \in Callers /\ Signal \in Callers /\ Restart # Signal
  /\ Restart \notin Offerers /\ Signal \notin Offerers
  /\ Free \notin Callers
  /\ Tasks \subseteq Offerers /\ Debounce \in Offerers
<1>1. Restart # Signal
  BY DEF Restart, Signal
<1>2. Restart \in Callers /\ Signal \in Callers
  BY DEF Callers
<1>3. QED
  BY <1>1, <1>2, PeerTransportAssumption, NegotiationAssumption, Zenon

LEMMA Bounds == MaxRestarts \in Nat /\ MaxChanges \in Nat
  BY PeerTransportAssumption, NegotiationAssumption, Zenon

\* The types of the transport's variables and of those above it.
TransportTypes ==
  /\ lock \in Callers \cup {Free}
  /\ renegotiate \in BOOLEAN
  /\ restarting_ice \in BOOLEAN
  /\ call \in [Callers -> Results]
  /\ pending_candidates \in Seq(SignalMessage)
  /\ signaling_state \in {"stable", "have_local_offer", "closed"}
  /\ localOffer \in Offer
  /\ toServer \in Seq(Offer)
  /\ inbox \in Seq(SignalMessage)
  /\ msg \in SignalMessage \cup {NoMsg}
  /\ serverGen \in Nat
  /\ trickled \in [Generations -> Nat]
  /\ handler \in {"idle", "answer", "answered", "candidate", "adding"}
  /\ restarts \in 0..MaxRestarts

AboveTypes ==
  /\ wanted \in 0..MaxChanges
  /\ state \in {"Idle", "InProgress", "PendingRetry"}
  /\ permit \in BOOLEAN
  /\ task_running \in BOOLEAN
  /\ waiting_for_answer \in BOOLEAN
  /\ task \in [Tasks -> {"none", "start", "offer", "wait", "decide", "exit"}]
  /\ debouncer \in {"none", "timer", "run", "finished"}
  /\ app \in [Publishers -> {"idle", "mark", "queue"}]
  /\ fast_publish \in FastPublish
  /\ faults \in FaultSets

LEMMA TypeParts == TypeOK <=> TransportTypes /\ AboveTypes
  BY DEF TypeOK, TransportTypes, AboveTypes, Results

\* Queues of messages.
LEMMA QueueTypes ==
  ASSUME NEW S, NEW q \in Seq(S)
  PROVE  /\ Len(q) \in Nat
         /\ \A i \in 1..Len(q) : q[i] \in S
         /\ q # <<>> => /\ Head(q) \in S /\ Tail(q) \in Seq(S)
                        /\ Len(q) > 0 /\ Head(q) = q[1]
                        /\ Len(Tail(q)) = Len(q) - 1
                        /\ \A i \in 1..Len(Tail(q)) : Tail(q)[i] = q[i + 1]
         /\ \A e \in S : /\ Append(q, e) \in Seq(S)
                         /\ Len(Append(q, e)) = Len(q) + 1
                         /\ Append(q, e)[Len(q) + 1] = e
                         /\ \A i \in 1..Len(q) : Append(q, e)[i] = q[i]
  OBVIOUS

LEMMA MessageKinds ==
  ASSUME NEW m \in SignalMessage
  PROVE  /\ m.kind \in {"answer", "candidate"}
         /\ m.kind = "answer" => m.number \in Nat /\ m.gen \in Nat
  BY DEF SignalMessage

LEMMA AboveTypesKept ==
  ASSUME TypeOK, [Next]_vars
  PROVE  AboveTypes'
<1> USE TypeParts DEF queueVars, chosen
<1>1. CASE UNCHANGED <<wanted, queueVars, debouncer, app, chosen>>
  BY <1>1 DEF AboveTypes
<1>2. ASSUME NEW p \in Publishers, AppStep(p) PROVE AboveTypes'
  <2>1. CASE NegotiationNeeded(p)
    <3>1. wanted' \in 0..MaxChanges
      BY <2>1, NegotiationAssumption DEF NegotiationNeeded, AboveTypes
    <3>2. QED
      BY <2>1, <3>1 DEF NegotiationNeeded, DebounceNegotiation, AboveTypes
  <2>2. CASE MarkRetry(p)
    BY <2>2 DEF MarkRetry, ptVars, AboveTypes
  <2>3. CASE QueueNegotiation(p)
    <3>1. /\ app' \in [Publishers -> {"idle", "mark", "queue"}]
          /\ task_running' \in BOOLEAN
          /\ state' \in {"Idle", "InProgress", "PendingRetry"}
      BY <2>3 DEF QueueNegotiation, AboveTypes
    <3>2. task' \in [Tasks -> {"none", "start", "offer", "wait", "decide",
                               "exit"}]
      BY <2>3 DEF QueueNegotiation, AboveTypes
    <3>3. QED
      BY <2>3, <3>1, <3>2 DEF QueueNegotiation, ptVars, AboveTypes
  <2>4. QED
    BY <1>2, <2>1, <2>2, <2>3 DEF AppStep
<1>3. ASSUME NEW t \in Tasks, TaskStep(t) PROVE AboveTypes'
  <2>1. CASE TaskStart(t) \/ TaskOfferSent(t) \/ TaskOfferFailed(t)
    BY <2>1 DEF TaskStart, TaskOfferSent, TaskOfferFailed, AboveTypes
  <2>2. CASE TaskNotified(t) \/ TaskTimeout(t)
    BY <2>2 DEF TaskNotified, TaskTimeout, ptVars, AboveTypes
  <2>3. CASE TaskDecide(t) \/ TaskExit(t)
    BY <2>3 DEF TaskDecide, TaskExit, ptVars, AboveTypes
  <2>4. QED
    BY <1>3, <2>1, <2>2, <2>3 DEF TaskStep
<1>4. CASE DebounceFire \/ DebounceDone
  BY <1>4 DEF DebounceFire, DebounceDone, AboveTypes
<1>5. CASE AnswerReceived
  BY <1>5 DEF AnswerReceived, AnswerDone, Wake, AboveTypes
<1>6. CASE TransportStep
  <2>1. UNCHANGED <<queueVars, debouncer, app, chosen>>
    BY <1>6 DEF TransportStep, AboveUnchanged
  <2>2. UNCHANGED wanted
    <3>1. ASSUME NEW c \in Callers, OfferStep(c) PROVE UNCHANGED wanted
      BY <3>1 DEF OfferStep, OfferLock, OfferFail, OfferCreate, OfferSetLocal
    <3>2. CASE RestartPublisher \/ RestartPublisherDone
      BY <3>2 DEF RestartPublisher, RestartPublisherDone
    <3>3. CASE SignalStep
      BY <3>3 DEF SignalStep, ReceiveSignal, SetRemoteDescription,
                  AddIceCandidate, AddToConnection
    <3>4. CASE ServerStep \/ LoseOffer \/ ClosePc
      BY <3>4 DEF ServerStep, ServerAnswer, ServerTrickle, LoseOffer, ClosePc
    <3>5. QED
      BY <1>6, <3>1, <3>2, <3>3, <3>4 DEF TransportStep
  <2>3. QED
    BY <1>1, <2>1, <2>2
<1>7. CASE UNCHANGED vars
  BY <1>1, <1>7 DEF vars, ptVars
<1>8. QED
  BY <1>2, <1>3, <1>4, <1>5, <1>6, <1>7 DEF Next

LEMMA TransportTypesKept ==
  ASSUME TypeInv, [Next]_vars
  PROVE  TransportTypes' /\ HandledMessage'
<1> USE Bounds
    DEF transportVars, pcVars, signalVars, ptRest, ptVars
<1>1. TransportTypes /\ HandledMessage
  BY TypeParts DEF TypeInv
<1>2. CASE AboveStep
  <2>1. UNCHANGED ptRest /\ call' \in [Callers -> Results]
    BY <1>2, AboveStepEffect DEF TypeInv
  <2>2. QED
    BY <1>1, <2>1 DEF TransportTypes, HandledMessage
<1>3. ASSUME NEW c \in Callers, OfferStep(c)
      PROVE  TransportTypes' /\ HandledMessage'
  <2>1. CASE OfferLock(c)
    BY <1>1, <2>1 DEF OfferLock, TransportTypes, HandledMessage, Results
  <2>2. CASE OfferFail(c)
    BY <1>1, <2>2 DEF OfferFail, TransportTypes, HandledMessage, Results
  <2>3. CASE OfferCreate(c)
    <3>1. localOffer' \in Offer
      <4>1. wanted \in Nat
        BY TypeParts DEF TypeInv, AboveTypes
      <4>2. localOffer.number \in Nat /\ localOffer.gen \in Nat
        BY <1>1 DEF TransportTypes, Offer
      <4>3. QED
        BY <2>3, <4>1, <4>2 DEF OfferCreate, Offer
    <3>2. QED
      BY <1>1, <2>3, <3>1
      DEF OfferCreate, TransportTypes, HandledMessage, Results
  <2>4. CASE OfferSetLocal(c)
    <3>1. toServer' \in Seq(Offer)
      BY <1>1, <2>4, QueueTypes DEF OfferSetLocal, TransportTypes
    <3>2. QED
      BY <1>1, <2>4, <3>1
      DEF OfferSetLocal, TransportTypes, HandledMessage, Results
  <2>5. QED
    BY <1>3, <2>1, <2>2, <2>3, <2>4 DEF OfferStep
<1>4. CASE RestartPublisher \/ RestartPublisherDone
  <2>1. Restart \in Callers
    BY DEF Callers
  <2>2. call' \in [Callers -> Results]
    BY <1>1, <1>4, <2>1 DEF RestartPublisher, RestartPublisherDone, OfferCall,
                            OfferReturn, TransportTypes, Results
  <2>3. restarts' \in 0..MaxRestarts
    BY <1>1, <1>4 DEF RestartPublisher, RestartPublisherDone, TransportTypes
  <2>4. QED
    BY <1>1, <1>4, <2>2, <2>3
    DEF RestartPublisher, RestartPublisherDone, TransportTypes, HandledMessage
<1>5. CASE ReceiveSignal
  <2>1. /\ Head(inbox) \in SignalMessage /\ Tail(inbox) \in Seq(SignalMessage)
        /\ msg' = Head(inbox) /\ inbox' = Tail(inbox)
        /\ handler' = Head(inbox).kind
    BY <1>1, <1>5, QueueTypes DEF ReceiveSignal, TransportTypes
  <2>2. handler' \in {"answer", "candidate"}
    BY <2>1, MessageKinds
  <2>3. QED
    BY <1>1, <1>5, <2>1, <2>2
    DEF ReceiveSignal, TransportTypes, HandledMessage
<1>6. CASE SetRemoteDescription
  <2>1. <<>> \in Seq(SignalMessage) /\ Signal \in Callers
    BY DEF Callers
  <2>2. pending_candidates' \in Seq(SignalMessage)
    BY <1>1, <1>6, <2>1 DEF SetRemoteDescription, HandOver, TransportTypes
  <2>3. /\ call' \in [Callers -> Results]
        /\ lock' \in Callers \cup {Free}
        /\ renegotiate' \in BOOLEAN /\ restarting_ice' \in BOOLEAN
    BY <1>1, <1>6, <2>1
    DEF SetRemoteDescription, Settle, TransportTypes, Results
  <2>4. /\ handler' \in {"idle", "answered"} /\ msg' \in {NoMsg, msg}
        /\ signaling_state' \in {signaling_state, "stable"}
        /\ localOffer' = localOffer
    BY <1>6 DEF SetRemoteDescription
  <2>5. UNCHANGED <<inbox, toServer, serverGen, trickled, restarts>>
    BY <1>6 DEF SetRemoteDescription
  <2>6. QED
    BY <1>1, <2>2, <2>3, <2>4, <2>5 DEF TransportTypes, HandledMessage
<1>7. CASE AnswerDone
  BY <1>1, <1>7 DEF AnswerDone, TransportTypes, HandledMessage, Results
<1>8. CASE AddIceCandidate
  <2>1. msg \in SignalMessage
    BY <1>1, <1>8 DEF AddIceCandidate, HandledMessage
  <2>2. pending_candidates' \in Seq(SignalMessage)
    <3>1. pending_candidates' \in {pending_candidates,
                                   Append(pending_candidates, msg)}
      BY <1>8 DEF AddIceCandidate, Keep
    <3>2. pending_candidates \in Seq(SignalMessage)
      BY <1>1 DEF TransportTypes
    <3>3. QED
      BY <2>1, <3>1, <3>2
  <2>3. /\ handler' \in {"idle", "adding"} /\ msg' \in {NoMsg, msg}
        /\ handler' = "adding" => msg' = msg
    BY <1>8 DEF AddIceCandidate
  <2>4. QED
    BY <1>1, <1>8, <2>1, <2>2, <2>3
    DEF AddIceCandidate, TransportTypes, HandledMessage
<1>9. CASE AddToConnection
  BY <1>1, <1>9 DEF AddToConnection, TransportTypes, HandledMessage
<1>10. CASE ServerAnswer
  <2>1. Head(toServer) \in Offer /\ Tail(toServer) \in Seq(Offer)
    BY <1>1, <1>10, QueueTypes DEF ServerAnswer, TransportTypes
  <2>2. /\ Head(toServer).gen \in Nat
        /\ [kind |-> "answer", number |-> Head(toServer).number,
            gen |-> Head(toServer).gen] \in SignalMessage
    BY <2>1 DEF Offer, SignalMessage
  <2>3. inbox' \in Seq(SignalMessage)
    BY <1>1, <1>10, <2>2, QueueTypes DEF ServerAnswer, TransportTypes
  <2>4. QED
    BY <1>1, <1>10, <2>1, <2>2, <2>3
    DEF ServerAnswer, TransportTypes, HandledMessage
<1>11. CASE ServerTrickle
  <2>1. PICK gen \in Generations :
          /\ trickled' = [trickled EXCEPT ![gen] = @ + 1]
          /\ inbox' = Append(inbox, [kind |-> "candidate", gen |-> gen,
                                     index |-> trickled[gen] + 1])
    BY <1>11 DEF ServerTrickle
  <2>2. trickled[gen] + 1 \in Nat /\ gen \in Nat
    BY <1>1 DEF TransportTypes, Generations
  <2>3. [kind |-> "candidate", gen |-> gen, index |-> trickled[gen] + 1]
          \in SignalMessage
    BY <2>2 DEF SignalMessage
  <2>4. inbox' \in Seq(SignalMessage) /\ trickled' \in [Generations -> Nat]
    BY <1>1, <2>1, <2>2, <2>3, QueueTypes DEF TransportTypes
  <2>5. QED
    BY <1>1, <1>11, <2>4 DEF ServerTrickle, TransportTypes, HandledMessage
<1>12. CASE LoseOffer \/ ClosePc
  <2>1. toServer' \in Seq(Offer)
    <3>1. \/ UNCHANGED toServer
          \/ toServer # <<>> /\ toServer' = Tail(toServer)
      BY <1>12 DEF LoseOffer, ClosePc
    <3>2. toServer \in Seq(Offer)
      BY <1>1 DEF TransportTypes
    <3>3. QED
      BY <3>1, <3>2
  <2>2. QED
    BY <1>1, <1>12, <2>1
    DEF LoseOffer, ClosePc, TransportTypes, HandledMessage
<1>13. QED
  BY <1>2, <1>3, <1>4, <1>5, <1>6, <1>7, <1>8, <1>9, <1>10, <1>11, <1>12,
     StepCases

LEMMA SpecTypeInv == Spec => []TypeInv
<1>1. Init => TypeInv
  <2>1. SUFFICES ASSUME Init PROVE TypeInv
    OBVIOUS
  <2>2. TransportTypes /\ HandledMessage
    <3>1. /\ lock = Free /\ call = [c \in Callers |-> "idle"]
          /\ pending_candidates = <<>> /\ toServer = <<>> /\ inbox = <<>>
          /\ localOffer = [number |-> 0, version |-> 0, gen |-> 1]
          /\ trickled = [g \in Generations |-> 0]
          /\ renegotiate = FALSE /\ restarting_ice = FALSE
          /\ signaling_state = "stable" /\ handler = "idle" /\ msg = NoMsg
          /\ restarts = 0 /\ serverGen = 0
      BY <2>1 DEF Init, PTInit
    <3>2. localOffer \in Offer
      BY <3>1 DEF Offer
    <3>3. <<>> \in Seq(Offer) /\ <<>> \in Seq(SignalMessage)
      OBVIOUS
    <3>4. restarts \in 0..MaxRestarts
      BY <3>1, Bounds
    <3>5. QED
      BY <3>1, <3>2, <3>3, <3>4 DEF TransportTypes, HandledMessage, Results
  <2>3. AboveTypes
    <3>1. wanted = 0 /\ faults \in FaultSets
      BY <2>1 DEF Init, PTInit
    <3>2. wanted \in 0..MaxChanges
      BY <3>1, Bounds
    <3>3. QED
      BY <2>1, <3>1, <3>2 DEF Init, AboveTypes
  <2>4. QED
    BY <2>2, <2>3, TypeParts DEF TypeInv
<1>2. TypeInv /\ [Next]_vars => TypeInv'
  <2>1. SUFFICES ASSUME TypeInv, [Next]_vars PROVE TypeInv'
    OBVIOUS
  <2>2. AboveTypes' /\ TransportTypes' /\ HandledMessage'
    BY <2>1, AboveTypesKept, TransportTypesKept DEF TypeInv
  <2>3. TypeOK'
    BY <2>2 DEF TypeOK, TransportTypes, AboveTypes, Results
  <2>4. QED
    BY <2>2, <2>3 DEF TypeInv
<1>3. QED
  BY <1>1, <1>2, PTL DEF Spec

\* Every variable of the transport, of the queue and of the tasks keeps its
\* type.
THEOREM TypeCorrect == Spec => []TypeOK
<1>1. TypeInv => TypeOK
  BY DEF TypeInv
<1>2. QED
  BY <1>1, SpecTypeInv, PTL

LEMMA NextLockInv ==
  ASSUME TypeInv, LockInv, [Next]_vars
  PROVE  LockInv'
<1> USE DEF Offering, transportVars, pcVars, signalVars
<1>0. /\ call \in [Callers -> Results] /\ lock \in Callers \cup {Free}
      /\ signaling_state \in {"stable", "have_local_offer", "closed"}
  BY TypeParts DEF TypeInv, TransportTypes
<1>1. CASE AboveStep
  <2>1. /\ UNCHANGED <<lock, signaling_state>>
        /\ \A c \in Callers : call'[c] = call[c] \/ ~Offering(c)'
    BY <1>1, AboveStepEffect DEF TypeInv, ptRest
  <2>2. QED
    BY <2>1 DEF LockInv
<1>2. ASSUME NEW d \in Callers, OfferStep(d) PROVE LockInv'
  <2>1. PICK to \in Results : call' = [call EXCEPT ![d] = to]
    BY <1>2 DEF OfferStep, OfferLock, OfferFail, OfferCreate, OfferSetLocal,
                Results
  <2>2. /\ call'[d] = to
        /\ \A c \in Callers : c # d => call'[c] = call[c]
    BY <1>0, <2>1, CallUpdate
  <2>3. CASE OfferLock(d)
    <3>1. \A c \in Callers : ~Offering(c)
      BY <2>3, Identities DEF OfferLock, LockInv
    <3>2. \A c \in Callers : c # d => ~Offering(c)'
      BY <2>2, <3>1
    <3>3. Offering(d)' => lock' = d /\ signaling_state' = "stable"
      BY <1>0, <2>3, <2>2 DEF OfferLock
    <3>4. QED
      BY <3>2, <3>3 DEF LockInv
  <2>4. CASE ~OfferLock(d)
    <3>1. /\ Offering(d)
          /\ \/ ~Offering(d)'
             \/ UNCHANGED <<lock, signaling_state>>
      BY <1>0, <1>2, <2>2, <2>4
      DEF OfferStep, OfferFail, OfferCreate, OfferSetLocal
    <3>2. \A c \in Callers : c # d => ~Offering(c)'
      BY <2>2, <3>1 DEF LockInv
    <3>3. QED
      BY <3>1, <3>2 DEF LockInv
  <2>5. QED
    BY <2>3, <2>4
<1>3. CASE RestartPublisher \/ RestartPublisherDone
  <2>1. /\ ~Offering(Restart)'
        /\ \A c \in Callers : c # Restart => call'[c] = call[c]
    BY <1>0, <1>3, Identities DEF RestartPublisher, RestartPublisherDone,
                                  OfferCall, OfferReturn
  <2>2. UNCHANGED <<lock, signaling_state>>
    BY <1>3 DEF RestartPublisher, RestartPublisherDone
  <2>3. QED
    BY <2>1, <2>2 DEF LockInv
<1>4. CASE SetRemoteDescription
  <2>1. \A c \in Callers : ~Offering(c)
    BY <1>4, Identities DEF SetRemoteDescription, LockInv
  <2>2. \A c \in Callers : call'[c] = call[c] \/ call'[c] = "lock"
    BY <1>0, <1>4, Identities DEF SetRemoteDescription
  <2>3. QED
    BY <2>1, <2>2 DEF LockInv
<1>5. CASE AnswerDone
  <2>1. /\ ~Offering(Signal)'
        /\ \A c \in Callers : c # Signal => call'[c] = call[c]
    BY <1>0, <1>5, Identities DEF AnswerDone
  <2>2. lock' = lock \/ lock = Signal
    BY <1>5 DEF AnswerDone
  <2>3. UNCHANGED signaling_state
    BY <1>5 DEF AnswerDone
  <2>4. QED
    BY <2>1, <2>2, <2>3 DEF LockInv
<1>6. CASE UNCHANGED <<lock, call>>
            /\ signaling_state' \in {signaling_state, "closed"}
  BY <1>6 DEF LockInv
<1>7. CASE \/ ReceiveSignal \/ AddIceCandidate \/ AddToConnection
           \/ ServerAnswer \/ ServerTrickle \/ LoseOffer \/ ClosePc
  BY <1>6, <1>7 DEF ReceiveSignal, AddIceCandidate, AddToConnection,
                    ServerAnswer, ServerTrickle, LoseOffer, ClosePc
<1>8. QED
  BY <1>1, <1>2, <1>3, <1>4, <1>5, <1>7, StepCases

LEMMA SpecLockInv == Spec => []LockInv
<1>1. Init => LockInv
  BY DEF Init, PTInit, LockInv, Offering
<1>2. TypeInv /\ LockInv /\ [Next]_vars => LockInv'
  BY NextLockInv
<1>3. QED
  BY <1>1, <1>2, SpecTypeInv, PTL DEF Spec

-----------------------------------------------------------------------------
(***************************************************************************)
(* Notes to renegotiate                                                    *)
(***************************************************************************)
\* Where a note may be left, offers lost or not.
NoteInv ==
  renegotiate /\ ~CanFail =>
    \/ signaling_state \in {"have_local_offer", "closed"}
    \/ Offering(Restart)

LEMMA NextNote ==
  ASSUME TypeInv, LockInv, NoteInv, [Next]_vars
  PROVE  NoteInv'
<1> USE DEF transportVars, pcVars, signalVars
<1>0. /\ call \in [Callers -> Results]
      /\ signaling_state \in {"stable", "have_local_offer", "closed"}
  BY TypeParts DEF TypeInv, TransportTypes
<1>1. CanFail' = CanFail
  BY StepCases, AboveStepEffect DEF TypeInv, chosen, CanFail
<1> SUFFICES ASSUME renegotiate', ~CanFail
             PROVE  \/ signaling_state' \in {"have_local_offer", "closed"}
                    \/ Offering(Restart)'
  BY <1>1 DEF NoteInv, Offering
<1> DEFINE Goal == \/ signaling_state' \in {"have_local_offer", "closed"}
                   \/ Offering(Restart)'
<1>2. renegotiate => \/ signaling_state \in {"have_local_offer", "closed"}
                     \/ Offering(Restart)
  BY DEF NoteInv, Offering
<1>3. CASE /\ UNCHANGED renegotiate
           /\ signaling_state' \in {signaling_state, "closed"}
           /\ call'[Restart] = call[Restart] \/ ~Offering(Restart)
  BY <1>2, <1>3 DEF Offering
<1>4. CASE AboveStep
  <2>1. /\ UNCHANGED <<renegotiate, signaling_state>>
        /\ call'[Restart] = call[Restart]
    BY <1>4, AboveStepEffect, Identities DEF TypeInv, ptRest
  <2>2. QED
    BY <1>3, <2>1
<1>5. ASSUME NEW d \in Callers, OfferStep(d) PROVE Goal
  <2>1. PICK to \in Results : call' = [call EXCEPT ![d] = to]
    BY <1>5 DEF OfferStep, OfferLock, OfferFail, OfferCreate, OfferSetLocal,
                Results
  <2>2. /\ call'[d] = to
        /\ \A c \in Callers : c # d => call'[c] = call[c]
    BY <1>0, <2>1, CallUpdate
  <2>3. CASE OfferLock(d)
    <3>1. \A c \in Callers : ~Offering(c)
      BY <2>3, Identities DEF OfferLock, LockInv
    <3>2. CASE signaling_state = "stable"
      <4>1. ~renegotiate
        BY <1>2, <3>1, <3>2, Identities
      <4>2. UNCHANGED renegotiate
        BY <2>3, <3>2 DEF OfferLock
      <4>3. QED
        BY <4>1, <4>2
    <3>3. CASE signaling_state = "have_local_offer" /\ ~RollsBack(d)
      BY <2>3, <3>3 DEF OfferLock
    <3>4. CASE signaling_state = "have_local_offer" /\ RollsBack(d)
      <4>1. d = Restart
        BY <3>4 DEF RollsBack
      <4>2. call' = [call EXCEPT ![d] = "create"]
        BY <2>3, <3>4 DEF OfferLock
      <4>3. QED
        BY <1>0, <4>1, <4>2, CallUpdate DEF Offering, Results
    <3>5. CASE signaling_state = "closed"
      BY <2>3, <3>5 DEF OfferLock
    <3>6. QED
      BY <1>0, <3>2, <3>3, <3>4, <3>5
  <2>4. CASE OfferFail(d)
    BY <1>2, <2>4 DEF OfferFail
  <2>5. CASE OfferCreate(d)
    <3>1. /\ UNCHANGED <<renegotiate, signaling_state>>
          /\ call' = [call EXCEPT ![d] = "set_local"]
      BY <2>5 DEF OfferCreate
    <3>2. Offering(d)'
      BY <1>0, <3>1, CallUpdate DEF Offering, Results
    <3>3. QED
      BY <1>3, <2>2, <3>1, <3>2, Identities
  <2>6. CASE OfferSetLocal(d)
    BY <2>6 DEF OfferSetLocal
  <2>7. QED
    BY <1>5, <2>3, <2>4, <2>5, <2>6 DEF OfferStep
<1>6. CASE RestartPublisher \/ RestartPublisherDone
  <2>1. ~Offering(Restart) /\ UNCHANGED <<renegotiate, signaling_state>>
    BY <1>6 DEF RestartPublisher, RestartPublisherDone, OfferCall, OfferReturn,
                Offering
  <2>2. QED
    BY <1>3, <2>1
<1>7. CASE SetRemoteDescription
  <2>1. CASE UNCHANGED <<renegotiate, call, signaling_state>>
    BY <1>3, <2>1
  <2>2. CASE renegotiate' = FALSE
    BY <2>2
  <2>3. QED
    BY <1>7, <2>1, <2>2 DEF SetRemoteDescription, Settle
<1>8. CASE AnswerDone
  <2>1. call'[Restart] = call[Restart]
    BY <1>0, <1>8, Identities DEF AnswerDone
  <2>2. UNCHANGED <<renegotiate, signaling_state>>
    BY <1>8 DEF AnswerDone
  <2>3. QED
    BY <1>3, <2>1, <2>2
<1>9. CASE \/ ReceiveSignal \/ AddIceCandidate \/ AddToConnection
           \/ ServerAnswer \/ ServerTrickle \/ LoseOffer \/ ClosePc
  BY <1>3, <1>9 DEF ReceiveSignal, AddIceCandidate, AddToConnection,
                    ServerAnswer, ServerTrickle, LoseOffer, ClosePc
<1>10. QED
  BY <1>4, <1>5, <1>6, <1>7, <1>8, <1>9, StepCases

\* Nothing between the server and the signal task disappears.
Reliable == ~CanFail /\ "lost offer" \notin faults

\* The answer to an outstanding offer is still to come.
UnderWayInv ==
  Reliable /\ signaling_state = "have_local_offer" => AnswerUnderWay

\* What the heads and tails of the queues have to do with the answers in them.
LEMMA QueueMoves ==
  ASSUME NEW S, NEW q \in Seq(S)
  PROVE  /\ q # <<>> => \A i \in 1..Len(q) :
                          \/ q[i] = Head(q)
                          \/ \E j \in 1..Len(Tail(q)) : Tail(q)[j] = q[i]
         /\ \A e \in S :
              /\ \A i \in 1..Len(q) :
                   i \in 1..Len(Append(q, e)) /\ Append(q, e)[i] = q[i]
              /\ \E j \in 1..Len(Append(q, e)) : Append(q, e)[j] = e
<1>1. ASSUME q # <<>>, NEW i \in 1..Len(q)
      PROVE  \/ q[i] = Head(q)
             \/ \E j \in 1..Len(Tail(q)) : Tail(q)[j] = q[i]
  <2>1. CASE i = 1
    BY <1>1, <2>1
  <2>2. CASE i # 1
    <3>1. i - 1 \in 1..Len(Tail(q)) /\ Tail(q)[i - 1] = q[i]
      BY <1>1, <2>2
    <3>2. QED
      BY <3>1
  <2>3. QED
    BY <2>1, <2>2
<1>2. ASSUME NEW e \in S
      PROVE  /\ \A i \in 1..Len(q) :
                  i \in 1..Len(Append(q, e)) /\ Append(q, e)[i] = q[i]
             /\ \E j \in 1..Len(Append(q, e)) : Append(q, e)[j] = e
  <2>1. /\ Len(Append(q, e)) = Len(q) + 1 /\ Len(q) \in Nat
        /\ Append(q, e)[Len(q) + 1] = e
        /\ \A i \in 1..Len(q) : Append(q, e)[i] = q[i]
    BY QueueTypes
  <2>2. QED
    BY <2>1
<1>3. QED
  BY <1>1, <1>2

LEMMA NextUnderWay ==
  ASSUME TypeInv, LockInv, UnderWayInv, [Next]_vars
  PROVE  UnderWayInv'
<1> USE DEF transportVars, pcVars, signalVars
<1>0. /\ call \in [Callers -> Results]
      /\ inbox \in Seq(SignalMessage) /\ toServer \in Seq(Offer)
      /\ localOffer \in Offer
  BY TypeParts DEF TypeInv, TransportTypes
<1>1. UNCHANGED faults
  BY StepCases, AboveStepEffect DEF TypeInv, chosen
<1> SUFFICES ASSUME Reliable, signaling_state' = "have_local_offer"
             PROVE  AnswerUnderWay'
  BY <1>1 DEF UnderWayInv, Reliable, CanFail
<1>2. ~CanFail /\ "lost offer" \notin faults
  BY DEF Reliable
<1> DEFINE n == localOffer.number
           Sent == \E i \in 1..Len(toServer) : toServer[i].number = n
           Answered == \E i \in 1..Len(inbox) :
                         inbox[i].kind = "answer" /\ inbox[i].number = n
           Handled == handler = "answer" /\ msg.number = n
<1>3. signaling_state = "have_local_offer" => Sent \/ Answered \/ Handled
  BY DEF UnderWayInv, AnswerUnderWay
<1>4. CASE UNCHANGED <<signaling_state, localOffer, toServer, inbox, handler,
                       msg>>
  BY <1>3, <1>4 DEF AnswerUnderWay
<1>5. CASE AboveStep
  BY <1>4, <1>5, AboveStepEffect DEF TypeInv, ptRest
<1>6. ASSUME NEW d \in Callers, OfferStep(d) PROVE AnswerUnderWay'
  <2>1. CASE OfferLock(d) \/ OfferFail(d)
    <3>1. UNCHANGED signaling_state
      BY <2>1 DEF OfferLock, OfferFail
    <3>2. UNCHANGED <<localOffer, toServer, inbox, handler, msg>>
      BY <2>1 DEF OfferLock, OfferFail
    <3>3. QED
      BY <1>4, <3>1, <3>2
  <2>2. CASE OfferCreate(d)
    <3>1. signaling_state # "have_local_offer"
      BY <2>2 DEF OfferCreate, LockInv, Offering
    <3>2. QED
      BY <2>2, <3>1 DEF OfferCreate
  <2>3. CASE OfferSetLocal(d)
    <3>1. toServer' = Append(toServer, localOffer) /\ UNCHANGED localOffer
      BY <2>3 DEF OfferSetLocal
    <3>2. \E j \in 1..Len(toServer') : toServer'[j] = localOffer
      BY <1>0, <3>1, QueueMoves
    <3>3. QED
      BY <3>1, <3>2 DEF AnswerUnderWay
  <2>4. QED
    BY <1>6, <2>1, <2>2, <2>3 DEF OfferStep
<1>7. CASE \/ RestartPublisher \/ RestartPublisherDone \/ ClosePc
           \/ LoseOffer
  BY <1>2, <1>4, <1>7
  DEF RestartPublisher, RestartPublisherDone, ClosePc, LoseOffer
<1>8. CASE ReceiveSignal
  <2>1. /\ inbox # <<>> /\ msg' = Head(inbox) /\ inbox' = Tail(inbox)
        /\ handler = "idle" /\ handler' = Head(inbox).kind
        /\ UNCHANGED <<signaling_state, localOffer, toServer>>
    BY <1>8 DEF ReceiveSignal
  <2>2. CASE Sent
    BY <2>1, <2>2 DEF AnswerUnderWay
  <2>3. CASE Answered
    <3>1. PICK i \in 1..Len(inbox) :
            inbox[i].kind = "answer" /\ inbox[i].number = n
      BY <2>3
    <3>2. \/ inbox[i] = Head(inbox)
          \/ \E j \in 1..Len(Tail(inbox)) : Tail(inbox)[j] = inbox[i]
      BY <1>0, <2>1, QueueMoves
    <3>3. QED
      BY <2>1, <3>1, <3>2 DEF AnswerUnderWay
  <2>4. QED
    BY <1>3, <2>1, <2>2, <2>3
<1>9. CASE SetRemoteDescription
  BY <1>2, <1>9 DEF SetRemoteDescription
<1>10. CASE AnswerDone \/ AddIceCandidate \/ AddToConnection
  <2>1. /\ handler # "answer"
        /\ UNCHANGED <<signaling_state, localOffer, toServer, inbox>>
    BY <1>10 DEF AnswerDone, AddIceCandidate, AddToConnection
  <2>2. QED
    BY <1>3, <2>1 DEF AnswerUnderWay
<1>11. CASE ServerAnswer
  <2>1. /\ toServer # <<>> /\ toServer' = Tail(toServer)
        /\ inbox' = Append(inbox, [kind |-> "answer",
                                   number |-> Head(toServer).number,
                                   gen |-> Head(toServer).gen])
        /\ UNCHANGED <<signaling_state, localOffer, handler, msg>>
    BY <1>11 DEF ServerAnswer
  <2> DEFINE answer == [kind |-> "answer", number |-> Head(toServer).number,
                        gen |-> Head(toServer).gen]
  <2>2. Head(toServer) \in Offer
    BY <1>0, <2>1
  <2>3. answer \in SignalMessage
    BY <2>2 DEF SignalMessage, Offer
  <2>4. /\ \A i \in 1..Len(inbox) :
             i \in 1..Len(inbox') /\ inbox'[i] = inbox[i]
        /\ \E j \in 1..Len(inbox') : inbox'[j] = answer
    <3> HIDE DEF answer
    <3>1. inbox' = Append(inbox, answer)
      BY <2>1 DEF answer
    <3>2. QED
      BY <1>0, <2>3, <3>1, QueueMoves
  <2>5. CASE Sent
    <3>1. PICK i \in 1..Len(toServer) : toServer[i].number = n
      BY <2>5
    <3>2. \/ toServer[i] = Head(toServer)
          \/ \E j \in 1..Len(Tail(toServer)) : Tail(toServer)[j] = toServer[i]
      BY <1>0, <2>1, QueueMoves
    <3>3. CASE toServer[i] = Head(toServer)
      <4>1. answer.kind = "answer" /\ answer.number = n
        BY <3>1, <3>3
      <4>2. QED
        BY <2>1, <2>4, <4>1 DEF AnswerUnderWay
    <3>4. CASE \E j \in 1..Len(Tail(toServer)) :
                 Tail(toServer)[j] = toServer[i]
      BY <2>1, <3>1, <3>4 DEF AnswerUnderWay
    <3>5. QED
      BY <3>2, <3>3, <3>4
  <2>6. CASE Answered
    BY <2>1, <2>4, <2>6 DEF AnswerUnderWay
  <2>7. CASE Handled
    BY <2>1, <2>7 DEF AnswerUnderWay
  <2>8. QED
    BY <1>3, <2>1, <2>5, <2>6, <2>7
<1>12. CASE ServerTrickle
  <2>1. PICK gen \in Generations :
          inbox' = Append(inbox, [kind |-> "candidate", gen |-> gen,
                                  index |-> trickled[gen] + 1])
    BY <1>12 DEF ServerTrickle
  <2>2. UNCHANGED <<signaling_state, localOffer, toServer, handler, msg>>
    BY <1>12 DEF ServerTrickle
  <2>3. [kind |-> "candidate", gen |-> gen, index |-> trickled[gen] + 1]
          \in SignalMessage
    BY TypeParts DEF TypeInv, TransportTypes, SignalMessage, Generations
  <2>4. \A i \in 1..Len(inbox) :
          i \in 1..Len(inbox') /\ inbox'[i] = inbox[i]
    BY <1>0, <2>1, <2>3, QueueMoves
  <2>5. QED
    BY <1>3, <2>2, <2>4 DEF AnswerUnderWay
<1>13. QED
  BY <1>5, <1>6, <1>7, <1>8, <1>9, <1>10, <1>11, <1>12, StepCases

\* Without failures and lost offers a note to renegotiate waits only on an
\* offer whose answer is on its way to the handler that takes the note, or for
\* the new offer of an ICE restart: what leaves the note behind, rolls the
\* offer back or takes the note holds the mutex, and what answers an offer
\* does so once, in order.
THEOREM NotesAreRead == Spec => []RenegotiateWillBeRead
<1>1. Init => NoteInv /\ UnderWayInv
  BY DEF Init, PTInit, NoteInv, UnderWayInv
<1>2. TypeInv /\ LockInv /\ NoteInv /\ UnderWayInv /\ [Next]_vars
        => NoteInv' /\ UnderWayInv'
  BY NextNote, NextUnderWay
<1>3. NoteInv /\ UnderWayInv => RenegotiateWillBeRead
  BY DEF NoteInv, UnderWayInv, Reliable, Offering, RenegotiateWillBeRead
<1>4. QED
  BY <1>1, <1>2, <1>3, SpecTypeInv, SpecLockInv, PTL DEF Spec

-----------------------------------------------------------------------------
(***************************************************************************)
(* Candidates on their way                                                 *)
(***************************************************************************)

\* As CandidateConservation, with the handler that will deal with the
\* candidate under its hands.
CandidateInv ==
  \A g \in Generations : \A i \in 1..trickled[g] :
    LET c == [kind |-> "candidate", gen |-> g, index |-> i]
    IN \/ c \in CandidatesIn(inbox)
       \/ handler \in {"candidate", "adding"} /\ c = msg
       \/ c \in CandidatesIn(pending_candidates)
       \/ c \in applied \cup refused

\* The places where a candidate may be.
Settled(c) ==
  \/ handler \in {"candidate", "adding"} /\ c = msg
  \/ c \in CandidatesIn(pending_candidates)
  \/ c \in applied \cup refused

\* Elements of a sequence after the operations of a queue.
LEMMA ElementsMove ==
  ASSUME NEW S, NEW q \in Seq(S)
  PROVE  /\ q # <<>> => \A c \in CandidatesIn(q) :
                          c = Head(q) \/ c \in CandidatesIn(Tail(q))
         /\ \A e \in S : CandidatesIn(Append(q, e)) = CandidatesIn(q) \cup {e}
<1>1. ASSUME q # <<>>, NEW c \in CandidatesIn(q)
      PROVE  c = Head(q) \/ c \in CandidatesIn(Tail(q))
  <2>1. PICK i \in 1..Len(q) : c = q[i]
    BY <1>1 DEF CandidatesIn
  <2>2. CASE i = 1
    BY <1>1, <2>1, <2>2
  <2>3. CASE i # 1
    <3>1. i - 1 \in 1..Len(Tail(q)) /\ Tail(q)[i - 1] = q[i]
      BY <1>1, <2>3
    <3>2. QED
      BY <2>1, <3>1 DEF CandidatesIn
  <2>4. QED
    BY <2>2, <2>3
<1>2. ASSUME NEW e \in S
      PROVE  CandidatesIn(Append(q, e)) = CandidatesIn(q) \cup {e}
  <2>1. /\ Len(Append(q, e)) = Len(q) + 1 /\ Len(q) \in Nat
        /\ Append(q, e)[Len(q) + 1] = e
        /\ \A i \in 1..Len(q) : Append(q, e)[i] = q[i]
    BY QueueTypes
  <2>2. 1..(Len(q) + 1) = 1..Len(q) \cup {Len(q) + 1}
    BY <2>1
  <2>3. QED
    BY <2>1, <2>2 DEF CandidatesIn
<1>3. QED
  BY <1>1, <1>2

\* Handing the pending candidates over up to the k-th: the rest is lost.
LEMMA SplitPending ==
  ASSUME NEW S, NEW q \in Seq(S), NEW k \in 1..Len(q)
  PROVE  CandidatesIn(q) \subseteq
           CandidatesIn(SubSeq(q, 1, k - 1))
             \cup CandidatesIn(SubSeq(q, k, Len(q)))
<1> SUFFICES ASSUME NEW i \in 1..Len(q)
             PROVE  \/ q[i] \in CandidatesIn(SubSeq(q, 1, k - 1))
                    \/ q[i] \in CandidatesIn(SubSeq(q, k, Len(q)))
  BY DEF CandidatesIn
<1>1. CASE i < k
  <2>1. /\ i \in 1..Len(SubSeq(q, 1, k - 1))
        /\ SubSeq(q, 1, k - 1)[i] = q[i]
    BY <1>1
  <2>2. QED
    BY <2>1 DEF CandidatesIn
<1>2. CASE i >= k
  <2> DEFINE j == i - k + 1
  <2>1. /\ j \in 1..Len(SubSeq(q, k, Len(q)))
        /\ SubSeq(q, k, Len(q))[j] = q[i]
    BY <1>2
  <2>2. QED
    BY <2>1 DEF CandidatesIn
<1>3. QED
  BY <1>1, <1>2

\* What a step does to the candidates that were sent before it.
LEMMA CandidatesKept ==
  ASSUME TypeInv, [Next]_vars, NEW c \in SignalMessage, c.kind = "candidate"
  PROVE  /\ Settled(c) => Settled(c)'
         /\ c \in CandidatesIn(inbox) =>
              c \in CandidatesIn(inbox') \/ Settled(c)'
<1> USE DEF transportVars, pcVars, signalVars
<1>0. /\ inbox \in Seq(SignalMessage)
      /\ pending_candidates \in Seq(SignalMessage)
      /\ HandledMessage
  BY TypeParts DEF TypeInv, TransportTypes
<1>1. CASE UNCHANGED <<inbox, handler, msg, pending_candidates, applied,
                       refused>>
  BY <1>1 DEF Settled
<1>2. CASE AboveStep
  <2>1. UNCHANGED ptRest
    BY <1>2, AboveStepEffect DEF TypeInv
  <2>2. QED
    BY <1>1, <2>1 DEF ptRest
<1>3. CASE \/ \E d \in Callers : OfferStep(d)
           \/ RestartPublisher \/ RestartPublisherDone
           \/ LoseOffer \/ ClosePc
  BY <1>1, <1>3 DEF OfferStep, OfferLock, OfferFail, OfferCreate,
       OfferSetLocal, RestartPublisher, RestartPublisherDone, LoseOffer,
       ClosePc
<1>4. CASE ReceiveSignal
  <2>1. /\ inbox # <<>> /\ inbox' = Tail(inbox) /\ msg' = Head(inbox)
        /\ handler = "idle" /\ handler' = Head(inbox).kind
        /\ UNCHANGED <<pending_candidates, applied, refused>>
    BY <1>4 DEF ReceiveSignal
  <2>2. Settled(c) => Settled(c)'
    BY <2>1 DEF Settled
  <2>3. ASSUME c \in CandidatesIn(inbox)
        PROVE  c \in CandidatesIn(inbox') \/ Settled(c)'
    <3>1. c = Head(inbox) \/ c \in CandidatesIn(Tail(inbox))
      BY <1>0, <2>1, <2>3, ElementsMove
    <3>2. CASE c = Head(inbox)
      BY <2>1, <3>2 DEF Settled
    <3>3. QED
      BY <2>1, <3>1, <3>2
  <2>4. QED
    BY <2>2, <2>3
<1>5. CASE SetRemoteDescription
  <2>1. /\ handler = "answer" /\ UNCHANGED inbox
        /\ applied \subseteq applied' /\ refused \subseteq refused'
    BY <1>5 DEF SetRemoteDescription
  <2>2. CandidatesIn(pending_candidates) \subseteq
          CandidatesIn(pending_candidates') \cup applied' \cup refused'
    <3>1. CASE UNCHANGED pending_candidates
      BY <3>1
    <3>2. CASE applied' = applied \cup CandidatesIn(pending_candidates)
      BY <3>2
    <3>3. CASE \E k \in 1..Len(pending_candidates) :
                 /\ applied' = applied \cup
                      CandidatesIn(SubSeq(pending_candidates, 1, k - 1))
                 /\ refused' = refused \cup
                      CandidatesIn(SubSeq(pending_candidates, k,
                                          Len(pending_candidates)))
      BY <1>0, <3>3, SplitPending
    <3>4. QED
      BY <1>5, <3>1, <3>2, <3>3 DEF SetRemoteDescription
  <2>3. QED
    BY <2>1, <2>2 DEF Settled
<1>6. CASE AnswerDone
  BY <1>6 DEF AnswerDone, Settled
<1>7. CASE AddIceCandidate
  <2>1. /\ handler = "candidate" /\ UNCHANGED <<inbox, applied, refused>>
        /\ \/ /\ handler' = "adding" /\ UNCHANGED <<msg, pending_candidates>>
           \/ pending_candidates' = Append(pending_candidates, msg)
    BY <1>7 DEF AddIceCandidate, Keep
  <2>2. CandidatesIn(Append(pending_candidates, msg))
          = CandidatesIn(pending_candidates) \cup {msg}
    BY <1>0, <2>1, ElementsMove DEF HandledMessage
  <2>3. QED
    BY <2>1, <2>2 DEF Settled
<1>8. CASE AddToConnection
  BY <1>8 DEF AddToConnection, Settled
<1>9. CASE ServerAnswer \/ ServerTrickle
  <2>1. TransportTypes'
    BY TransportTypesKept
  <2>2. PICK m : inbox' = Append(inbox, m)
    BY <1>9 DEF ServerAnswer, ServerTrickle
  <2>3. CandidatesIn(inbox) \subseteq CandidatesIn(inbox')
    <3>1. ASSUME NEW i \in 1..Len(inbox)
          PROVE  i \in 1..Len(inbox') /\ inbox'[i] = inbox[i]
      BY <1>0, <2>2
    <3>2. QED
      BY <3>1 DEF CandidatesIn
  <2>4. UNCHANGED <<handler, msg, pending_candidates, applied, refused>>
    BY <1>9 DEF ServerAnswer, ServerTrickle
  <2>5. QED
    BY <2>3, <2>4 DEF Settled
<1>10. QED
  BY <1>2, <1>3, <1>4, <1>5, <1>6, <1>7, <1>8, <1>9, StepCases

\* Candidates are numbered as they are sent.
LEMMA TrickledSteps ==
  ASSUME TypeInv, [Next]_vars
  PROVE  \/ UNCHANGED trickled
         \/ \E gen \in Generations :
              LET new == [kind |-> "candidate", gen |-> gen,
                          index |-> trickled[gen] + 1]
              IN /\ trickled' = [trickled EXCEPT ![gen] = @ + 1]
                 /\ new \in CandidatesIn(inbox')
<1> USE DEF transportVars, pcVars, signalVars
<1>1. CASE AboveStep
  BY <1>1, AboveStepEffect DEF TypeInv, ptRest
<1>2. CASE ServerTrickle
  <2>1. PICK gen \in Generations :
          /\ trickled' = [trickled EXCEPT ![gen] = @ + 1]
          /\ inbox' = Append(inbox, [kind |-> "candidate", gen |-> gen,
                                     index |-> trickled[gen] + 1])
    BY <1>2 DEF ServerTrickle
  <2> DEFINE new == [kind |-> "candidate", gen |-> gen,
                     index |-> trickled[gen] + 1]
  <2>2. inbox \in Seq(SignalMessage) /\ trickled \in [Generations -> Nat]
    BY TypeParts DEF TypeInv, TransportTypes
  <2>3. new \in SignalMessage
    BY <2>2 DEF SignalMessage, Generations
  <2>4. new \in CandidatesIn(inbox')
    BY <2>1, <2>2, <2>3, ElementsMove
  <2>5. QED
    BY <2>1, <2>4
<1>3. CASE \/ \E c \in Callers : OfferStep(c)
           \/ RestartPublisher \/ RestartPublisherDone
           \/ ReceiveSignal \/ SetRemoteDescription
           \/ AnswerDone
           \/ AddIceCandidate \/ AddToConnection
           \/ ServerAnswer \/ LoseOffer \/ ClosePc
  <2>1. UNCHANGED trickled
    BY <1>3 DEF OfferStep, OfferLock, OfferFail, OfferCreate, OfferSetLocal,
         RestartPublisher, RestartPublisherDone, ReceiveSignal,
         SetRemoteDescription, AnswerDone, AddIceCandidate, AddToConnection,
         ServerAnswer, LoseOffer, ClosePc
  <2>2. QED
    BY <2>1
<1>4. QED
  BY <1>1, <1>2, <1>3, StepCases

\* No candidate of the server is lost, unless a call of the peer connection
\* failed: it is in the signal channel, in the hands of the handler, kept
\* until there is a description for it, or with the peer connection.
THEOREM CandidatesConserved == Spec => []CandidateConservation
<1> DEFINE C(g, i) == [kind |-> "candidate", gen |-> g, index |-> i]
<1>1. Init => CandidateInv
  BY DEF Init, PTInit, CandidateInv
<1>2. TypeInv /\ CandidateInv /\ [Next]_vars => CandidateInv'
  <2> SUFFICES ASSUME TypeInv, CandidateInv, [Next]_vars
               PROVE  CandidateInv'
    OBVIOUS
  <2>1. trickled \in [Generations -> Nat]
    BY TypeParts DEF TypeInv, TransportTypes
  <2>2. ASSUME NEW g \in Generations, NEW i \in 1..trickled[g]
        PROVE  C(g, i) \in CandidatesIn(inbox') \/ Settled(C(g, i))'
    <3>1. C(g, i) \in SignalMessage /\ C(g, i).kind = "candidate"
      BY <2>1 DEF SignalMessage, Generations
    <3>2. C(g, i) \in CandidatesIn(inbox) \/ Settled(C(g, i))
      BY DEF CandidateInv, Settled
    <3>3. QED
      BY <3>1, <3>2, CandidatesKept
  <2>3. ASSUME NEW g \in Generations, NEW i \in 1..trickled'[g]
        PROVE  C(g, i) \in CandidatesIn(inbox') \/ Settled(C(g, i))'
    <3>1. CASE UNCHANGED trickled
      BY <2>2, <3>1
    <3>2. ASSUME NEW gen \in Generations,
                 trickled' = [trickled EXCEPT ![gen] = @ + 1],
                 C(gen, trickled[gen] + 1) \in CandidatesIn(inbox')
          PROVE  C(g, i) \in CandidatesIn(inbox') \/ Settled(C(g, i))'
      <4>1. \/ i \in 1..trickled[g]
            \/ g = gen /\ i = trickled[gen] + 1
        BY <2>1, <3>2
      <4>2. QED
        BY <2>2, <3>2, <4>1
    <3>3. QED
      BY <3>1, <3>2, TrickledSteps
  <2>4. QED
    BY <2>3 DEF CandidateInv, Settled
<1>3. CandidateInv => CandidateConservation
  BY DEF CandidateInv, CandidateConservation
<1>4. QED
  BY <1>1, <1>2, <1>3, SpecTypeInv, PTL DEF Spec

-----------------------------------------------------------------------------
(***************************************************************************)
(* Offers and their answers                                                *)
(***************************************************************************)
IsAnswer(i) == i \in 1..Len(inbox) /\ inbox[i].kind = "answer"

\* The places where an outstanding offer, or its answer, can be.
NothingSent == toServer = <<>>
NothingAnswered == \A i \in 1..Len(inbox) : ~IsAnswer(i)
NothingAccepted == handler # "answer"

\* At most one offer or answer is under way.
OneInTransit ==
  /\ NothingSent \/ (Len(toServer) = 1 /\ NothingAnswered /\ NothingAccepted)
  /\ NothingAnswered \/ NothingAccepted
  /\ \A i, j \in 1..Len(inbox) : IsAnswer(i) /\ IsAnswer(j) => i = j

\* It belongs to the latest local offer.
InTransitIsLatest ==
  /\ \A i \in 1..Len(toServer) : toServer[i].number = localOffer.number
  /\ \A i \in 1..Len(inbox) :
       IsAnswer(i) => inbox[i].number = localOffer.number
  /\ handler = "answer" => msg.number = localOffer.number

\* Until the first ICE restart, an offer or an answer is under way only while
\* the offer is outstanding.
TransitInv ==
  restarts = 0 =>
    /\ call[Restart] = "idle"
    /\ OneInTransit
    /\ InTransitIsLatest
    /\ signaling_state = "stable" =>
         NothingSent /\ NothingAnswered /\ NothingAccepted

\* The steps that leave what is under way alone.
LEMMA TransitUntouched ==
  ASSUME TransitInv, restarts' = 0 => restarts = 0,
         UNCHANGED <<toServer, inbox, localOffer>>,
         handler' = "answer" => handler = "answer" /\ UNCHANGED msg,
         signaling_state' \in {signaling_state, "closed"},
         restarts' = 0 => call'[Restart] = "idle"
  PROVE  TransitInv'
  BY DEF TransitInv, OneInTransit, InTransitIsLatest, NothingSent,
         NothingAnswered, NothingAccepted, IsAnswer

\* The server takes up the only offer.
LEMMA TransitAnswered ==
  ASSUME TypeInv, TransitInv, restarts = 0, ServerAnswer
  PROVE  TransitInv'
<1> DEFINE answer == [kind |-> "answer", number |-> Head(toServer).number,
                      gen |-> Head(toServer).gen]
<1> USE DEF transportVars, pcVars, signalVars
<1>1. /\ toServer \in Seq(Offer) /\ inbox \in Seq(SignalMessage)
  BY TypeParts DEF TypeInv, TransportTypes
<1>2. /\ toServer # <<>> /\ toServer' = Tail(toServer)
      /\ inbox' = Append(inbox, answer)
      /\ UNCHANGED <<handler, msg, localOffer, signaling_state, call, restarts>>
  BY DEF ServerAnswer
<1>3. /\ Len(toServer) = 1 /\ NothingAnswered /\ NothingAccepted
      /\ toServer[1].number = localOffer.number /\ signaling_state # "stable"
      /\ call[Restart] = "idle"
  BY <1>1, <1>2 DEF TransitInv, OneInTransit, InTransitIsLatest, NothingSent
<1>4. toServer' = <<>> /\ Head(toServer) = toServer[1]
  BY <1>1, <1>2, <1>3
<1>5. answer.kind = "answer" /\ answer.number = localOffer.number
  BY <1>3, <1>4
<1>6. answer \in SignalMessage
  <2>1. Head(toServer) \in Offer
    BY <1>1, <1>2, QueueTypes
  <2>2. QED
    BY <2>1 DEF Offer, SignalMessage
<1>7. /\ Len(inbox) \in Nat /\ Len(inbox') = Len(inbox) + 1
      /\ inbox'[Len(inbox) + 1] = answer
      /\ \A i \in 1..Len(inbox) : inbox'[i] = inbox[i]
  BY <1>1, <1>2, <1>6, QueueTypes
<1>8. \A i \in 1..Len(inbox') : inbox'[i].kind = "answer"
                                  => i = Len(inbox) + 1
  BY <1>3, <1>7 DEF NothingAnswered, IsAnswer
<1>9. OneInTransit'
  BY <1>2, <1>3, <1>4, <1>8
  DEF OneInTransit, NothingSent, NothingAccepted, IsAnswer
<1>10. InTransitIsLatest'
  BY <1>2, <1>3, <1>4, <1>5, <1>7, <1>8
  DEF InTransitIsLatest, NothingAccepted, IsAnswer
<1>11. QED
  BY <1>2, <1>3, <1>9, <1>10 DEF TransitInv

\* A candidate goes into the inbox.
LEMMA TransitTrickled ==
  ASSUME TypeInv, TransitInv, restarts = 0, ServerTrickle
  PROVE  TransitInv'
<1> USE DEF transportVars, pcVars, signalVars
<1>1. PICK gen \in Generations :
        inbox' = Append(inbox, [kind |-> "candidate", gen |-> gen,
                                index |-> trickled[gen] + 1])
  BY DEF ServerTrickle
<1> DEFINE new == [kind |-> "candidate", gen |-> gen,
                   index |-> trickled[gen] + 1]
<1>2. /\ inbox \in Seq(SignalMessage) /\ trickled[gen] \in Nat
  BY TypeParts DEF TypeInv, TransportTypes
<1>3. new \in SignalMessage /\ new.kind = "candidate"
  BY <1>2 DEF SignalMessage, Generations
<1>4. /\ Len(inbox) \in Nat /\ Len(inbox') = Len(inbox) + 1
      /\ inbox'[Len(inbox) + 1] = new
      /\ \A i \in 1..Len(inbox) : inbox'[i] = inbox[i]
  BY <1>1, <1>2, <1>3, QueueTypes
<1>5. \A i \in 1..Len(inbox') :
        inbox'[i].kind = "answer" => i \in 1..Len(inbox) /\ IsAnswer(i)
  BY <1>3, <1>4 DEF IsAnswer
<1>6. UNCHANGED <<toServer, handler, msg, localOffer, signaling_state, call,
                  restarts>>
  BY DEF ServerTrickle
<1>7. NothingAnswered => NothingAnswered'
  BY <1>5 DEF NothingAnswered, IsAnswer
<1>8. OneInTransit => OneInTransit'
  <2>1. SUFFICES ASSUME OneInTransit PROVE OneInTransit'
    OBVIOUS
  <2>2. \A i, j \in 1..Len(inbox') : IsAnswer(i)' /\ IsAnswer(j)' => i = j
    <3>1. ASSUME NEW i \in 1..Len(inbox'), NEW j \in 1..Len(inbox'),
                 inbox'[i].kind = "answer", inbox'[j].kind = "answer"
          PROVE  i = j
      <4>1. /\ i \in 1..Len(inbox) /\ IsAnswer(i)
            /\ j \in 1..Len(inbox) /\ IsAnswer(j)
        BY <1>5, <3>1
      <4>2. QED
        BY <2>1, <4>1 DEF OneInTransit
    <3>2. QED
      BY <3>1 DEF IsAnswer
  <2>3. QED
    BY <1>6, <1>7, <2>1, <2>2 DEF OneInTransit, NothingSent, NothingAccepted
<1>9. InTransitIsLatest => InTransitIsLatest'
  BY <1>4, <1>5, <1>6 DEF InTransitIsLatest, IsAnswer
<1>10. QED
  BY <1>6, <1>7, <1>8, <1>9 DEF TransitInv, NothingSent, NothingAccepted

\* The signal task takes a message.
LEMMA TransitReceived ==
  ASSUME TypeInv, TransitInv, restarts = 0, ReceiveSignal
  PROVE  TransitInv'
<1> USE DEF transportVars, pcVars, signalVars
<1>1. inbox \in Seq(SignalMessage)
  BY TypeParts DEF TypeInv, TransportTypes
<1>2. /\ inbox # <<>> /\ inbox' = Tail(inbox) /\ msg' = Head(inbox)
      /\ handler = "idle" /\ handler' = msg'.kind
      /\ UNCHANGED <<toServer, localOffer, signaling_state, call, restarts>>
  BY DEF ReceiveSignal
<1>3. /\ Len(inbox) \in Nat /\ Len(inbox) > 0 /\ msg' = inbox[1]
      /\ Len(inbox') = Len(inbox) - 1
      /\ \A i \in 1..Len(inbox') : inbox'[i] = inbox[i + 1]
  BY <1>1, <1>2, QueueTypes
<1>4. \A i \in 1..Len(inbox') :
        inbox'[i].kind = "answer" => i + 1 \in 1..Len(inbox) /\ IsAnswer(i + 1)
  BY <1>3 DEF IsAnswer
<1>5. handler' = "answer" => IsAnswer(1)
  BY <1>2, <1>3 DEF IsAnswer
<1>6. NothingAnswered => NothingAnswered' /\ NothingAccepted'
  <2>1. SUFFICES ASSUME NothingAnswered
                 PROVE  NothingAnswered' /\ NothingAccepted'
    OBVIOUS
  <2>2. \A i \in 1..Len(inbox) : ~IsAnswer(i)
    BY <2>1 DEF NothingAnswered
  <2>3. 1 \in 1..Len(inbox)
    BY <1>3
  <2>4. QED
    BY <1>4, <1>5, <2>2, <2>3 DEF NothingAnswered, NothingAccepted, IsAnswer
<1>7. OneInTransit => OneInTransit'
  <2>1. SUFFICES ASSUME OneInTransit PROVE OneInTransit'
    OBVIOUS
  <2>2. NothingSent' \/ (Len(toServer') = 1 /\ NothingAnswered'
                           /\ NothingAccepted')
    BY <1>2, <1>6, <2>1 DEF OneInTransit, NothingSent
  <2>3. ASSUME NEW i \in 1..Len(inbox'), NEW j \in 1..Len(inbox'),
               inbox'[i].kind = "answer", inbox'[j].kind = "answer"
        PROVE  i = j
    <3>1. /\ i + 1 \in 1..Len(inbox) /\ IsAnswer(i + 1)
          /\ j + 1 \in 1..Len(inbox) /\ IsAnswer(j + 1)
      BY <1>4, <2>3
    <3>2. i + 1 = j + 1
      BY <2>1, <3>1 DEF OneInTransit
    <3>3. QED
      BY <3>2
  <2>4. NothingAnswered' \/ NothingAccepted'
    <3>1. ASSUME NEW i \in 1..Len(inbox'), inbox'[i].kind = "answer",
                 handler' = "answer"
          PROVE  FALSE
      <4>1. /\ i + 1 \in 1..Len(inbox) /\ IsAnswer(i + 1)
            /\ 1 \in 1..Len(inbox) /\ IsAnswer(1)
        BY <1>3, <1>4, <1>5, <3>1
      <4>2. i + 1 = 1
        BY <2>1, <4>1 DEF OneInTransit
      <4>3. QED
        BY <4>2
    <3>2. QED
      BY <3>1 DEF NothingAnswered, NothingAccepted, IsAnswer
  <2>5. QED
    BY <2>2, <2>3, <2>4 DEF OneInTransit, IsAnswer
<1>8. InTransitIsLatest => InTransitIsLatest'
  <2>1. SUFFICES ASSUME InTransitIsLatest PROVE InTransitIsLatest'
    OBVIOUS
  <2>2. ASSUME NEW i \in 1..Len(inbox'), inbox'[i].kind = "answer"
        PROVE  inbox'[i].number = localOffer'.number
    BY <1>2, <1>3, <1>4, <2>1, <2>2 DEF InTransitIsLatest
  <2>3. handler' = "answer" => msg'.number = localOffer'.number
    BY <1>2, <1>3, <1>5, <2>1 DEF InTransitIsLatest
  <2>4. QED
    BY <1>2, <2>1, <2>2, <2>3 DEF InTransitIsLatest, IsAnswer
<1>9. QED
  BY <1>2, <1>6, <1>7, <1>8 DEF TransitInv, NothingSent, NothingAccepted

\* An offer goes out: nothing else is under way.
LEMMA TransitOffered ==
  ASSUME TypeInv, LockInv, TransitInv, restarts = 0, NEW c \in Callers,
         OfferSetLocal(c)
  PROVE  TransitInv'
<1> USE DEF transportVars, pcVars, signalVars
<1>1. /\ localOffer \in Offer /\ call \in [Callers -> Results]
      /\ signaling_state \in {"stable", "have_local_offer", "closed"}
  BY TypeParts DEF TypeInv, TransportTypes
<1>2. signaling_state = "stable"
  BY <1>1 DEF OfferSetLocal, LockInv, Offering
<1>3. /\ toServer = <<>> /\ NothingAnswered /\ NothingAccepted
      /\ call[Restart] = "idle"
  BY <1>2 DEF TransitInv, NothingSent
<1>4. /\ toServer' = Append(toServer, localOffer)
      /\ signaling_state' = "have_local_offer"
      /\ UNCHANGED <<inbox, handler, msg, localOffer, restarts>>
      /\ call' = [call EXCEPT ![c] = "ok"] /\ call[c] = "set_local"
  BY DEF OfferSetLocal
<1>5. Len(toServer') = 1 /\ toServer'[1] = localOffer
  BY <1>3, <1>4
<1>6. call'[Restart] = "idle"
  BY <1>1, <1>3, <1>4, CallUpdate, Identities DEF Results
<1>7. NothingAnswered' /\ NothingAccepted'
  BY <1>3, <1>4 DEF NothingAnswered, NothingAccepted, IsAnswer
<1>8. OneInTransit'
  BY <1>5, <1>7 DEF OneInTransit, NothingAnswered
<1>9. InTransitIsLatest'
  BY <1>4, <1>5, <1>7 DEF InTransitIsLatest, NothingAnswered, NothingAccepted
<1>10. QED
  BY <1>4, <1>6, <1>8, <1>9 DEF TransitInv

\* The offer changes while nothing is under way.
LEMMA TransitCreated ==
  ASSUME TypeInv, LockInv, TransitInv, restarts = 0, NEW c \in Callers,
         OfferCreate(c)
  PROVE  TransitInv'
<1> USE DEF transportVars, pcVars, signalVars
<1>1. /\ call \in [Callers -> Results]
      /\ signaling_state \in {"stable", "have_local_offer", "closed"}
  BY TypeParts DEF TypeInv, TransportTypes
<1>2. signaling_state = "stable"
  BY <1>1 DEF OfferCreate, LockInv, Offering
<1>3. /\ toServer = <<>> /\ NothingAnswered /\ NothingAccepted
      /\ call[Restart] = "idle"
  BY <1>2 DEF TransitInv, NothingSent
<1>4. /\ UNCHANGED <<toServer, signaling_state, inbox, handler, msg, restarts>>
      /\ call' = [call EXCEPT ![c] = "set_local"] /\ call[c] = "create"
  BY DEF OfferCreate
<1>5. call'[Restart] = "idle"
  BY <1>1, <1>3, <1>4, CallUpdate, Identities DEF Results
<1>6. NothingSent' /\ NothingAnswered' /\ NothingAccepted'
  BY <1>3, <1>4 DEF NothingSent, NothingAnswered, NothingAccepted, IsAnswer
<1>7. OneInTransit' /\ InTransitIsLatest'
  BY <1>6 DEF OneInTransit, InTransitIsLatest, NothingSent, NothingAnswered,
              NothingAccepted
<1>8. QED
  BY <1>5, <1>6, <1>7 DEF TransitInv

\* The answer is applied, or refused, and is gone.
LEMMA TransitApplied ==
  ASSUME TypeInv, TransitInv, restarts = 0, SetRemoteDescription
  PROVE  /\ TransitInv'
         /\ remote' # remote => remote'.number = localOffer.number
<1> USE DEF transportVars, pcVars, signalVars
<1>1. call \in [Callers -> Results]
  BY TypeParts DEF TypeInv, TransportTypes
<1>2. /\ handler = "answer" /\ handler' # "answer"
      /\ UNCHANGED <<toServer, inbox, localOffer, restarts>>
      /\ UNCHANGED call \/ call' = [call EXCEPT ![Signal] = "lock"]
      /\ UNCHANGED signaling_state \/ signaling_state' = "stable"
      /\ UNCHANGED remote \/ remote'.number = msg.number
  BY DEF SetRemoteDescription
<1>3. /\ toServer = <<>> /\ NothingAnswered
      /\ msg.number = localOffer.number /\ call[Restart] = "idle"
  BY <1>2 DEF TransitInv, OneInTransit, InTransitIsLatest, NothingSent,
              NothingAccepted
<1>4. call'[Restart] = "idle"
  BY <1>1, <1>2, <1>3, Identities
<1>5. NothingSent' /\ NothingAnswered' /\ NothingAccepted'
  BY <1>2, <1>3 DEF NothingSent, NothingAnswered, NothingAccepted, IsAnswer
<1>6. OneInTransit' /\ InTransitIsLatest'
  BY <1>5 DEF OneInTransit, InTransitIsLatest, NothingSent, NothingAnswered,
              NothingAccepted
<1>7. QED
  BY <1>2, <1>3, <1>4, <1>5, <1>6 DEF TransitInv

LEMMA NextTransitInv ==
  ASSUME TypeInv, LockInv, TransitInv, [Next]_vars
  PROVE  /\ TransitInv'
         /\ restarts = 0 =>
              (remote' # remote => remote'.number = localOffer.number)
<1> USE DEF transportVars, pcVars, signalVars
<1>0. /\ call \in [Callers -> Results] /\ restarts \in 0..MaxRestarts
      /\ toServer \in Seq(Offer) /\ MaxRestarts \in Nat
  BY TypeParts, Bounds DEF TypeInv, TransportTypes
<1> DEFINE Goal == /\ TransitInv'
                   /\ restarts = 0 =>
                        (remote' # remote => remote'.number = localOffer.number)
<1>1. CASE AboveStep
  <2>1. /\ UNCHANGED ptRest /\ call'[Restart] = call[Restart]
    BY <1>1, AboveStepEffect, Identities DEF TypeInv
  <2>2. restarts = 0 => call'[Restart] = "idle"
    BY <2>1 DEF TransitInv
  <2>3. QED
    BY <2>1, <2>2, TransitUntouched DEF ptRest
<1>2. ASSUME NEW c \in Callers, OfferStep(c) PROVE Goal
  <2>1. UNCHANGED <<remote, restarts>>
    BY <1>2 DEF OfferStep, OfferLock, OfferFail, OfferCreate, OfferSetLocal
  <2>2. CASE restarts # 0
    BY <2>1, <2>2 DEF TransitInv
  <2>3. CASE restarts = 0
    <3>1. CASE OfferLock(c) \/ OfferFail(c)
      <4>1. c # Restart
        BY <2>3, <3>1 DEF TransitInv, OfferLock, OfferFail
      <4>2. call'[Restart] = "idle"
        <5>1. PICK to \in Results : call' = [call EXCEPT ![c] = to]
          BY <3>1 DEF OfferLock, OfferFail, Results
        <5>2. call'[Restart] = call[Restart]
          BY <1>0, <4>1, <5>1, CallUpdate, Identities
        <5>3. QED
          BY <2>3, <5>2 DEF TransitInv
      <4>3. signaling_state' = signaling_state
        BY <3>1, <4>1 DEF OfferLock, OfferFail, RollsBack
      <4>4. UNCHANGED <<toServer, inbox, localOffer, handler, msg>>
        BY <3>1 DEF OfferLock, OfferFail
      <4>5. QED
        BY <2>1, <4>2, <4>3, <4>4, TransitUntouched
    <3>2. CASE OfferCreate(c)
      BY <2>1, <2>3, <3>2, TransitCreated
    <3>3. CASE OfferSetLocal(c)
      BY <2>1, <2>3, <3>3, TransitOffered
    <3>4. QED
      BY <1>2, <3>1, <3>2, <3>3 DEF OfferStep
  <2>4. QED
    BY <2>2, <2>3
<1>3. CASE RestartPublisher
  <2>1. restarts' = restarts + 1 /\ UNCHANGED remote
    BY <1>3 DEF RestartPublisher
  <2>2. restarts' # 0
    BY <1>0, <2>1
  <2>3. QED
    BY <2>1, <2>2 DEF TransitInv
<1>4. CASE RestartPublisherDone
  <2>1. call[Restart] # "idle" /\ UNCHANGED <<remote, restarts>>
    BY <1>4 DEF RestartPublisherDone, OfferReturn
  <2>2. restarts # 0
    BY <2>1 DEF TransitInv
  <2>3. QED
    BY <2>1, <2>2 DEF TransitInv
<1>5. CASE SetRemoteDescription
  <2>1. UNCHANGED restarts
    BY <1>5 DEF SetRemoteDescription
  <2>2. QED
    BY <1>5, <2>1, TransitApplied DEF TransitInv
<1>6. CASE ReceiveSignal \/ ServerAnswer \/ ServerTrickle
  <2>1. UNCHANGED <<remote, restarts>>
    BY <1>6 DEF ReceiveSignal, ServerAnswer, ServerTrickle
  <2>2. QED
    BY <1>6, <2>1, TransitReceived, TransitAnswered, TransitTrickled
    DEF TransitInv
<1>7. CASE LoseOffer
  <2>1. /\ toServer # <<>> /\ toServer' = Tail(toServer)
        /\ UNCHANGED <<inbox, localOffer, handler, msg, signaling_state,
                       restarts, call, remote>>
    BY <1>7 DEF LoseOffer
  <2>2. CASE restarts = 0
    <3>1. Len(toServer) = 1
      BY <2>1, <2>2 DEF TransitInv, OneInTransit, NothingSent
    <3>2. toServer' = <<>>
      BY <1>0, <2>1, <3>1
    <3>3. Len(toServer') = 0
      BY <3>2
    <3>4. QED
      BY <2>1, <2>2, <3>2, <3>3
      DEF TransitInv, OneInTransit, InTransitIsLatest, NothingSent,
          NothingAnswered, NothingAccepted, IsAnswer
  <2>3. QED
    BY <2>1, <2>2 DEF TransitInv
<1>8. CASE AnswerDone \/ AddIceCandidate \/ AddToConnection \/ ClosePc
  <2>1. /\ UNCHANGED <<toServer, inbox, localOffer, remote, restarts>>
        /\ handler' # "answer" \/ (handler' = handler /\ UNCHANGED msg)
        /\ signaling_state' \in {signaling_state, "closed"}
    BY <1>8 DEF AnswerDone, AddIceCandidate, AddToConnection, ClosePc
  <2>2. call'[Restart] = call[Restart]
    BY <1>0, <1>8, Identities
    DEF AnswerDone, AddIceCandidate, AddToConnection, ClosePc
  <2>3. restarts = 0 => call'[Restart] = "idle"
    BY <2>2 DEF TransitInv
  <2>4. QED
    BY <2>1, <2>3, TransitUntouched
<1>9. QED
  BY <1>1, <1>2, <1>3, <1>4, <1>5, <1>6, <1>7, <1>8, StepCases

\* Before the first ICE restart, the answer that becomes the remote
\* description answers the offer that is outstanding: at most one offer or
\* answer is under way, and only while its offer is outstanding.
THEOREM AnswersMatch == Spec => AnswerMatchesOffer
<1>1. Init => TransitInv
  <2>1. SUFFICES ASSUME Init PROVE TransitInv
    OBVIOUS
  <2>2. /\ toServer = <<>> /\ inbox = <<>> /\ handler = "idle"
        /\ call = [c \in Callers |-> "idle"]
    BY <2>1 DEF Init, PTInit
  <2>3. call[Restart] = "idle"
    BY <2>2, Identities
  <2>4. Len(toServer) = 0 /\ Len(inbox) = 0
    BY <2>2
  <2>5. QED
    BY <2>2, <2>3, <2>4
    DEF TransitInv, OneInTransit, InTransitIsLatest, NothingSent,
        NothingAnswered, NothingAccepted, IsAnswer
<1>2. TypeInv /\ LockInv /\ TransitInv /\ [Next]_vars => TransitInv'
  BY NextTransitInv
<1>3. TypeInv /\ LockInv /\ TransitInv /\ [Next]_vars =>
        [remote' # remote /\ restarts = 0 =>
           remote'.number = localOffer.number]_vars
  BY NextTransitInv
<1>4. QED
  BY <1>1, <1>2, <1>3, SpecTypeInv, SpecLockInv, PTL
  DEF Spec, AnswerMatchesOffer
=============================================================================
