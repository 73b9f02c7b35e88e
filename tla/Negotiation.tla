----------------------------- MODULE Negotiation -----------------------------
(***************************************************************************)
(* Publisher negotiation of RtcSession (livekit/src/rtc_engine/            *)
(* rtc_session.rs) on top of PeerTransport.                                *)
(*                                                                         *)
(* Application tasks ask for a negotiation after each media change         *)
(* (publisher_negotiation_needed).  With fast_publish a negotiation task   *)
(* sends an offer, waits for the answer and goes round again while a retry *)
(* is pending; otherwise requests are debounced.  The flags of the         *)
(* NegotiationQueue are separate atomics and a mutex, read and written in  *)
(* separate steps as in the code.                                          *)
(***************************************************************************)
EXTENDS PeerTransport

CONSTANTS
  Publishers,  \* application tasks that change the published media
  Tasks,       \* identities for spawned negotiation tasks
  Debounce,    \* the caller identity of the debounced negotiation
  FastPublish, \* the values of fast_publish the JoinResponse may carry
  MaxChanges   \* bound on the media changes

ASSUME NegotiationAssumption ==
  /\ Offerers = Tasks \cup {Debounce}
  /\ Debounce \notin Tasks
  /\ FastPublish \subseteq BOOLEAN
  /\ MaxChanges \in Nat

VARIABLES
  state,              \* NegotiationQueue.state
  permit,             \* the stored permit of NegotiationQueue.waker
  task_running,       \* NegotiationQueue.task_running
  waiting_for_answer, \* NegotiationQueue.waiting_for_answer
  task,               \* where each spawned negotiation task is
  debouncer,          \* the latest debounce task
  app,                \* where each publisher is in its request
  fast_publish        \* SessionInner.fast_publish

queueVars == <<state, permit, task_running, waiting_for_answer, task>>
\* What a behaviour chooses at its start.
chosen == <<fast_publish, faults>>
vars == <<ptVars, queueVars, debouncer, app, chosen>>

\* Everything of the transport except call (and what a request counts).
ptRest == <<lock, renegotiate, restarting_ice, pending_candidates, pcVars,
            signalVars, restarts>>

-----------------------------------------------------------------------------
(***************************************************************************)
(* Requests                                                                *)
(***************************************************************************)

\* debounce_negotiation: start a debouncer if there is none or call() on the
\* last one fails.  A call() reaches a running debouncer's channel without
\* error; only the timer loop reads it, to start the delay again.
DebounceNegotiation ==
  debouncer' = IF debouncer \in {"none", "finished"} THEN "timer"
                                                     ELSE debouncer

\* publisher_negotiation_needed after a media change, up to the load of
\* waiting_for_answer.
NegotiationNeeded(p) ==
  /\ app[p] = "idle"
  /\ wanted < MaxChanges
  /\ wanted' = wanted + 1
  /\ \/ /\ fast_publish
        /\ app' = [app EXCEPT
                     ![p] = IF waiting_for_answer THEN "mark" ELSE "queue"]
        /\ UNCHANGED debouncer
     \/ /\ ~fast_publish
        /\ DebounceNegotiation
        /\ UNCHANGED app
  /\ UNCHANGED <<ptRest, call, queueVars, chosen>>

\* The rest of it when an answer was awaited: mark for retry.
MarkRetry(p) ==
  /\ app[p] = "mark"
  /\ state' = "PendingRetry"
  /\ app' = [app EXCEPT ![p] = "idle"]
  /\ UNCHANGED <<ptVars, permit, task_running, waiting_for_answer, task,
                 debouncer, chosen>>

\* Whether queue_negotiation spawns a task.
MayStart == state = "Idle" /\ ~task_running

\* queue_negotiation, under the mutex of the state.
QueueNegotiation(p) ==
  /\ app[p] = "queue"
  /\ app' = [app EXCEPT ![p] = "idle"]
  /\ task_running' = (task_running \/ state = "Idle")
  /\ \/ /\ MayStart
        /\ state' = "InProgress"
        /\ \E t \in Tasks : /\ task[t] = "none"
                            /\ task' = [task EXCEPT ![t] = "start"]
     \/ /\ ~MayStart
        /\ state' = "PendingRetry"
        /\ UNCHANGED task
  /\ UNCHANGED <<ptVars, permit, waiting_for_answer, debouncer, chosen>>

-----------------------------------------------------------------------------
(***************************************************************************)
(* execute_negotiation_with_retry                                          *)
(***************************************************************************)
TaskStart(t) ==
  /\ task[t] = "start"
  /\ waiting_for_answer' = TRUE
  /\ OfferCall(t)
  /\ task' = [task EXCEPT ![t] = "offer"]
  /\ UNCHANGED <<ptRest, wanted, state, permit, task_running, debouncer, app,
                 chosen>>

TaskOfferSent(t) ==
  /\ task[t] = "offer"
  /\ OfferReturn(t, "ok")
  /\ task' = [task EXCEPT ![t] = "wait"]
  /\ UNCHANGED <<ptRest, wanted, state, permit, task_running,
                 waiting_for_answer, debouncer, app, chosen>>

TaskOfferFailed(t) ==
  /\ task[t] = "offer"
  /\ OfferReturn(t, "err")
  /\ waiting_for_answer' = FALSE
  /\ task' = [task EXCEPT ![t] = "decide"]
  /\ UNCHANGED <<ptRest, wanted, state, permit, task_running, debouncer, app,
                 chosen>>

\* waker.notified(): "answer received successfully".
TaskNotified(t) ==
  /\ task[t] = "wait"
  /\ permit
  /\ permit' = FALSE
  /\ task' = [task EXCEPT ![t] = "decide"]
  /\ UNCHANGED <<ptVars, state, task_running, waiting_for_answer, debouncer,
                 app, chosen>>

\* "timeout waiting for answer".
TaskTimeout(t) ==
  /\ "late answer" \in faults
  /\ task[t] = "wait"
  /\ waiting_for_answer' = FALSE
  /\ task' = [task EXCEPT ![t] = "decide"]
  /\ UNCHANGED <<ptVars, state, permit, task_running, debouncer, app,
                 chosen>>

\* Broken variants of TaskDecide: a pending retry is forgotten; the state stays
\* InProgress when the loop ends.
TaskDecideForgets(t) ==
  /\ task[t] = "decide"
  /\ state' = "Idle"
  /\ task' = [task EXCEPT ![t] = "exit"]
  /\ UNCHANGED <<ptVars, permit, task_running, waiting_for_answer, debouncer,
                 app, chosen>>
TaskDecideKeepsState(t) ==
  /\ task[t] = "decide"
  /\ task' = [task EXCEPT ![t] = "exit"]
  /\ UNCHANGED <<ptVars, state, permit, task_running, waiting_for_answer,
                 debouncer, app, chosen>>

\* Under the mutex of the state: another round, or the loop ends.
TaskDecide(t) ==
  /\ task[t] = "decide"
  /\ \/ /\ state = "PendingRetry"
        /\ state' = "InProgress"
        /\ task' = [task EXCEPT ![t] = "start"]
     \/ /\ state # "PendingRetry"
        /\ state' = "Idle"
        /\ task' = [task EXCEPT ![t] = "exit"]
  /\ UNCHANGED <<ptVars, permit, task_running, waiting_for_answer, debouncer,
                 app, chosen>>

\* The spawned closure after the loop.
TaskExit(t) ==
  /\ task[t] = "exit"
  /\ task_running' = FALSE
  /\ task' = [task EXCEPT ![t] = "none"]
  /\ UNCHANGED <<ptVars, state, permit, waiting_for_answer, debouncer, app,
                 chosen>>

-----------------------------------------------------------------------------
(***************************************************************************)
(* The debounced negotiation                                               *)
(***************************************************************************)
DebounceFire ==
  /\ debouncer = "timer"
  /\ debouncer' = "run"
  /\ OfferCall(Debounce)
  /\ UNCHANGED <<ptRest, wanted, queueVars, app, chosen>>

DebounceDone ==
  /\ debouncer = "run"
  /\ \E result \in {"ok", "err"} : OfferReturn(Debounce, result)
  /\ debouncer' = "finished"
  /\ UNCHANGED <<ptRest, wanted, queueVars, app, chosen>>

-----------------------------------------------------------------------------
\* A broken variant of Wake: only a loop that waits already is woken, as
\* notify_waiters would do.
WakeWaiters(notify) ==
  /\ waiting_for_answer' = (waiting_for_answer /\ ~notify)
  /\ permit' = (permit \/ (notify /\ \E t \in Tasks : task[t] = "wait"))

\* The awaited answer is here: the flag is cleared and the loop is notified.
Wake(notify) ==
  /\ waiting_for_answer' = (waiting_for_answer /\ ~notify)
  /\ permit' = (permit \/ notify)

\* The handler of an answer after set_remote_description succeeded; an error
\* of the nested offer is returned before the notification.
AnswerReceived ==
  /\ AnswerDone
  /\ Wake(fast_publish /\ waiting_for_answer /\ call[Signal] # "err")
  /\ UNCHANGED <<state, task_running, task, debouncer, app, chosen>>

AboveUnchanged == UNCHANGED <<queueVars, debouncer, app, chosen>>

\* A step of the transport or of its environment.
TransportStep ==
  /\ \/ \E c \in Callers : OfferStep(c)
     \/ RestartPublisher
     \/ RestartPublisherDone
     \/ SignalStep
     \/ ServerStep
     \/ LoseOffer
     \/ ClosePc
  /\ AboveUnchanged

AppStep(p) == NegotiationNeeded(p) \/ MarkRetry(p) \/ QueueNegotiation(p)

TaskStep(t) ==
  \/ TaskStart(t)
  \/ TaskOfferSent(t)
  \/ TaskOfferFailed(t)
  \/ TaskNotified(t)
  \/ TaskTimeout(t)
  \/ TaskDecide(t)
  \/ TaskExit(t)

Init ==
  /\ PTInit
  /\ state = "Idle"
  /\ permit = FALSE
  /\ task_running = FALSE
  /\ waiting_for_answer = FALSE
  /\ task = [t \in Tasks |-> "none"]
  /\ debouncer = "none"
  /\ app = [p \in Publishers |-> "idle"]
  /\ fast_publish \in FastPublish

Next ==
  \/ \E p \in Publishers : AppStep(p)
  \/ \E t \in Tasks : TaskStep(t)
  \/ DebounceFire
  \/ DebounceDone
  \/ AnswerReceived
  \/ TransportStep

Spec == Init /\ [][Next]_vars

\* Every runnable task is polled and the server answers; nobody has to change
\* media, restart ICE, lose an offer or close.  Requests, restarts, candidates
\* and so rounds are finite in number: a behaviour ends in a state where none
\* of these steps is possible, so one fairness condition for all of them is as
\* strong as one for each.
Fairness ==
  WF_vars(\/ \E p \in Publishers : MarkRetry(p) \/ QueueNegotiation(p)
          \/ \E t \in Tasks : TaskStep(t)
          \/ DebounceFire
          \/ DebounceDone
          \/ AnswerReceived
          \/ /\ \/ RestartPublisherDone
                \/ \E c \in Callers : OfferStep(c)
                \/ SignalStep
                \/ ServerAnswer
             /\ AboveUnchanged)

FairSpec == Spec /\ Fairness

-----------------------------------------------------------------------------
(***************************************************************************)
(* Properties                                                              *)
(***************************************************************************)
TypeOK ==
  /\ lock \in Callers \cup {Free}
  /\ renegotiate \in BOOLEAN
  /\ restarting_ice \in BOOLEAN
  /\ call \in [Callers -> {"idle", "lock", "create", "set_local", "ok", "err"}]
  /\ pending_candidates \in Seq(SignalMessage)
  /\ signaling_state \in {"stable", "have_local_offer", "closed"}
  /\ localOffer \in Offer
  /\ toServer \in Seq(Offer)
  /\ inbox \in Seq(SignalMessage)
  /\ msg \in SignalMessage \cup {NoMsg}
  /\ serverGen \in Nat
  /\ trickled \in [Generations -> Nat]
  /\ handler \in {"idle", "answer", "answered", "candidate", "adding"}
  /\ wanted \in 0..MaxChanges
  /\ restarts \in 0..MaxRestarts
  /\ state \in {"Idle", "InProgress", "PendingRetry"}
  /\ permit \in BOOLEAN
  /\ task_running \in BOOLEAN
  /\ waiting_for_answer \in BOOLEAN
  /\ task \in [Tasks -> {"none", "start", "offer", "wait", "decide", "exit"}]
  /\ debouncer \in {"none", "timer", "run", "finished"}
  /\ app \in [Publishers -> {"idle", "mark", "queue"}]
  /\ fast_publish \in FastPublish
  /\ faults \in FaultSets

Live(t) == task[t] # "none"

\* A task that will look at the state again before it ends.
WillDecide(t) == task[t] \in {"start", "offer", "wait", "decide"}

\* task_running keeps two negotiation loops from running at once, although it
\* is reset outside the mutex that guards the state.
SingleNegotiator == \A t, u \in Tasks : Live(t) /\ Live(u) => t = u

\* The state says InProgress only while a loop will look at it again: no
\* interleaving of publishers, timeouts and answers leaves the queue
\* InProgress with nobody in charge.
InProgressHasTask ==
  state = "InProgress" => \E t \in Tasks : WillDecide(t)

\* The answer to the outstanding offer is still to come: the server has the
\* offer before it, or the answer is on its way or in the signal task's hands.
AnswerUnderWay ==
  LET n == localOffer.number
  IN \/ \E i \in 1..Len(toServer) : toServer[i].number = n
     \/ \E i \in 1..Len(inbox) : /\ inbox[i].kind = "answer"
                                 /\ inbox[i].number = n
     \/ handler = "answer" /\ msg.number = n

\* While no offer is lost and no call of the peer connection fails, a note to
\* renegotiate is left only on an offer whose answer is still to come, so the
\* handler of that answer takes it, or while an ICE restart, which rolled that
\* offer back, makes the next one.  (That the handler then makes the offer the
\* note asks for is not said: it calls create_and_send_offer with the mutex
\* held that create_and_send_offer locks.)
RenegotiateWillBeRead ==
  renegotiate /\ ~CanFail /\ "lost offer" \notin faults =>
    \/ signaling_state = "have_local_offer" /\ AnswerUnderWay
    \/ signaling_state = "closed"
    \/ call[Restart] \in {"create", "set_local"}

\* The answer accepted as remote description is the answer to the offer the
\* peer connection has outstanding, however calls, timeouts and lost offers
\* interleave, as long as no ICE restart rolls an offer back (the server does
\* not learn of the rollback and answers both offers).
AnswerMatchesOffer ==
  [][remote' # remote /\ restarts = 0 =>
       remote'.number = localOffer.number]_vars

\* Every candidate the server sent is on its way, being handled, kept until a
\* remote description is set, or with the peer connection, unless a call of
\* the peer connection failed on it or on one drained before it.
CandidateConservation ==
  \A g \in Generations : \A i \in 1..trickled[g] :
    LET c == [kind |-> "candidate", gen |-> g, index |-> i]
    IN \/ c \in CandidatesIn(inbox)
       \/ c = msg
       \/ c \in CandidatesIn(pending_candidates)
       \/ c \in applied \cup refused

\* Candidates are kept back only while there is no remote description or ICE
\* is restarting: none is stranded once the description is in place.
PendingOnlyWhileNeeded ==
  pending_candidates # <<>> => remote.number = 0 \/ restarting_ice

\* The peer connection, the server and the clock do what is expected.
Timely == faults = {}

\* A negotiation loop ends while answers come in time, unless an ICE restart
\* was asked for: the handler of the awaited answer may then wait for ever for
\* the mutex that it holds (SetRemoteDescription, with the note set).
NegotiatorTerminates ==
  Timely => (task_running ~> (~task_running \/ restarts > 0))

\* A retry marked while a loop is running is honoured: an offer is made that
\* covers the media change it was marked for.
RetryHonoured ==
  Timely => \A n \in 1..MaxChanges :
    (/\ wanted = n
     /\ state = "PendingRetry"
     /\ \E t \in Tasks : WillDecide(t)
     /\ \A p \in Publishers : app[p] = "idle")
      ~> (localOffer.version >= n \/ restarts > 0)

=============================================================================
