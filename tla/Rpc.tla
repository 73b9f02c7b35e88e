-------------------------------- MODULE Rpc --------------------------------
(***************************************************************************)
(* Remote procedure calls between two participants: perform_rpc and the    *)
(* handle_incoming_rpc_* functions of livekit/src/room/participant/        *)
(* local_participant.rs, with the tasks of livekit/src/room/mod.rs.        *)
(*                                                                         *)
(* The caller registers two oneshot channels under the id of the request,  *)
(* publishes it and waits for the acknowledgement, then for the response,  *)
(* each with a timer.  The callee spawns a task per request, which         *)
(* acknowledges it, runs the handler and publishes the response.           *)
(*                                                                         *)
(* Both directions are reliable channels, used as in DataStreams: a packet *)
(* whose send failed may be kept for a retry and a resume sends a tail     *)
(* again.  Payloads, versions and the lengths of timers are left out: a    *)
(* timer may fire whenever it runs and nothing has arrived.                *)
(***************************************************************************)
EXTENDS Naturals, Sequences, FiniteSets

CONSTANTS
  Calls,       \* ids of requests
  MaxFailures, \* errors of publish_data in all
  MaxResumes,  \* resumes of the participants in all
  MaxTail,     \* packets that a resume sends again
  Cancellable  \* calls whose caller may drop the future of perform_rpc

ASSUME RpcAssumption ==
  /\ MaxFailures \in Nat
  /\ MaxResumes \in Nat
  /\ MaxTail \in Nat
  /\ Cancellable \subseteq Calls

Sides == {"caller", "callee"}
\* A value or an error of the handler; UNSUPPORTED_METHOD.
Outcomes == {"answer", "unsupported"}
Results == Outcomes \cup {"failed", "abandoned"}

VARIABLES
  call,              \* where a call of perform_rpc is
  result,            \* what it has returned
  pending_acks,      \* RpcState.pending_acks
  pending_responses, \* RpcState.pending_responses
  acked,             \* calls whose ack_rx has a value
  responses,         \* the value in response_rx of a call
  tasks,             \* tasks of the callee for the requests of a call
  answers,           \* history: what the callee has answered to a call
  unseen,            \* [Sides]: what a side tried to send since the last of
                     \* its packets that has arrived
  net,               \* [Sides]: what is on its way from a side, with the
                     \* place in unseen, 0 for a packet that has arrived
  failures,          \* errors of publish_data so far
  resumes            \* resumes so far

callerVars == <<call, result, pending_acks, pending_responses, acked,
                responses>>
calleeVars == <<tasks, answers>>
netVars == <<unseen, net, failures>>
vars == <<callerVars, calleeVars, netVars, resumes>>

Message(type, c, outcome) == [type |-> type, call |-> c, outcome |-> outcome]

\* publish_data returns Ok.
PublishOk(side, m) ==
  /\ unseen' = [unseen EXCEPT ![side] = Append(@, m)]
  /\ net' = [net EXCEPT ![side] =
               Append(@, [message |-> m, place |-> Len(unseen[side]) + 1])]
  /\ UNCHANGED failures

\* publish_data returns an error; the packet may be kept for a retry.
PublishError(side, m) ==
  /\ failures < MaxFailures
  /\ failures' = failures + 1
  /\ \/ unseen' = [unseen EXCEPT ![side] = Append(@, m)]
     \/ UNCHANGED unseen
  /\ UNCHANGED net

Publish(side, m) == PublishOk(side, m) \/ PublishError(side, m)

-----------------------------------------------------------------------------
(***************************************************************************)
(* perform_rpc                                                             *)
(***************************************************************************)

\* Both channels are registered before the request is sent.
PerformRpc(c) ==
  /\ call[c] = "idle"
  /\ call' = [call EXCEPT ![c] = "publishing"]
  /\ pending_acks' = pending_acks \cup {c}
  /\ pending_responses' = pending_responses \cup {c}
  /\ UNCHANGED <<result, acked, responses, calleeVars, netVars, resumes>>

\* The call is over and has this result; ack_rx and response_rx are dropped.
ReturnWith(c, r) ==
  /\ call' = [call EXCEPT ![c] = "done"]
  /\ result' = [result EXCEPT ![c] = r]
  /\ acked' = acked \ {c}
  /\ responses' = [responses EXCEPT ![c] = "none"]

RequestSent(c) ==
  /\ call[c] = "publishing"
  /\ PublishOk("caller", Message("request", c, "none"))
  /\ call' = [call EXCEPT ![c] = "acking"]
  /\ UNCHANGED <<result, pending_acks, pending_responses, acked, responses,
                 calleeVars, resumes>>

\* SendFailed.
RequestFailed(c) ==
  /\ call[c] = "publishing"
  /\ PublishError("caller", Message("request", c, "none"))
  /\ ReturnWith(c, "failed")
  /\ pending_acks' = pending_acks \ {c}
  /\ pending_responses' = pending_responses \ {c}
  /\ UNCHANGED <<calleeVars, resumes>>

AckReceived(c) ==
  /\ call[c] = "acking"
  /\ c \in acked
  /\ call' = [call EXCEPT ![c] = "responding"]
  /\ acked' = acked \ {c}
  /\ UNCHANGED <<result, pending_acks, pending_responses, responses,
                 calleeVars, netVars, resumes>>

\* The timer fires before a value has arrived; the entries are removed later,
\* under their lock.
TimerFires(c) ==
  /\ \/ /\ call[c] = "acking"
        /\ c \notin acked
        /\ call' = [call EXCEPT ![c] = "unacked"]
     \/ /\ call[c] = "responding"
        /\ responses[c] = "none"
        /\ call' = [call EXCEPT ![c] = "unanswered"]
  /\ UNCHANGED <<result, pending_acks, pending_responses, acked, responses,
                 calleeVars, netVars, resumes>>

\* A broken variant of AckTimedOut: the response is still expected.
AckTimedOutHalf(c) ==
  /\ call[c] = "unacked"
  /\ ReturnWith(c, "failed")
  /\ pending_acks' = pending_acks \ {c}
  /\ UNCHANGED pending_responses

\* ConnectionTimeout, also when the response has arrived meanwhile.
AckTimedOut(c) ==
  /\ call[c] = "unacked"
  /\ ReturnWith(c, "failed")
  /\ pending_acks' = pending_acks \ {c}
  /\ pending_responses' = pending_responses \ {c}

\* ResponseTimeout.
ResponseTimedOut(c) ==
  /\ call[c] = "unanswered"
  /\ ReturnWith(c, "failed")
  /\ pending_responses' = pending_responses \ {c}
  /\ UNCHANGED pending_acks

TimedOut(c) ==
  /\ AckTimedOut(c) \/ ResponseTimedOut(c)
  /\ UNCHANGED <<calleeVars, netVars, resumes>>

ResponseReceived(c) ==
  /\ call[c] = "responding"
  /\ responses[c] # "none"
  /\ ReturnWith(c, responses[c])
  /\ UNCHANGED <<pending_acks, pending_responses, calleeVars, netVars, resumes>>

\* The future is dropped: nobody removes its entries.
Cancel(c) ==
  /\ c \in Cancellable
  /\ call[c] \in {"publishing", "acking", "responding"}
  /\ ReturnWith(c, "abandoned")
  /\ UNCHANGED <<pending_acks, pending_responses, calleeVars, netVars, resumes>>

-----------------------------------------------------------------------------
(***************************************************************************)
(* What arrives                                                            *)
(***************************************************************************)

\* The message that arrives from side.
Arriving(side) == Head(net[side]).message

\* A packet on its way, when what is unseen starts after the place n.
Shifted(e, n) == [e EXCEPT !.place = IF @ > n THEN @ - n ELSE 0]

\* The next message from side, of this type, arrives.
Arrives(side, type) ==
  /\ net[side] # <<>>
  /\ Arriving(side).type = type
  /\ LET n == Head(net[side]).place
     IN /\ unseen' = [unseen EXCEPT ![side] = SubSeq(@, n + 1, Len(@))]
        /\ net' = [net EXCEPT ![side] =
                     [i \in 1..(Len(@) - 1) |-> Shifted(@[i + 1], n)]]
  /\ UNCHANGED failures

\* EngineEvent::RpcRequest: a task is spawned, for a repeated request too.
OnRequest ==
  /\ Arrives("caller", "request")
  /\ tasks' = [tasks EXCEPT ![Arriving("caller").call] = Append(@, "ack")]
  /\ UNCHANGED <<callerVars, answers, resumes>>

\* Calls whose ack_rx and response_rx are still there.
Awaiting == {c \in Calls : call[c] # "done"}

\* handle_incoming_rpc_ack.
OnAck ==
  /\ Arrives("callee", "ack")
  /\ LET c == Arriving("callee").call
     IN /\ acked' = acked \cup ({c} \cap pending_acks \cap Awaiting)
        /\ pending_acks' = pending_acks \ {c}
  /\ UNCHANGED <<call, result, pending_responses, responses, calleeVars,
                 resumes>>

\* A broken variant of Recipients: whoever waits gets the response.
RecipientsAny(c) == pending_responses

\* The call a response is for, if it is expected.
Recipients(c) == pending_responses \cap {c}

\* handle_incoming_rpc_response.
OnResponse ==
  /\ Arrives("callee", "response")
  /\ LET m == Arriving("callee")
         R == Recipients(m.call)
     IN /\ responses' = [c \in Calls |-> IF c \in R \cap Awaiting
                                         THEN m.outcome
                                         ELSE responses[c]]
        /\ pending_responses' = pending_responses \ R
  /\ UNCHANGED <<call, result, pending_acks, acked, calleeVars, resumes>>

-----------------------------------------------------------------------------
(***************************************************************************)
(* handle_incoming_rpc_request                                             *)
(***************************************************************************)
GoesTo(c, i, from, to) ==
  /\ tasks[c][i] = from
  /\ tasks' = [tasks EXCEPT ![c][i] = to]

\* publish_rpc_ack; a failure is logged.
SendAck(c, i) ==
  /\ GoesTo(c, i, "ack", "run")
  /\ Publish("callee", Message("ack", c, "none"))
  /\ UNCHANGED <<callerVars, answers, resumes>>

\* The handler looked up now runs to its end, or panics.  The application may
\* have registered or unregistered the method meanwhile.
RunHandler(c, i) ==
  /\ \E o \in Outcomes : /\ GoesTo(c, i, "run", o)
                         /\ answers' = [answers EXCEPT ![c] = @ \cup {o}]
  /\ UNCHANGED <<callerVars, netVars, resumes>>

\* publish_rpc_response; a failure is logged.
SendResponse(c, i) ==
  /\ tasks[c][i] \in Outcomes
  /\ GoesTo(c, i, tasks[c][i], "done")
  /\ Publish("callee", Message("response", c, tasks[c][i]))
  /\ UNCHANGED <<callerVars, answers, resumes>>

\* The server lacks what is unseen, and the retry queue holds a tail of it.
Resume(side) ==
  /\ resumes < MaxResumes
  /\ resumes' = resumes + 1
  /\ \E k \in 1..Len(unseen[side]) :
       /\ k + MaxTail > Len(unseen[side])
       /\ net' = [net EXCEPT ![side] =
                   @ \o [i \in 1..(Len(unseen[side]) - k + 1) |->
                          [message |-> unseen[side][k + i - 1],
                           place |-> k + i - 1]]]
  /\ UNCHANGED <<callerVars, calleeVars, unseen, failures>>

-----------------------------------------------------------------------------
Init ==
  /\ call = [c \in Calls |-> "idle"]
  /\ result = [c \in Calls |-> "none"]
  /\ pending_acks = {}
  /\ pending_responses = {}
  /\ acked = {}
  /\ responses = [c \in Calls |-> "none"]
  /\ tasks = [c \in Calls |-> <<>>]
  /\ answers = [c \in Calls |-> {}]
  /\ unseen = [s \in Sides |-> <<>>]
  /\ net = [s \in Sides |-> <<>>]
  /\ failures = 0
  /\ resumes = 0

CallStep(c) ==
  \/ RequestSent(c)
  \/ RequestFailed(c)
  \/ AckReceived(c)
  \/ TimerFires(c)
  \/ TimedOut(c)
  \/ ResponseReceived(c)

TaskStep(c, i) == SendAck(c, i) \/ RunHandler(c, i) \/ SendResponse(c, i)

Arrival == OnRequest \/ OnAck \/ OnResponse

Next ==
  \/ \E c \in Calls : \/ PerformRpc(c)
                      \/ CallStep(c)
                      \/ Cancel(c)
                      \/ \E i \in DOMAIN tasks[c] : TaskStep(c, i)
  \/ Arrival
  \/ \E s \in Sides : Resume(s)

Spec == Init /\ [][Next]_vars

\* publish_data returns and timers fire.  A call has finitely many steps, so
\* fairness of all is fairness of each.  Nothing is asked of the callee.
Fairness == WF_vars(\E c \in Calls : CallStep(c))

FairSpec == Spec /\ Fairness

-----------------------------------------------------------------------------
Messages == [type : {"request", "ack", "response"}, call : Calls,
             outcome : Outcomes \cup {"none"}]

TypeOK ==
  /\ call \in [Calls -> {"idle", "publishing", "acking", "responding",
                         "unacked", "unanswered", "done"}]
  /\ result \in [Calls -> Results \cup {"none"}]
  /\ pending_acks \subseteq Calls
  /\ pending_responses \subseteq Calls
  /\ acked \subseteq Calls
  /\ responses \in [Calls -> Outcomes \cup {"none"}]
  /\ tasks \in [Calls -> Seq({"ack", "run", "done"} \cup Outcomes)]
  /\ answers \in [Calls -> SUBSET Outcomes]
  /\ unseen \in [Sides -> Seq(Messages)]
  /\ net \in [Sides -> Seq([message : Messages, place : Nat])]
  /\ failures \in 0..MaxFailures
  /\ resumes \in 0..MaxResumes

\* No entry of a call that has returned is left behind, in whatever order
\* acknowledgements, responses and timers come; only a call whose future was
\* dropped leaves entries, until what it expected arrives.
NoStaleEntries ==
  \A c \in pending_acks \cup pending_responses :
    call[c] # "done" \/ result[c] = "abandoned"

\* How a call stands for its caller.
Standing == [c \in Calls |-> IF call[c] \in {"idle", "done"} THEN result[c]
                             ELSE "pending"]

Promise == INSTANCE RpcService WITH result <- Standing, outcomes <- answers

\* Every call has one result, which is what a handler answered to it or an
\* error, and has it at last, however requests, acknowledgements and
\* responses are lost, late, repeated or mixed up: Rpc implements RpcService.
KeepsPromise == Promise!ServiceSpec
=============================================================================
