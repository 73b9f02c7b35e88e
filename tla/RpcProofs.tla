------------------------------ MODULE RpcProofs ------------------------------
(***************************************************************************)
(* Theorems about Rpc, for any calls and any number of failures, resumes   *)
(* and packets sent again: the state keeps its types, a call that has      *)
(* returned leaves no entry behind, and every step is one of RpcService.   *)
(***************************************************************************)
EXTENDS Rpc, TLAPS

Points == {"idle", "publishing", "acking", "responding", "unacked",
           "unanswered", "done"}

\* The types of what is not a sequence.
CoreOK ==
  /\ call \in [Calls -> Points]
  /\ result \in [Calls -> Results \cup {"none"}]
  /\ pending_acks \subseteq Calls
  /\ pending_responses \subseteq Calls
  /\ acked \subseteq Calls
  /\ answers \in [Calls -> SUBSET Outcomes]
  /\ failures \in 0..MaxFailures
  /\ resumes \in 0..MaxResumes

\* A message that may be on its way: its call was made, and a response is an
\* answer of the callee to this call.
Valid == {m \in Messages : /\ call[m.call] # "idle"
                           /\ m.type = "response" =>
                                m.outcome \in answers[m.call]}

InNet(S) == [message : S, place : Nat]

MessagesOK ==
  /\ unseen \in [Sides -> Seq(Valid)]
  /\ net \in [Sides -> Seq(InNet(Valid))]

TaskPoints(c) == {"ack", "run", "done"} \cup answers[c]

TasksOK ==
  /\ tasks \in [Calls -> Seq({"ack", "run", "done"} \cup Outcomes)]
  /\ \A c \in Calls : /\ tasks[c] \in Seq(TaskPoints(c))
                      /\ tasks[c] # <<>> => call[c] # "idle"

\* What a caller receives was answered to this call; a call has a result
\* exactly when it is done.
ResultsOK ==
  /\ responses \in [Calls -> Outcomes \cup {"none"}]
  /\ \A c \in Calls :
       /\ responses[c] # "none" => responses[c] \in answers[c]
       /\ call[c] = "idle" => result[c] = "none"
       /\ call[c] = "done" => result[c] # "none"

Inv == CoreOK /\ MessagesOK /\ TasksOK /\ ResultsOK

-----------------------------------------------------------------------------
(***************************************************************************)
(* Sequences                                                               *)
(***************************************************************************)
LEMMA SeqMono ==
  ASSUME NEW S, NEW T, S \subseteq T, NEW s \in Seq(S)
  PROVE  s \in Seq(T)
  OBVIOUS

LEMMA InNetMono ==
  ASSUME NEW S, NEW T, S \subseteq T
  PROVE  InNet(S) \subseteq InNet(T)
  BY DEF InNet

LEMMA AppendType ==
  ASSUME NEW S, NEW s \in Seq(S), NEW e \in S
  PROVE  Append(s, e) \in Seq(S)
  OBVIOUS

LEMMA ConcatType ==
  ASSUME NEW S, NEW s \in Seq(S), NEW t \in Seq(S)
  PROVE  s \o t \in Seq(S)
  OBVIOUS

LEMMA FunctionIsSeq ==
  ASSUME NEW S, NEW n \in Nat, NEW f \in [1..n -> S]
  PROVE  f \in Seq(S)
  OBVIOUS

\* What Arrives leaves in the net.
LEMMA ShiftType ==
  ASSUME NEW S, NEW q \in Seq(InNet(S)), q # <<>>, NEW n \in Nat
  PROVE  [i \in 1..(Len(q) - 1) |-> Shifted(q[i + 1], n)] \in Seq(InNet(S))
<1>1. Len(q) \in Nat /\ Len(q) > 0
  OBVIOUS
<1>2. ASSUME NEW i \in 1..(Len(q) - 1)
      PROVE  Shifted(q[i + 1], n) \in InNet(S)
  <2>1. q[i + 1] \in InNet(S)
    BY <1>1
  <2>2. PICK e \in InNet(S) : e = q[i + 1]
    BY <2>1
  <2>3. e.place \in Nat /\ e.message \in S
    BY DEF InNet
  <2>4. (IF e.place > n THEN e.place - n ELSE 0) \in Nat
    BY <2>3
  <2>5. Shifted(e, n) \in InNet(S)
    BY <2>3, <2>4 DEF InNet, Shifted
  <2>6. QED
    BY <2>2, <2>5
<1>3. QED
  BY <1>1, <1>2

\* What Resume adds to the net.
LEMMA ResumeType ==
  ASSUME NEW S, NEW q \in Seq(InNet(S)), NEW u \in Seq(S),
         NEW k \in 1..Len(u)
  PROVE  q \o [i \in 1..(Len(u) - k + 1) |->
                 [message |-> u[k + i - 1], place |-> k + i - 1]]
           \in Seq(InNet(S))
<1>1. Len(u) \in Nat
  OBVIOUS
<1>2. ASSUME NEW i \in 1..(Len(u) - k + 1)
      PROVE  [message |-> u[k + i - 1], place |-> k + i - 1] \in InNet(S)
  <2>1. k + i - 1 \in 1..Len(u)
    BY <1>1
  <2>2. u[k + i - 1] \in S /\ k + i - 1 \in Nat
    BY <1>1, <2>1
  <2>3. QED
    BY <2>2 DEF InNet
<1> DEFINE r == [i \in 1..(Len(u) - k + 1) |->
                   [message |-> u[k + i - 1], place |-> k + i - 1]]
<1>3. r \in Seq(InNet(S))
  <2>1. Len(u) - k + 1 \in Nat
    BY <1>1
  <2>2. r \in [1..(Len(u) - k + 1) -> InNet(S)]
    BY <1>2
  <2>3. QED
    BY <2>1, <2>2, FunctionIsSeq
<1> HIDE DEF r
<1>4. q \o r \in Seq(InNet(S))
  BY <1>3, ConcatType
<1>5. QED
  BY <1>4 DEF r

LEMMA SubSeqType ==
  ASSUME NEW S, NEW s \in Seq(S), NEW n \in Nat
  PROVE  SubSeq(s, n + 1, Len(s)) \in Seq(S)
<1>1. Len(s) \in Nat
  OBVIOUS
<1>2. \A i \in (n + 1)..Len(s) : s[i] \in S
  BY <1>1
<1>3. QED
  BY <1>1, <1>2

LEMMA ExceptType ==
  ASSUME NEW S, NEW s \in Seq(S), NEW i \in DOMAIN s, NEW e \in S
  PROVE  [s EXCEPT ![i] = e] \in Seq(S)
  OBVIOUS

-----------------------------------------------------------------------------
(***************************************************************************)
(* What the handlers do to messages and tasks                              *)
(***************************************************************************)
\* No call is unmade and no answer is taken back.
Grows ==
  \A c \in Calls : /\ call[c] # "idle" => call'[c] # "idle"
                   /\ answers[c] \subseteq answers'[c]

LEMMA ValidGrows ==
  ASSUME Inv, Grows
  PROVE  Valid \subseteq Valid'
<1>1. ASSUME NEW m \in Valid
      PROVE  m \in Valid'
  <2>1. m \in Messages /\ m.call \in Calls
    BY DEF Valid, Messages
  <2>2. call[m.call] # "idle"
    BY DEF Valid
  <2>3. m.type = "response" => m.outcome \in answers[m.call]
    BY DEF Valid
  <2>4. QED
    BY <2>1, <2>2, <2>3 DEF Valid, Grows
<1>2. QED
  BY <1>1

LEMMA UnseenGrows ==
  ASSUME Inv, Grows, NEW s \in Sides
  PROVE  unseen[s] \in Seq(Valid') /\ net[s] \in Seq(InNet(Valid'))
<1>1. Valid \subseteq Valid'
  BY ValidGrows
<1>2. InNet(Valid) \subseteq InNet(Valid')
  BY <1>1, InNetMono
<1>3. unseen[s] \in Seq(Valid) /\ net[s] \in Seq(InNet(Valid))
  BY DEF Inv, MessagesOK
<1>4. unseen[s] \in Seq(Valid')
  BY <1>1, <1>3, SeqMono
<1>5. net[s] \in Seq(InNet(Valid'))
  BY <1>2, <1>3, SeqMono
<1>6. QED
  BY <1>4, <1>5

LEMMA MessagesKept ==
  ASSUME Inv, Grows, unseen' = unseen, net' = net
  PROVE  MessagesOK'
<1>1. \A s \in Sides : /\ unseen[s] \in Seq(Valid')
                       /\ net[s] \in Seq(InNet(Valid'))
  BY UnseenGrows
<1>2. /\ unseen = [s \in Sides |-> unseen[s]]
      /\ net = [s \in Sides |-> net[s]]
  BY DEF Inv, MessagesOK
<1>3. unseen \in [Sides -> Seq(Valid')]
  BY <1>1, <1>2
<1>4. net \in [Sides -> Seq(InNet(Valid'))]
  BY <1>1, <1>2
<1>5. QED
  BY <1>3, <1>4 DEF MessagesOK

\* publish_data keeps the messages valid.
LEMMA MessagesPublish ==
  ASSUME Inv, Grows, NEW side \in Sides, NEW m \in Valid', Publish(side, m)
  PROVE  MessagesOK' /\ failures' \in 0..MaxFailures
<1> DEFINE u == Append(unseen[side], m)
           e == [message |-> m, place |-> Len(unseen[side]) + 1]
           q == Append(net[side], e)
<1>1. \A s \in Sides : /\ unseen[s] \in Seq(Valid')
                       /\ net[s] \in Seq(InNet(Valid'))
  BY UnseenGrows
<1>2. /\ unseen = [s \in Sides |-> unseen[s]]
      /\ net = [s \in Sides |-> net[s]]
  BY DEF Inv, MessagesOK
<1>3. u \in Seq(Valid')
  BY <1>1, AppendType
<1>4. e \in InNet(Valid')
  <2>1. Len(unseen[side]) \in Nat
    BY <1>1
  <2>2. QED
    BY <2>1 DEF InNet
<1>5. q \in Seq(InNet(Valid'))
  BY <1>1, <1>4, AppendType
<1>6. unseen' \in {unseen, [unseen EXCEPT ![side] = u]}
  BY DEF Publish, PublishOk, PublishError
<1>7. net' \in {net, [net EXCEPT ![side] = q]}
  BY DEF Publish, PublishOk, PublishError
<1>8. failures' \in 0..MaxFailures
  BY RpcAssumption DEF RpcAssumption, Inv, CoreOK, Publish, PublishOk,
     PublishError
<1> HIDE DEF u, e, q
<1>9. unseen' \in [Sides -> Seq(Valid')]
  BY <1>1, <1>2, <1>3, <1>6
<1>10. net' \in [Sides -> Seq(InNet(Valid'))]
  BY <1>1, <1>2, <1>5, <1>7
<1>11. QED
  BY <1>8, <1>9, <1>10 DEF MessagesOK

\* The message that arrives is valid, and so is what stays.
LEMMA MessagesArrive ==
  ASSUME Inv, Grows, NEW side \in Sides, NEW type, Arrives(side, type)
  PROVE  /\ MessagesOK'
         /\ Arriving(side) \in Valid
         /\ Arriving(side).type = type
         /\ failures' = failures
<1> DEFINE n == Head(net[side]).place
           u == SubSeq(unseen[side], n + 1, Len(unseen[side]))
           q == [i \in 1..(Len(net[side]) - 1) |->
                   Shifted(net[side][i + 1], n)]
<1>1. \A s \in Sides : /\ unseen[s] \in Seq(Valid')
                       /\ net[s] \in Seq(InNet(Valid'))
  BY UnseenGrows
<1>2. /\ unseen = [s \in Sides |-> unseen[s]]
      /\ net = [s \in Sides |-> net[s]]
  BY DEF Inv, MessagesOK
<1>3. net[side] # <<>> /\ Arriving(side).type = type /\ failures' = failures
  BY DEF Arrives
<1>4. Head(net[side]) \in InNet(Valid)
  <2>1. net[side] \in Seq(InNet(Valid))
    BY DEF Inv, MessagesOK
  <2>2. QED
    BY <1>3, <2>1
<1>5. Arriving(side) \in Valid /\ n \in Nat
  BY <1>4 DEF InNet, Arriving
<1>6. unseen' = [unseen EXCEPT ![side] = u]
  BY DEF Arrives
<1>7. net' = [net EXCEPT ![side] = q]
  BY DEF Arrives
<1>8. u \in Seq(Valid')
  <2> HIDE DEF n
  <2>1. QED
    BY <1>1, <1>5, SubSeqType
<1>9. q \in Seq(InNet(Valid'))
  <2> HIDE DEF n
  <2>1. QED
    BY <1>1, <1>3, <1>5, ShiftType
<1> HIDE DEF n, u, q
<1>10. unseen' \in [Sides -> Seq(Valid')]
  BY <1>1, <1>2, <1>6, <1>8
<1>11. net' \in [Sides -> Seq(InNet(Valid'))]
  BY <1>1, <1>2, <1>7, <1>9
<1>12. QED
  BY <1>3, <1>5, <1>10, <1>11 DEF MessagesOK

LEMMA TasksKept ==
  ASSUME Inv, Grows, tasks' = tasks
  PROVE  TasksOK'
<1>1. ASSUME NEW c \in Calls
      PROVE  /\ tasks[c] \in Seq(TaskPoints(c)')
             /\ tasks[c] # <<>> => call'[c] # "idle"
  <2>1. TaskPoints(c) \subseteq TaskPoints(c)'
    BY DEF Grows, TaskPoints
  <2>2. tasks[c] \in Seq(TaskPoints(c))
    BY DEF Inv, TasksOK
  <2>3. tasks[c] \in Seq(TaskPoints(c)')
    BY <2>1, <2>2, SeqMono
  <2>4. tasks[c] # <<>> => call'[c] # "idle"
    BY DEF Inv, TasksOK, Grows
  <2>5. QED
    BY <2>3, <2>4
<1>2. tasks \in [Calls -> Seq({"ack", "run", "done"} \cup Outcomes)]
  BY DEF Inv, TasksOK
<1>3. QED
  BY <1>1, <1>2 DEF TasksOK

\* The tasks of one call change.
LEMMA TasksChange ==
  ASSUME Inv, Grows, NEW c \in Calls, NEW s \in Seq(TaskPoints(c)'),
         s \in Seq({"ack", "run", "done"} \cup Outcomes),
         tasks' = [tasks EXCEPT ![c] = s], call'[c] # "idle"
  PROVE  TasksOK'
<1>1. ASSUME NEW d \in Calls, d # c
      PROVE  /\ tasks'[d] \in Seq(TaskPoints(d)')
             /\ tasks'[d] # <<>> => call'[d] # "idle"
  <2>1. TaskPoints(d) \subseteq TaskPoints(d)'
    BY DEF Grows, TaskPoints
  <2>2. tasks[d] \in Seq(TaskPoints(d))
    BY DEF Inv, TasksOK
  <2>3. tasks[d] \in Seq(TaskPoints(d)')
    BY <2>1, <2>2, SeqMono
  <2>4. tasks[d] # <<>> => call'[d] # "idle"
    BY DEF Inv, TasksOK, Grows
  <2>5. tasks'[d] = tasks[d]
    BY <1>1 DEF Inv, TasksOK
  <2>6. QED
    BY <2>3, <2>4, <2>5
<1>2. tasks'[c] = s
  BY DEF Inv, TasksOK
<1>3. tasks' \in [Calls -> Seq({"ack", "run", "done"} \cup Outcomes)]
  BY DEF Inv, TasksOK
<1>4. \A d \in Calls : /\ tasks'[d] \in Seq(TaskPoints(d)')
                       /\ tasks'[d] # <<>> => call'[d] # "idle"
  BY <1>1, <1>2
<1>5. QED
  BY <1>3, <1>4 DEF TasksOK

-----------------------------------------------------------------------------
(***************************************************************************)
(* The inductive invariant                                                 *)
(***************************************************************************)
LEMMA InvInit == Init => Inv
<1> SUFFICES ASSUME Init PROVE Inv
  OBVIOUS
<1>1. CoreOK
  BY RpcAssumption DEF RpcAssumption, Init, CoreOK, Points, Outcomes
<1>2. MessagesOK
  BY DEF Init, MessagesOK
<1>3. TasksOK
  BY DEF Init, TasksOK
<1>4. ResultsOK
  BY DEF Init, ResultsOK
<1>5. QED
  BY <1>1, <1>2, <1>3, <1>4 DEF Inv

\* The steps of a caller that sends nothing.
LEMMA CallerInv ==
  ASSUME Inv, NEW c \in Calls,
         \/ PerformRpc(c)
         \/ AckReceived(c)
         \/ TimerFires(c)
         \/ TimedOut(c)
         \/ ResponseReceived(c)
         \/ Cancel(c)
  PROVE  Inv'
<1> USE DEF Inv, CoreOK, ResultsOK
<1>1. UNCHANGED <<calleeVars, netVars, resumes>>
  BY DEF PerformRpc, AckReceived, TimerFires, TimedOut, ResponseReceived,
         Cancel
<1>2. UNCHANGED <<tasks, answers, unseen, net, failures, resumes>>
  BY <1>1 DEF calleeVars, netVars
<1>3. CASE PerformRpc(c)
  <2>1. Grows /\ CoreOK'
    BY <1>2, <1>3 DEF PerformRpc, Grows, Points
  <2>2. ResultsOK'
    BY <1>2, <1>3 DEF PerformRpc
  <2>3. QED
    BY <1>2, <2>1, <2>2, MessagesKept, TasksKept
<1>4. CASE AckReceived(c)
  <2>1. Grows /\ CoreOK'
    BY <1>2, <1>4 DEF AckReceived, Grows, Points
  <2>2. ResultsOK'
    BY <1>2, <1>4 DEF AckReceived
  <2>3. QED
    BY <1>2, <2>1, <2>2, MessagesKept, TasksKept
<1>5. CASE TimerFires(c)
  <2>1. Grows /\ CoreOK'
    BY <1>2, <1>5 DEF TimerFires, Grows, Points
  <2>2. ResultsOK'
    BY <1>2, <1>5 DEF TimerFires
  <2>3. QED
    BY <1>2, <2>1, <2>2, MessagesKept, TasksKept
<1>6. CASE TimedOut(c)
  <2>1. ReturnWith(c, "failed") /\ call[c] # "idle"
    BY <1>6 DEF TimedOut, AckTimedOut, ResponseTimedOut
  <2>2. pending_acks' \subseteq Calls /\ pending_responses' \subseteq Calls
    BY <1>6 DEF TimedOut, AckTimedOut, ResponseTimedOut
  <2>3. Grows /\ CoreOK'
    BY <1>2, <2>1, <2>2 DEF ReturnWith, Grows, Points, Results
  <2>4. ResultsOK'
    BY <1>2, <2>1 DEF ReturnWith
  <2>5. QED
    BY <1>2, <2>3, <2>4, MessagesKept, TasksKept
<1>7. CASE ResponseReceived(c)
  <2>1. /\ ReturnWith(c, responses[c])
        /\ call[c] # "idle"
        /\ responses[c] \in Outcomes
    BY <1>7 DEF ResponseReceived
  <2>2. UNCHANGED <<pending_acks, pending_responses>>
    BY <1>7 DEF ResponseReceived
  <2>3. Grows /\ CoreOK'
    BY <1>2, <2>1, <2>2 DEF ReturnWith, Grows, Points, Results
  <2>4. ResultsOK'
    BY <1>2, <2>1 DEF ReturnWith, Outcomes
  <2>5. QED
    BY <1>2, <2>3, <2>4, MessagesKept, TasksKept
<1>8. CASE Cancel(c)
  <2>1. ReturnWith(c, "abandoned") /\ call[c] # "idle"
    BY <1>8 DEF Cancel
  <2>2. UNCHANGED <<pending_acks, pending_responses>>
    BY <1>8 DEF Cancel
  <2>3. Grows /\ CoreOK'
    BY <1>2, <2>1, <2>2 DEF ReturnWith, Grows, Points, Results
  <2>4. ResultsOK'
    BY <1>2, <2>1 DEF ReturnWith
  <2>5. QED
    BY <1>2, <2>3, <2>4, MessagesKept, TasksKept
<1>9. QED
  BY <1>3, <1>4, <1>5, <1>6, <1>7, <1>8

\* The request is published, or not.
LEMMA RequestInv ==
  ASSUME Inv, NEW c \in Calls, RequestSent(c) \/ RequestFailed(c)
  PROVE  Inv'
<1> DEFINE m == Message("request", c, "none")
<1>1. UNCHANGED <<tasks, answers, resumes>>
  BY DEF RequestSent, RequestFailed, calleeVars
<1>2. Publish("caller", m) /\ call[c] # "idle"
  BY DEF RequestSent, RequestFailed, Publish
<1>3. \/ /\ call' = [call EXCEPT ![c] = "acking"]
         /\ UNCHANGED <<result, pending_acks, pending_responses, acked,
                        responses>>
      \/ /\ ReturnWith(c, "failed")
         /\ pending_acks' = pending_acks \ {c}
         /\ pending_responses' = pending_responses \ {c}
  BY DEF RequestSent, RequestFailed
<1>4. Grows /\ call'[c] # "idle"
  BY <1>1, <1>2, <1>3 DEF Grows, Inv, CoreOK, ReturnWith
<1>5. m \in Valid'
  BY <1>4 DEF Valid, Messages, Message
<1>6. MessagesOK' /\ failures' \in 0..MaxFailures
  <2> HIDE DEF m
  <2>1. QED
    BY <1>2, <1>4, <1>5, MessagesPublish DEF Sides
<1>7. TasksOK'
  BY <1>1, <1>4, TasksKept
<1>8. CoreOK'
  BY <1>1, <1>3, <1>6 DEF Inv, CoreOK, ReturnWith, Points, Results
<1>9. ResultsOK'
  BY <1>1, <1>2, <1>3 DEF Inv, CoreOK, ResultsOK, ReturnWith
<1>10. QED
  BY <1>6, <1>7, <1>8, <1>9 DEF Inv

\* A task of the callee moves.
LEMMA TaskInv ==
  ASSUME Inv, NEW c \in Calls, NEW i \in DOMAIN tasks[c], TaskStep(c, i)
  PROVE  Inv'
<1>1. UNCHANGED <<call, result, pending_acks, pending_responses, acked,
                  responses, resumes>>
  BY DEF TaskStep, SendAck, RunHandler, SendResponse, callerVars
<1>2. /\ tasks[c] \in Seq(TaskPoints(c))
      /\ tasks[c] \in Seq({"ack", "run", "done"} \cup Outcomes)
      /\ tasks[c][i] \in TaskPoints(c)
      /\ call[c] # "idle"
  BY DEF Inv, TasksOK
<1>3. ASSUME NEW to, to \in TaskPoints(c)', Grows,
             to \in {"ack", "run", "done"} \cup Outcomes,
             tasks' = [tasks EXCEPT ![c][i] = to]
      PROVE  TasksOK'
  <2> DEFINE s == [tasks[c] EXCEPT ![i] = to]
  <2>1. TaskPoints(c) \subseteq TaskPoints(c)'
    BY <1>3 DEF Grows, TaskPoints
  <2>2. tasks[c] \in Seq(TaskPoints(c)')
    BY <1>2, <2>1, SeqMono
  <2>3. s \in Seq(TaskPoints(c)')
    BY <1>3, <2>2, ExceptType
  <2>4. s \in Seq({"ack", "run", "done"} \cup Outcomes)
    BY <1>2, <1>3, ExceptType
  <2>5. tasks' = [tasks EXCEPT ![c] = s]
    BY <1>3
  <2> HIDE DEF s
  <2>6. QED
    BY <1>1, <1>2, <1>3, <2>3, <2>4, <2>5, TasksChange
<1>4. CASE SendAck(c, i)
  <2> DEFINE m == Message("ack", c, "none")
  <2>1. /\ Publish("callee", m)
        /\ tasks' = [tasks EXCEPT ![c][i] = "run"]
        /\ answers' = answers
    BY <1>4 DEF SendAck, GoesTo
  <2>2. Grows
    BY <1>1, <2>1 DEF Grows
  <2>3. m \in Valid'
    BY <1>1, <1>2 DEF Valid, Messages, Message
  <2>4. MessagesOK' /\ failures' \in 0..MaxFailures
    <3> HIDE DEF m
    <3>1. QED
      BY <2>1, <2>2, <2>3, MessagesPublish DEF Sides
  <2>5. TasksOK'
    BY <1>3, <2>1, <2>2 DEF TaskPoints
  <2>6. CoreOK' /\ ResultsOK'
    BY <1>1, <2>1, <2>4 DEF Inv, CoreOK, ResultsOK
  <2>7. QED
    BY <2>4, <2>5, <2>6 DEF Inv
<1>5. CASE RunHandler(c, i)
  <2>1. PICK o \in Outcomes :
          /\ tasks' = [tasks EXCEPT ![c][i] = o]
          /\ answers' = [answers EXCEPT ![c] = @ \cup {o}]
    BY <1>5 DEF RunHandler, GoesTo
  <2>2. UNCHANGED <<unseen, net, failures>>
    BY <1>5 DEF RunHandler, netVars
  <2>3. Grows
    BY <1>1, <2>1 DEF Grows, Inv, CoreOK
  <2>4. MessagesOK'
    BY <2>2, <2>3, MessagesKept
  <2>5. o \in TaskPoints(c)'
    BY <2>1 DEF TaskPoints, Inv, CoreOK
  <2>6. TasksOK'
    BY <1>3, <2>1, <2>3, <2>5
  <2>7. CoreOK' /\ ResultsOK'
    BY <1>1, <2>1, <2>2 DEF Inv, CoreOK, ResultsOK
  <2>8. QED
    BY <2>4, <2>6, <2>7 DEF Inv
<1>6. CASE SendResponse(c, i)
  <2> DEFINE m == Message("response", c, tasks[c][i])
  <2>1. /\ Publish("callee", m)
        /\ tasks' = [tasks EXCEPT ![c][i] = "done"]
        /\ answers' = answers
        /\ tasks[c][i] \in Outcomes
    BY <1>6 DEF SendResponse, GoesTo
  <2>2. Grows
    BY <1>1, <2>1 DEF Grows
  <2>3. tasks[c][i] \in answers[c]
    BY <1>2, <2>1 DEF TaskPoints, Outcomes
  <2>4. m \in Messages /\ m.call = c /\ m.outcome = tasks[c][i]
    BY <2>1 DEF Messages, Message
  <2>5. m \in Valid'
    <3> HIDE DEF m
    <3>1. QED
      BY <1>1, <1>2, <2>1, <2>3, <2>4 DEF Valid
  <2>6. MessagesOK' /\ failures' \in 0..MaxFailures
    <3> HIDE DEF m
    <3>1. QED
      BY <2>1, <2>2, <2>5, MessagesPublish DEF Sides
  <2>7. TasksOK'
    BY <1>3, <2>1, <2>2 DEF TaskPoints
  <2>8. CoreOK' /\ ResultsOK'
    BY <1>1, <2>1, <2>6 DEF Inv, CoreOK, ResultsOK
  <2>9. QED
    BY <2>6, <2>7, <2>8 DEF Inv
<1>7. QED
  BY <1>4, <1>5, <1>6 DEF TaskStep

\* A message arrives.
LEMMA ArrivalInv ==
  ASSUME Inv, Arrival
  PROVE  Inv'
<1>1. CASE OnRequest
  <2> DEFINE c == Arriving("caller").call
             s == Append(tasks[c], "ack")
  <2>1. /\ Arrives("caller", "request")
        /\ tasks' = [tasks EXCEPT ![c] = s]
        /\ UNCHANGED <<callerVars, answers, resumes>>
    BY <1>1 DEF OnRequest
  <2>2. UNCHANGED <<call, result, pending_acks, pending_responses, acked,
                    responses, answers, resumes>>
    BY <2>1 DEF callerVars
  <2>3. Grows
    BY <2>2 DEF Grows
  <2>4. MessagesOK' /\ failures' = failures /\ Arriving("caller") \in Valid
    BY <2>1, <2>3, MessagesArrive DEF Sides
  <2>5. c \in Calls /\ call[c] # "idle"
    BY <2>4 DEF Valid, Messages
  <2>6. /\ tasks[c] \in Seq(TaskPoints(c))
        /\ tasks[c] \in Seq({"ack", "run", "done"} \cup Outcomes)
    BY <2>5 DEF Inv, TasksOK
  <2>7. PICK d \in Calls : d = c
    BY <2>5
  <2>8. /\ TaskPoints(d)' = TaskPoints(d)
        /\ "ack" \in TaskPoints(d)
        /\ "ack" \in {"ack", "run", "done"} \cup Outcomes
    BY <2>2 DEF TaskPoints
  <2>9. /\ Append(tasks[d], "ack") \in Seq(TaskPoints(d)')
        /\ Append(tasks[d], "ack")
             \in Seq({"ack", "run", "done"} \cup Outcomes)
    BY <2>6, <2>7, <2>8, AppendType
  <2>10. /\ tasks' = [tasks EXCEPT ![d] = Append(tasks[d], "ack")]
         /\ call'[d] # "idle"
    BY <2>1, <2>2, <2>5, <2>7
  <2>11. TasksOK'
    BY <2>3, <2>9, <2>10, TasksChange
  <2>12. CoreOK' /\ ResultsOK'
    BY <2>2, <2>4 DEF Inv, CoreOK, ResultsOK
  <2>13. QED
    BY <2>4, <2>11, <2>12 DEF Inv
<1>2. CASE OnAck
  <2> DEFINE c == Arriving("callee").call
  <2>1. /\ Arrives("callee", "ack")
        /\ acked' = acked \cup ({c} \cap pending_acks \cap Awaiting)
        /\ pending_acks' = pending_acks \ {c}
        /\ UNCHANGED <<call, result, pending_responses, responses, calleeVars,
                       resumes>>
    BY <1>2 DEF OnAck
  <2>2. UNCHANGED <<call, tasks, answers>>
    BY <2>1 DEF calleeVars
  <2>3. Grows
    BY <2>2 DEF Grows
  <2>4. MessagesOK' /\ failures' = failures
    BY <2>1, <2>3, MessagesArrive DEF Sides
  <2>5. TasksOK'
    BY <2>2, <2>3, TasksKept
  <2>6. CoreOK' /\ ResultsOK'
    <3> HIDE DEF c
    <3>1. QED
      BY <2>1, <2>2, <2>4 DEF Inv, CoreOK, ResultsOK
  <2>7. QED
    BY <2>4, <2>5, <2>6 DEF Inv
<1>3. CASE OnResponse
  <2> DEFINE m == Arriving("callee")
             R == Recipients(m.call)
  <2>1. /\ Arrives("callee", "response")
        /\ responses' = [c \in Calls |-> IF c \in R \cap Awaiting
                                         THEN m.outcome ELSE responses[c]]
        /\ pending_responses' = pending_responses \ R
        /\ UNCHANGED <<call, result, pending_acks, acked, calleeVars, resumes>>
    BY <1>3 DEF OnResponse
  <2>2. UNCHANGED <<call, tasks, answers>>
    BY <2>1 DEF calleeVars
  <2>3. Grows
    BY <2>2 DEF Grows
  <2>4. /\ MessagesOK'
        /\ failures' = failures
        /\ m \in Valid
        /\ m.type = "response"
    BY <2>1, <2>3, MessagesArrive DEF Sides
  <2>5. TasksOK'
    BY <2>2, <2>3, TasksKept
  <2>6. m.call \in Calls /\ m.outcome \in answers[m.call]
    BY <2>4 DEF Valid, Messages
  <2>7. R \subseteq {m.call}
    BY DEF Recipients
  <2> HIDE DEF m, R
  <2>8. m.outcome \in Outcomes
    BY <2>6 DEF Inv, CoreOK
  <2>9. CoreOK'
    BY <2>1, <2>2, <2>4 DEF Inv, CoreOK
  <2>10. responses' \in [Calls -> Outcomes \cup {"none"}]
    BY <2>1, <2>8 DEF Inv, ResultsOK
  <2>11. ASSUME NEW c \in Calls, responses'[c] # "none"
         PROVE  responses'[c] \in answers[c]
    BY <2>1, <2>6, <2>7, <2>11 DEF Inv, ResultsOK
  <2>12. ResultsOK'
    BY <2>1, <2>2, <2>10, <2>11 DEF Inv, ResultsOK
  <2>13. QED
    BY <2>4, <2>5, <2>9, <2>12 DEF Inv
<1>4. QED
  BY <1>1, <1>2, <1>3 DEF Arrival

\* A tail of what is unseen is sent again.
LEMMA ResumeInv ==
  ASSUME Inv, NEW s \in Sides, Resume(s)
  PROVE  Inv'
<1>1. UNCHANGED <<call, result, pending_acks, pending_responses, acked,
                  responses, tasks, answers, unseen, failures>>
  BY DEF Resume, callerVars, calleeVars
<1>2. Grows
  BY <1>1 DEF Grows
<1>3. Valid \subseteq Valid'
  BY <1>2, ValidGrows
<1>4. PICK k \in 1..Len(unseen[s]) :
        net' = [net EXCEPT ![s] =
                  net[s] \o [i \in 1..(Len(unseen[s]) - k + 1) |->
                               [message |-> unseen[s][k + i - 1],
                                place |-> k + i - 1]]]
  BY DEF Resume
<1> DEFINE q == net[s] \o [i \in 1..(Len(unseen[s]) - k + 1) |->
                             [message |-> unseen[s][k + i - 1],
                              place |-> k + i - 1]]
<1>5. \A t \in Sides : /\ unseen[t] \in Seq(Valid')
                       /\ net[t] \in Seq(InNet(Valid'))
  BY <1>2, UnseenGrows
<1>6. q \in Seq(InNet(Valid'))
  BY <1>5, ResumeType
<1>7. net' = [net EXCEPT ![s] = q]
  BY <1>4
<1> HIDE DEF q
<1>8. MessagesOK'
  <2>1. unseen \in [Sides -> Seq(Valid')]
    BY <1>5 DEF Inv, MessagesOK
  <2>2. net' \in [Sides -> Seq(InNet(Valid'))]
    BY <1>5, <1>6, <1>7 DEF Inv, MessagesOK
  <2>3. QED
    BY <1>1, <2>1, <2>2 DEF MessagesOK
<1>9. TasksOK'
  BY <1>1, <1>2, TasksKept
<1>10. CoreOK' /\ ResultsOK'
  <2>1. resumes' \in 0..MaxResumes
    BY RpcAssumption DEF RpcAssumption, Inv, CoreOK, Resume
  <2>2. QED
    BY <1>1, <2>1 DEF Inv, CoreOK, ResultsOK
<1>11. QED
  BY <1>8, <1>9, <1>10 DEF Inv

LEMMA InvNext ==
  ASSUME Inv, [Next]_vars
  PROVE  Inv'
<1>1. CASE Next
  <2>1. \/ \E c \in Calls : \/ PerformRpc(c)
                            \/ CallStep(c)
                            \/ Cancel(c)
                            \/ \E i \in DOMAIN tasks[c] : TaskStep(c, i)
        \/ Arrival
        \/ \E s \in Sides : Resume(s)
    BY <1>1 DEF Next
  <2>2. ASSUME NEW c \in Calls, PerformRpc(c) \/ CallStep(c) \/ Cancel(c)
        PROVE  Inv'
    BY <2>2, CallerInv, RequestInv DEF CallStep
  <2>3. QED
    BY <2>1, <2>2, TaskInv, ArrivalInv, ResumeInv
<1>2. CASE UNCHANGED vars
  <2>1. /\ UNCHANGED <<call, result, pending_acks, pending_responses, acked>>
        /\ UNCHANGED <<responses, tasks, answers, failures, resumes>>
        /\ unseen' = unseen
        /\ net' = net
    BY <1>2 DEF vars, callerVars, calleeVars, netVars
  <2>2. Grows
    BY <2>1 DEF Grows
  <2>3. CoreOK' /\ ResultsOK'
    BY <2>1 DEF Inv, CoreOK, ResultsOK
  <2>4. QED
    BY <2>1, <2>2, <2>3, MessagesKept, TasksKept DEF Inv
<1>3. QED
  BY <1>1, <1>2

\* In every reachable state a message on its way belongs to a call that was
\* made, and a response, on its way or received, is an answer of the callee
\* to this very call.
THEOREM SpecInv == Spec => []Inv
<1>1. Init => Inv
  BY InvInit
<1>2. Inv /\ [Next]_vars => Inv'
  BY InvNext
<1>3. QED
  BY <1>1, <1>2, PTL DEF Spec

LEMMA InvTypes ==
  ASSUME Inv
  PROVE  TypeOK
<1>1. Valid \subseteq Messages
  BY DEF Valid
<1>2. InNet(Valid) \subseteq InNet(Messages)
  BY <1>1, InNetMono
<1>3. ASSUME NEW s \in Sides
      PROVE  unseen[s] \in Seq(Messages) /\ net[s] \in Seq(InNet(Messages))
  <2>1. unseen[s] \in Seq(Valid) /\ net[s] \in Seq(InNet(Valid))
    BY DEF Inv, MessagesOK
  <2>2. unseen[s] \in Seq(Messages)
    BY <1>1, <2>1, SeqMono
  <2>3. net[s] \in Seq(InNet(Messages))
    BY <1>2, <2>1, SeqMono
  <2>4. QED
    BY <2>2, <2>3
<1>4. /\ unseen = [s \in Sides |-> unseen[s]]
      /\ net = [s \in Sides |-> net[s]]
  BY DEF Inv, MessagesOK
<1>5. unseen \in [Sides -> Seq(Messages)]
  BY <1>3, <1>4
<1>6. net \in [Sides -> Seq(InNet(Messages))]
  BY <1>3, <1>4
<1>7. net \in [Sides -> Seq([message : Messages, place : Nat])]
  BY <1>6 DEF InNet
<1>8. QED
  BY <1>5, <1>7 DEF Inv, CoreOK, TasksOK, ResultsOK, Points, TypeOK

\* Every variable keeps its type, for any calls and any bounds.
THEOREM TypeCorrect == Spec => []TypeOK
<1>1. Inv => TypeOK
  BY InvTypes
<1>2. QED
  BY <1>1, SpecInv, PTL

-----------------------------------------------------------------------------
(***************************************************************************)
(* The entries of RpcState                                                 *)
(***************************************************************************)
\* Which entries and which values a call may have, where it is.
EntryInv ==
  /\ NoStaleEntries
  /\ acked \cap pending_acks = {}
  /\ \A c \in Calls :
       /\ call[c] = "idle" => /\ c \notin pending_acks
                              /\ c \notin pending_responses
                              /\ c \notin acked
                              /\ responses[c] = "none"
       /\ responses[c] # "none" => c \notin pending_responses
       /\ call[c] \in {"responding", "unanswered"} => c \notin pending_acks

LEMMA EntryInit == Init => EntryInv
  BY DEF Init, EntryInv, NoStaleEntries

\* A call whose entries are gone, or whose future is dropped, may return.
LEMMA EntryReturn ==
  ASSUME Inv, EntryInv, NEW c \in Calls, NEW r,
         ReturnWith(c, r),
         pending_acks' \subseteq pending_acks,
         pending_responses' \subseteq pending_responses,
         r = "abandoned" \/ c \notin pending_acks' \cup pending_responses'
  PROVE  EntryInv'
<1>1. /\ call' = [call EXCEPT ![c] = "done"]
      /\ result' = [result EXCEPT ![c] = r]
      /\ acked' = acked \ {c}
      /\ responses' = [responses EXCEPT ![c] = "none"]
  BY DEF ReturnWith
<1>2. NoStaleEntries'
  BY <1>1 DEF Inv, CoreOK, EntryInv, NoStaleEntries
<1>3. QED
  BY <1>1, <1>2 DEF Inv, CoreOK, ResultsOK, EntryInv

LEMMA EntryCall ==
  ASSUME Inv, EntryInv, NEW c \in Calls,
         PerformRpc(c) \/ CallStep(c) \/ Cancel(c)
  PROVE  EntryInv'
<1>1. CASE PerformRpc(c)
  BY <1>1 DEF PerformRpc, Inv, CoreOK, ResultsOK, EntryInv, NoStaleEntries
<1>2. CASE RequestSent(c)
  BY <1>2 DEF RequestSent, Inv, CoreOK, ResultsOK, EntryInv, NoStaleEntries
<1>3. CASE RequestFailed(c)
  BY <1>3, EntryReturn DEF RequestFailed
<1>4. CASE AckReceived(c)
  <2>1. c \notin pending_acks
    BY <1>4 DEF AckReceived, EntryInv
  <2>2. QED
    BY <1>4, <2>1 DEF AckReceived, Inv, CoreOK, ResultsOK, EntryInv,
                      NoStaleEntries
<1>5. CASE TimerFires(c)
  BY <1>5 DEF TimerFires, Inv, CoreOK, ResultsOK, EntryInv, NoStaleEntries
<1>6. CASE TimedOut(c)
  <2>1. ReturnWith(c, "failed")
    BY <1>6 DEF TimedOut, AckTimedOut, ResponseTimedOut
  <2>2. /\ pending_acks' \subseteq pending_acks
        /\ pending_responses' \subseteq pending_responses
        /\ c \notin pending_acks' \cup pending_responses'
    BY <1>6 DEF TimedOut, AckTimedOut, ResponseTimedOut, EntryInv
  <2>3. QED
    BY <2>1, <2>2, EntryReturn
<1>7. CASE ResponseReceived(c)
  <2>1. c \notin pending_acks \cup pending_responses
    BY <1>7 DEF ResponseReceived, EntryInv
  <2>2. QED
    BY <1>7, <2>1, EntryReturn DEF ResponseReceived
<1>8. CASE Cancel(c)
  BY <1>8, EntryReturn DEF Cancel
<1>9. QED
  BY <1>1, <1>2, <1>3, <1>4, <1>5, <1>6, <1>7, <1>8 DEF CallStep

LEMMA EntryNext ==
  ASSUME Inv, EntryInv, [Next]_vars
  PROVE  EntryInv'
<1>1. ASSUME NEW c \in Calls, NEW i \in DOMAIN tasks[c], TaskStep(c, i)
      PROVE  EntryInv'
  BY <1>1 DEF TaskStep, SendAck, RunHandler, SendResponse, callerVars,
              EntryInv, NoStaleEntries
<1>2. CASE OnRequest
  BY <1>2 DEF OnRequest, callerVars, EntryInv, NoStaleEntries
<1>3. CASE OnAck
  <2> DEFINE d == Arriving("callee").call
  <2>1. /\ acked' = acked \cup ({d} \cap pending_acks \cap Awaiting)
        /\ pending_acks' = pending_acks \ {d}
        /\ UNCHANGED <<call, result, pending_responses, responses>>
    BY <1>3 DEF OnAck
  <2> HIDE DEF d
  <2>2. NoStaleEntries'
    BY <2>1 DEF EntryInv, NoStaleEntries
  <2>3. QED
    BY <2>1, <2>2 DEF EntryInv
<1>4. CASE OnResponse
  <2> DEFINE m == Arriving("callee")
             R == Recipients(m.call)
  <2>1. /\ responses' = [c \in Calls |-> IF c \in R \cap Awaiting
                                         THEN m.outcome ELSE responses[c]]
        /\ pending_responses' = pending_responses \ R
        /\ UNCHANGED <<call, result, pending_acks, acked>>
    BY <1>4 DEF OnResponse
  <2>2. R \subseteq pending_responses
    BY DEF Recipients
  <2> HIDE DEF m, R
  <2>3. NoStaleEntries'
    BY <2>1 DEF EntryInv, NoStaleEntries
  <2>4. QED
    BY <2>1, <2>2, <2>3 DEF EntryInv
<1>5. ASSUME NEW s \in Sides, Resume(s)
      PROVE  EntryInv'
  BY <1>5 DEF Resume, callerVars, EntryInv, NoStaleEntries
<1>6. CASE UNCHANGED vars
  BY <1>6 DEF vars, callerVars, EntryInv, NoStaleEntries
<1>7. QED
  BY <1>1, <1>2, <1>3, <1>4, <1>5, <1>6, EntryCall DEF Next, Arrival

\* No call that has returned leaves an entry in pending_acks or
\* pending_responses, unless its future was dropped.
THEOREM EntriesRemoved == Spec => []NoStaleEntries
<1>1. Init => EntryInv
  BY EntryInit
<1>2. Inv /\ EntryInv /\ [Next]_vars => EntryInv'
  BY EntryNext
<1>3. EntryInv => NoStaleEntries
  BY DEF EntryInv
<1>4. QED
  BY <1>1, <1>2, <1>3, SpecInv, PTL DEF Spec

-----------------------------------------------------------------------------
(***************************************************************************)
(* Rpc implements RpcService                                               *)
(***************************************************************************)
LEMMA StandingAt ==
  ASSUME NEW c \in Calls
  PROVE  /\ Standing[c] = IF call[c] \in {"idle", "done"} THEN result[c]
                          ELSE "pending"
         /\ Standing'[c] = IF call'[c] \in {"idle", "done"} THEN result'[c]
                           ELSE "pending"
  BY DEF Standing

LEMMA StandingKept ==
  ASSUME \A c \in Calls : Standing'[c] = Standing[c]
  PROVE  Standing' = Standing
  BY DEF Standing

\* How the other calls stand does not change.
LEMMA StandingChange ==
  ASSUME NEW c \in Calls, NEW r,
         \A d \in Calls \ {c} : Standing'[d] = Standing[d],
         Standing'[c] = r
  PROVE  Standing' = [Standing EXCEPT ![c] = r]
  BY DEF Standing

LEMMA StandingReturn ==
  ASSUME Inv, NEW c \in Calls, NEW r, ReturnWith(c, r),
         call[c] \notin {"idle", "done"}
  PROVE  Standing[c] = "pending" /\ Standing' = [Standing EXCEPT ![c] = r]
<1>1. /\ call' = [call EXCEPT ![c] = "done"]
      /\ result' = [result EXCEPT ![c] = r]
  BY DEF ReturnWith
<1>2. Standing'[c] = r /\ Standing[c] = "pending"
  BY <1>1, StandingAt DEF Inv, CoreOK
<1>3. \A d \in Calls \ {c} : Standing'[d] = Standing[d]
  BY <1>1, StandingAt DEF Inv, CoreOK
<1>4. QED
  BY <1>2, <1>3, StandingChange

\* A step of a caller begins the call, ends it or does not show.
LEMMA CallerImplements ==
  ASSUME Inv, NEW c \in Calls, PerformRpc(c) \/ CallStep(c) \/ Cancel(c)
  PROVE  [Promise!SNext]_(Promise!svars)
<1>1. answers' = answers
  BY DEF PerformRpc, CallStep, Cancel, RequestSent, RequestFailed,
         AckReceived, TimerFires, TimedOut, ResponseReceived, calleeVars
<1>2. CASE PerformRpc(c)
  <2>1. /\ call[c] = "idle"
        /\ call' = [call EXCEPT ![c] = "publishing"]
        /\ result' = result
    BY <1>2 DEF PerformRpc
  <2>2. Standing[c] = "none" /\ Standing'[c] = "pending"
    BY <2>1, StandingAt DEF Inv, CoreOK, ResultsOK
  <2>3. \A d \in Calls \ {c} : Standing'[d] = Standing[d]
    BY <2>1, StandingAt DEF Inv, CoreOK
  <2>4. Promise!Invoke(c)
    BY <1>1, <2>2, <2>3, StandingChange DEF Promise!Invoke
  <2>5. QED
    BY <2>4 DEF Promise!SNext
<1>3. CASE RequestSent(c) \/ AckReceived(c) \/ TimerFires(c)
  <2>1. /\ call[c] \notin {"idle", "done"}
        /\ \E to \in Points \ {"idle", "done"} :
             call' = [call EXCEPT ![c] = to]
        /\ result' = result
    BY <1>3 DEF RequestSent, AckReceived, TimerFires, Points
  <2>2. \A d \in Calls : Standing'[d] = Standing[d]
    BY <2>1, StandingAt DEF Inv, CoreOK
  <2>3. QED
    BY <1>1, <2>2, StandingKept DEF Promise!svars
<1>4. CASE RequestFailed(c) \/ TimedOut(c)
  <2>1. ReturnWith(c, "failed") /\ call[c] \notin {"idle", "done"}
    BY <1>4 DEF RequestFailed, TimedOut, AckTimedOut, ResponseTimedOut
  <2>2. Promise!Return(c, "failed")
    BY <1>1, <2>1, StandingReturn DEF Promise!Return
  <2>3. QED
    BY <2>2 DEF Promise!SNext
<1>5. CASE ResponseReceived(c)
  <2>1. /\ ReturnWith(c, responses[c])
        /\ call[c] \notin {"idle", "done"}
        /\ responses[c] # "none"
    BY <1>5 DEF ResponseReceived
  <2>2. responses[c] \in answers[c] /\ responses[c] \in Outcomes
    BY <2>1 DEF Inv, ResultsOK, CoreOK
  <2>3. Promise!Return(c, responses[c])
    BY <1>1, <2>1, <2>2, StandingReturn DEF Promise!Return
  <2>4. QED
    BY <2>2, <2>3 DEF Promise!SNext
<1>6. CASE Cancel(c)
  <2>1. ReturnWith(c, "abandoned") /\ call[c] \notin {"idle", "done"}
    BY <1>6 DEF Cancel
  <2>2. Promise!Abandon(c)
    BY <1>1, <2>1, StandingReturn DEF Promise!Abandon
  <2>3. QED
    BY <2>2 DEF Promise!SNext
<1>7. QED
  BY <1>2, <1>3, <1>4, <1>5, <1>6 DEF CallStep

\* A step of the callee answers a call that was made, or does not show.
LEMMA TaskImplements ==
  ASSUME Inv, NEW c \in Calls, NEW i \in DOMAIN tasks[c], TaskStep(c, i)
  PROVE  [Promise!SNext]_(Promise!svars)
<1>1. call' = call /\ result' = result
  BY DEF TaskStep, SendAck, RunHandler, SendResponse, callerVars
<1>2. Standing' = Standing
  BY <1>1 DEF Standing
<1>3. CASE RunHandler(c, i)
  <2>1. PICK o \in Outcomes : answers' = [answers EXCEPT ![c] = @ \cup {o}]
    BY <1>3 DEF RunHandler
  <2>2. call[c] # "idle"
    BY DEF Inv, TasksOK
  <2>3. Standing[c] # "none"
    BY <2>2, StandingAt DEF Inv, ResultsOK
  <2>4. Promise!Execute(c, o)
    BY <1>2, <2>1, <2>3 DEF Promise!Execute
  <2>5. QED
    BY <2>4 DEF Promise!SNext
<1>4. CASE SendAck(c, i) \/ SendResponse(c, i)
  BY <1>2, <1>4 DEF SendAck, SendResponse, Promise!svars
<1>5. QED
  BY <1>3, <1>4 DEF TaskStep

\* The safety part of KeepsPromise: a call begins once and ends once, with an
\* answer of the callee to this call or an error, whatever is lost, late,
\* repeated or mixed up.
THEOREM Implements == Spec => Promise!SInit /\ [][Promise!SNext]_(Promise!svars)
<1>1. Init => Promise!SInit
  BY DEF Init, Standing, Promise!SInit
<1>2. ASSUME Inv, [Next]_vars
      PROVE  [Promise!SNext]_(Promise!svars)
  <2>1. CASE Arrival \/ \E s \in Sides : Resume(s)
    <3>1. UNCHANGED <<call, result, answers>>
      BY <2>1 DEF Arrival, OnRequest, OnAck, OnResponse, Resume, callerVars,
                  calleeVars
    <3>2. QED
      BY <3>1 DEF Standing, Promise!svars
  <2>2. CASE UNCHANGED vars
    <3>1. UNCHANGED <<call, result, answers>>
      BY <2>2 DEF vars, callerVars, calleeVars
    <3>2. QED
      BY <3>1 DEF Standing, Promise!svars
  <2>3. QED
    BY <1>2, <2>1, <2>2, CallerImplements, TaskImplements DEF Next
<1>3. QED
  BY <1>1, <1>2, SpecInv, PTL DEF Spec
=============================================================================
