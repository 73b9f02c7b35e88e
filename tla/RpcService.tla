----------------------------- MODULE RpcService -----------------------------
(***************************************************************************)
(* What perform_rpc (livekit/src/room/participant/local_participant.rs)    *)
(* promises its caller, without messages, acknowledgements or timers.      *)
(*                                                                         *)
(* A call has one result.  It is either what a handler of the method       *)
(* answered to this very call, or an error of the transport.  Such an      *)
(* error says nothing of the handler: it may have run, may be running or   *)
(* may still run, and more than once.                                      *)
(***************************************************************************)
CONSTANTS
  Calls,    \* calls of perform_rpc
  Outcomes  \* what the other participant may answer

VARIABLES
  result,   \* "none", "pending", "failed", "abandoned" or an outcome
  outcomes  \* [Calls]: what the other participant has answered

svars == <<result, outcomes>>

SInit ==
  /\ result = [c \in Calls |-> "none"]
  /\ outcomes = [c \in Calls |-> {}]

\* perform_rpc is called.
Invoke(c) ==
  /\ result[c] = "none"
  /\ result' = [result EXCEPT ![c] = "pending"]
  /\ UNCHANGED outcomes

\* The other participant answers a request of c, maybe not the first one.
Execute(c, o) ==
  /\ result[c] # "none"
  /\ outcomes' = [outcomes EXCEPT ![c] = @ \cup {o}]
  /\ UNCHANGED result

\* perform_rpc returns an answer, or an error of the transport.
Return(c, r) ==
  /\ result[c] = "pending"
  /\ r \in outcomes[c] \cup {"failed"}
  /\ result' = [result EXCEPT ![c] = r]
  /\ UNCHANGED outcomes

\* The caller drops the future.
Abandon(c) ==
  /\ result[c] = "pending"
  /\ result' = [result EXCEPT ![c] = "abandoned"]
  /\ UNCHANGED outcomes

SNext ==
  \E c \in Calls :
    \/ Invoke(c)
    \/ \E o \in Outcomes : Execute(c, o)
    \/ \E r \in Outcomes \cup {"failed"} : Return(c, r)
    \/ Abandon(c)

\* Every call returns, whatever becomes of the other participant; a call
\* returns once, so fairness of all is fairness of each.
Returns == \E c \in Calls : \E r \in Outcomes \cup {"failed"} : Return(c, r)

ServiceSpec ==
  SInit /\ [][SNext]_svars /\ WF_svars(Returns)
=============================================================================
