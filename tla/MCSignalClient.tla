---------------------------- MODULE MCSignalClient ----------------------------
(* SignalClient with an application task and the negotiation, or with two *)
(* application tasks.                                                     *)
EXTENDS SignalClient

CONSTANTS app1, app2, nego

MCSenders == {app1, nego}
MCQueueable == {app1}
MCTwoApps == {app1, app2}
=============================================================================
