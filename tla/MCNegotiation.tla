---------------------------- MODULE MCNegotiation ----------------------------
(* Negotiation with the identities of a small instance. *)
EXTENDS Negotiation

CONSTANTS t1, t2, p1, p2

MCTasks == {t1, t2}
MCPublishers == {p1, p2}
MCFaultSets ==
  {{}, {"late answer"}, {"late answer", "lost offer"}, {"failure", "close"}}
MCOfferers == MCTasks \cup {Debounce}
=============================================================================
