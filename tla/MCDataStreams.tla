---------------------------- MODULE MCDataStreams ----------------------------
(* DataStreams with a stream of unknown length and one of one byte. *)
EXTENDS DataStreams

CONSTANTS noTotal

MCTotals == {noTotal, 1}
=============================================================================
