-------------------------- MODULE MCReliableChannel --------------------------
(* ReliableChannel with packets of one and two bytes. *)
EXTENDS ReliableChannel

MCPacketBytes == [n \in Ids |-> 1 + (n % 2)]
=============================================================================
