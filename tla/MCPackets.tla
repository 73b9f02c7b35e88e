------------------------------ MODULE MCPackets ------------------------------
(* Packets with frames of none to four chunks and a buffer of three. *)
EXTENDS Packets

MCSizes == {0, 1, 3, 4}
=============================================================================
