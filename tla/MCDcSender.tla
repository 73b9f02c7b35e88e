----------------------------- MODULE MCDcSender -----------------------------
(* DcSender with five frames of two, no, one, three and one packets. *)
EXTENDS DcSender

MCPacketCount == <<2, 0, 1, 3, 1>>
=============================================================================
