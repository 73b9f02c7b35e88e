---------------------------- MODULE MCLocalTracks ----------------------------
(* LocalTracks with two tracks. *)
EXTENDS LocalTracks

CONSTANTS t1, t2

MCTracks == {t1, t2}
=============================================================================
