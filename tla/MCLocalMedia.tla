----------------------------- MODULE MCLocalMedia -----------------------------
(* LocalMedia with one track. *)
EXTENDS LocalMedia

CONSTANTS t1

MCTracks == {t1}
MCFaultSets == {{}, {"late answer"}, {"cancel"}, {"failure"}}
=============================================================================
