---------------------------- MODULE MCRemoteTracks ----------------------------
(* RemoteTracks with two tracks and two subscribers. *)
EXTENDS RemoteTracks

CONSTANTS t1, t2, c1, c2

MCTracks == {t1, t2}
MCOneTrack == {t1}
MCSubscribers == {c1, c2}
=============================================================================
