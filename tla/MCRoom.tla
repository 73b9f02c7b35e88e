-------------------------------- MODULE MCRoom --------------------------------
(* Room with one API caller. *)
EXTENDS Room

CONSTANTS a1

MCApiCallers == {a1}
=============================================================================
