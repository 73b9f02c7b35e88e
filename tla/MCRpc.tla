-------------------------------- MODULE MCRpc --------------------------------
(* Rpc with two calls. *)
EXTENDS Rpc

CONSTANTS r1, r2

MCCalls == {r1, r2}
MCCancellable == {r1}
=============================================================================
