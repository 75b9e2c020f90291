---------------------------- MODULE MCLifecycle -----------------------------
(* Lifecycle for TLC. *)
EXTENDS Lifecycle, TLC

CONSTANTS a1, a2

MCSeed == (a1 :> 5) @@ (a2 :> 5)
=============================================================================
