------------------------- MODULE MCBookLaneHistory --------------------------
(* BookLane with its history, for TLC. *)
EXTENDS BookLaneHistory
=============================================================================
