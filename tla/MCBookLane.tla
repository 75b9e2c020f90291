----------------------------- MODULE MCBookLane -----------------------------
(* BookLane for TLC: its constants are given by the configurations. *)
EXTENDS BookLane, TLC

Symmetry == Permutations(Levels)
=============================================================================
