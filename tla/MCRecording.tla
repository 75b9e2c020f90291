---------------------------- MODULE MCRecording -----------------------------
(* Recording for TLC: its constants are given by the configuration. *)
EXTENDS Recording
=============================================================================
