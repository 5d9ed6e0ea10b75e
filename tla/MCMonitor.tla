------------------------------ MODULE MCMonitor ------------------------------
(* One monitor, started twice, and the callers of its maintenance channel. *)
EXTENDS StateMonitor

=============================================================================
