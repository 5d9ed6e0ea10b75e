------------------------------ MODULE MCBudget ------------------------------
(* Two recoveries per three time units, on a clock that runs to MaxTime. *)
EXTENDS RecoveryBudget

=============================================================================
