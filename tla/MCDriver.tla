------------------------------ MODULE MCDriver ------------------------------
(* One arm, its monitor thread and the threads that call it. *)
EXTENDS ArmDriver

=============================================================================
