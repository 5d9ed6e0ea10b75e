-------------------------- MODULE MaintenanceChannel --------------------------
(***************************************************************************)
(* What ArmStateMonitor.maintenance (monitor.py) promises the operator who *)
(* calls it, whatever happens to the poll thread and to the box meanwhile: *)
(* a request that was refused has written nothing and never will; a request*)
(* that was reported as done has made all its SDK writes; a caller that    *)
(* timed out knows nothing, the operation may still be executed, once.     *)
(***************************************************************************)
EXTENDS Naturals

CONSTANT Requests            \* calls of maintenance(), one operation each

VARIABLES told,              \* what the caller has got
          writes             \* SDK writes: 0 none, 1 the first, 2 all of them

chanVars == <<told, writes>>

Answers == {"refused", "failed", "done", "timeout"}

Init == /\ told = [r \in Requests |-> "idle"]
        /\ writes = [r \in Requests |-> 0]

Ask(r) == /\ told[r] = "idle"
          /\ \E a \in {"waiting", "refused"} : told' = [told EXCEPT ![r] = a]
          /\ UNCHANGED writes

Write(r) == /\ told[r] \in {"waiting", "timeout"} /\ writes[r] < 2
            /\ writes' = [writes EXCEPT ![r] = @ + 1]
            /\ UNCHANGED told

Tell(r, a) == /\ told[r] = "waiting"
              /\ a = "refused" => writes[r] = 0
              /\ a = "done" => writes[r] = 2
              /\ told' = [told EXCEPT ![r] = a]
              /\ UNCHANGED writes

Next == \E r \in Requests : \/ Ask(r) \/ Write(r)
                            \/ \E a \in Answers : Tell(r, a)

Spec == Init /\ [][Next]_chanVars

=============================================================================
