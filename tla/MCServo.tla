------------------------------ MODULE MCServo ------------------------------
(* Two joints that move, one of them between limits that are close. *)
EXTENDS ServoStream

At(a, b) == [j \in 1 .. 7 |-> CASE j = 1 -> a [] j = 2 -> b [] OTHER -> 0]
MCHalfVel == At(2, 1)
MCHalfAcc == At(1, 1)
MCLever == [j \in 1 .. 7 |-> 1]
MCLo == At(-9, 0)
MCHi == At(9, 2)
MCRequests == {At(0, 0), At(5, 3)}
MCPostures == {At(0, 0)}
=============================================================================
