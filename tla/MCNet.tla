-------------------------------- MODULE MCNet --------------------------------
EXTENDS NetRepair
CONSTANTS a1, a2, n1, n2, p1, p2, q1
MCOrder == <<a1, a2>>
MCCabling == [a \in {a1, a2} |-> IF a = a1 THEN n1 ELSE n2]
MCOf == [q \in {p1, p2, q1} |-> IF q = p2 THEN a2 ELSE a1]
=============================================================================
