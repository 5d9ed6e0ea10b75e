------------------------------ MODULE MCWorkcell ------------------------------
(* Two arms of which one may fail; one arm that may fail, with settings and a caller *)
(* of clear_errors(); no arm but one that is observed; or one camera.                *)
EXTENDS HardwareWorkcell

CONSTANTS a1, a2, a3, a4, k1, k2

MCCells == {[arms |-> <<a1, a2>>, watched |-> {}, cameras |-> {}],
            [arms |-> <<a4>>, watched |-> {}, cameras |-> {}],
            [arms |-> <<>>, watched |-> {a3}, cameras |-> {}],
            [arms |-> <<>>, watched |-> {}, cameras |-> {k1}],
            [arms |-> <<>>, watched |-> {}, cameras |-> {k2}]}
=============================================================================
