------------------------------ MODULE MC_Fluff ------------------------------
(* Model-checking instance of Fluff: three elements, two conflict keys, *)
(* two peers. *)
EXTENDS Fluff

CONSTANTS e1, e2, e3, k1, k2, p1, p2

MCElems == {e1, e2, e3}
MCKeys == {k1, k2}
MCPeers == {p1, p2}

=============================================================================
