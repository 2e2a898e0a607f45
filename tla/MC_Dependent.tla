---------------------------- MODULE MC_Dependent ----------------------------
(* Model values for TxPool::Dependent: four elements, two conflict keys, *)
(* fees and sizes that give equal and unequal fee per byte.             *)
EXTENDS Dependent

CONSTANTS d1, d2, d3, d4, k1, k2

MCDElems == {d1, d2, d3, d4}
MCKeys == {k1, k2}

=============================================================================
