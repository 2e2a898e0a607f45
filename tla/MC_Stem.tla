------------------------------ MODULE MC_Stem -------------------------------
(* Model-checking instance of Stem: three elements on a 4-bit clock. *)
EXTENDS Stem

CONSTANTS s1, s2, s3

MCSElems == {s1, s2, s3}

=============================================================================
