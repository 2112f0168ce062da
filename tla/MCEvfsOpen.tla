------------------------------ MODULE MCEvfsOpen ------------------------------
(* An instance of EvfsOpen: two keys, two values of which one is half a chunk, *)
(* files of up to two chunks.                                              *)
EXTENDS EvfsOpen

CONSTANTS k1, k2, v1, v2

MCKeys == {k1, k2}
MCValues == {v1, v2}
MCShort == {v2}

=============================================================================
