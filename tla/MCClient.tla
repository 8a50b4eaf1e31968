------------------------------ MODULE MCClient ------------------------------
(* Client for TLC: one Client that sends itself, one with a send thread, and a *)
(* MultiSession of two.                                                        *)
EXTENDS Client

CONSTANTS k1, k2

MCSetups == {[added |-> {k1}, async |-> {}, calls |-> 3],
             [added |-> {k1}, async |-> {k1}, calls |-> 2],
             [added |-> {k1, k2}, async |-> {}, calls |-> 1]}

MCLocal == {[added |-> {k1}, async |-> {}, calls |-> 2]}
=============================================================================
