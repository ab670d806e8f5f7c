---------------------------- MODULE MCJwksCache ----------------------------
(* Instances of JwksCache for TLC.                                         *)
EXTENDS JwksCache, TLC

CONSTANTS t1, t2, t3

Symmetry == Permutations(Request)
============================================================================
