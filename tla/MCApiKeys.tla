----------------------------- MODULE MCApiKeys -----------------------------
(* Instances of ApiKeys for TLC.                                           *)
EXTENDS ApiKeys, TLC

CONSTANTS t1, t2, k1, k2, k3

Symmetry == Permutations({t1, t2}) \cup Permutations(KeyId)
============================================================================
