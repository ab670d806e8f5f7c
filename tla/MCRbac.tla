------------------------------- MODULE MCRbac -------------------------------
(* Instances of Rbac for TLC.                                              *)
EXTENDS Rbac, TLC

CONSTANTS t1, t2, alice, bob

Symmetry == Permutations({t1, t2}) \cup Permutations({alice, bob}) \cup Permutations(Org)
============================================================================
