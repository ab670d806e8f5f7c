---------------------------- MODULE MCDelegation ----------------------------
(* Instances of Delegation for TLC.                                        *)
EXTENDS Delegation, TLC

CONSTANTS t1, t2, k1

\* t1 is served by a replica whose clock is ahead, t2 by one that is behind.
Skewed == (t1 :> 1) @@ (t2 :> -1)
Synchronised == (t1 :> 0) @@ (t2 :> 0)
OneProof == {[jkt |-> k1, iat |-> 1, bound |-> TRUE]}

Symmetry == Permutations({t1, t2})
============================================================================
