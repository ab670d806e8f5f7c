---------------------------- MODULE MCRateLimit ----------------------------
(* An instance of RateLimit for TLC.                                       *)
EXTENDS RateLimit, TLC

CONSTANTS t1, t2

\* Small enough for the global and for the prefix's bucket to be exhausted first.
SmallBuckets == [g \in Gates |-> IF g = "global" THEN 2 ELSE 1]
OnePerTick == [g \in Gates |-> 1]

Symmetry == Permutations({t1, t2}) \cup Permutations(Caller)
============================================================================
