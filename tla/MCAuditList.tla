---------------------------- MODULE MCAuditList ----------------------------
(* An instance of AuditList for TLC: one replica's clock is ahead.         *)
EXTENDS AuditList

CONSTANTS p1, p2

SkewOffset == [p \in Proc |-> IF p = p1 THEN 1 ELSE 0]
============================================================================
