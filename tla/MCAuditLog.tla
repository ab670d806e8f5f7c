----------------------------- MODULE MCAuditLog -----------------------------
(* An instance of AuditLog for TLC.                                        *)
EXTENDS AuditLog, TLC

CONSTANTS p1, p2, r1, r2, r3, sys, org

\* p1 serves r1 and r2, which one transaction may insert together, and p2 serves
\* r3; all of them are events of one organisation.
HomeDef == [r \in Request |-> IF r = r3 THEN p2 ELSE p1]
ChainDef == [r \in Request |-> org]
============================================================================
