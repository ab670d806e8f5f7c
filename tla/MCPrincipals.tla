---------------------------- MODULE MCPrincipals ----------------------------
(***************************************************************************)
(* Two processes, one of them with two threads, and requests for users and *)
(* for clients that compete for one name, some of them not valid.          *)
(***************************************************************************)
EXTENDS Principals

CONSTANTS p1, p2, t1, t2, u1

MCProcess == {p1, p2}
MCThread == {t1, t2, u1}
MCProcOf == [t \in MCThread |-> IF t = u1 THEN p2 ELSE p1]

Request(type, owner, purpose) == [type |-> type, name |-> "n", owner |-> owner, purpose |-> purpose]
Humans == {Request("human", "", ""), Request("human", "o", "")}
Agents == {Request("agent", "o", "p"), Request("agent", "", "p")}
MCInput == [t \in MCThread |-> Humans \cup IF t = u1 THEN Agents ELSE {}]
=============================================================================
