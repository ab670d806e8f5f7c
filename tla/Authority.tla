----------------------------- MODULE Authority -----------------------------
(***************************************************************************)
(* What the rest of the system may rely on about permissions: a resource   *)
(* has at most one owner, who may be replaced at any time, and a           *)
(* permission, once granted, is never taken back (there is no operation    *)
(* that unassigns a role or changes one). (internal/authz, internal/role.) *)
(***************************************************************************)
CONSTANTS
    Principal,
    Action,
    Resource,
    Scope,      \* what a role may be assigned on: organisations and teams
    NoOwner

VARIABLES
    owner,      \* the owner of each resource
    perms       \* who may do what on which scope

authority == <<owner, perms>>

AuthorityInit ==
    /\ owner = [r \in Resource |-> NoOwner]
    /\ perms = {}

Register(r, p) ==
    /\ owner' = [owner EXCEPT ![r] = p]
    /\ UNCHANGED perms

Grant(p, acts, s) ==
    /\ perms' = perms \cup ({p} \X acts \X {s})
    /\ UNCHANGED owner

AuthorityNext ==
    \E p \in Principal :
        \/ \E r \in Resource : Register(r, p)
        \/ \E acts \in SUBSET Action, s \in Scope : Grant(p, acts, s)

AuthoritySpec == AuthorityInit /\ [][AuthorityNext]_authority
----------------------------------------------------------------------------
IsOwner(p, r) == owner[r] = p

\* scopes: the organisation of the request and its team, if it names one.
HasPermission(p, a, scopes) == \E s \in scopes : <<p, a, s>> \in perms

Permitted(p, a, r, scopes) == IsOwner(p, r) \/ HasPermission(p, a, scopes)
============================================================================
