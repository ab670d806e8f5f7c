-------------------------------- MODULE Rbac --------------------------------
(***************************************************************************)
(* Organisations, teams, members, roles, role assignments and resource     *)
(* ownership, and the check that reads them. Each thread serves one        *)
(* request at a time; every database statement of a handler is a step of   *)
(* its own and nothing but Postgres's constraints ties the steps together. *)
(* (internal/org, internal/role, internal/authz, authn.RequireMember.)     *)
(*                                                                         *)
(* UNIQUE (org_id, name) makes <<org, name>> the identity of a role.       *)
(* Identifiers are random: a client can name an organisation only after    *)
(* CreateOrganization has returned it.                                     *)
(***************************************************************************)
EXTENDS Naturals, Sequences

CONSTANTS
    Thread,         \* requests served at the same time
    Principal,
    Root,           \* the caller with the root token
    Org, Team, Resource, Action,
    CustomRole,     \* names of roles that clients create
    Op,             \* the operations clients use
    MaxRequests,    \* bound on the number of requests, for TLC
    None

DefaultRoles == <<[name |-> "owner", perms |-> {"*"}],
                  [name |-> "admin",
                   perms |-> {"org.manage", "member.manage", "role.manage"}],
                  [name |-> "member", perms |-> {"org.read"}]>>

Caller == Principal \cup {Root}
Scope == Org \cup Team

ASSUME ConstantsOK ==
    /\ Root \notin Principal /\ None \notin Principal \cup Scope
    /\ Org \cap Team = {} /\ MaxRequests \in Nat
    /\ \A i \in DOMAIN DefaultRoles : DefaultRoles[i].name \notin CustomRole

VARIABLES
    org,        \* organizations: none, stored, known (returned to a client),
                \* orphaned (a failed creation left it), deleted
    members,    \* memberships
    team,       \* the organisation of each team
    teamMembers,
    roles,
    assigned,   \* role_assignments
    ownership,
    pc, req,    \* where each thread is, and the request it serves
    could,      \* ghost: the answers an atomic check could have given so far
    calls       \* number of requests so far

tables == <<org, members, team, teamMembers, roles, assigned, ownership>>
vars == <<tables, pc, req, could, calls>>

RoleId == Org \X ({DefaultRoles[i].name : i \in DOMAIN DefaultRoles} \cup CustomRole)
Perm == Action \cup UNION {DefaultRoles[i].perms : i \in DOMAIN DefaultRoles}

NoRole == <<None, None>>
NoReq == [op |-> "none", by |-> None, org |-> None, who |-> None, role |-> NoRole,
          scope |-> None, perms |-> {}, res |-> None, act |-> None, n |-> 0,
          said |-> FALSE]

PC == {"idle", "seed", "compensate", "member", "validate", "write", "owner",
       "permission", "answered"}

Operation == {"none", "CreateOrganization", "CreateTeam", "AddMember", "AddTeamMember",
              "CreateRole", "AssignRole", "RegisterOwnership", "Check"}

TypeOK ==
    /\ org \in [Org -> {"none", "stored", "known", "orphaned", "deleted"}]
    /\ members \subseteq Principal \X Org
    /\ team \in [Team -> Org \cup {None}]
    /\ teamMembers \subseteq Principal \X Team
    /\ roles \subseteq [id : RoleId, perms : SUBSET Perm]
    /\ assigned \subseteq [who : Principal, role : RoleId, scope : Scope]
    /\ ownership \in [Resource -> [owner : Principal \cup {None}, org : Org \cup {None}]]
    /\ pc \in [Thread -> PC]
    /\ req \in [Thread -> [op : Operation, by : Caller \cup {None}, org : Org \cup {None},
                           who : Principal \cup {None}, role : RoleId \cup {NoRole},
                           scope : Scope \cup {None}, perms : SUBSET Perm,
                           res : Resource \cup {None}, act : Action \cup {None},
                           n : Nat, said : BOOLEAN]]
    /\ could \in [Thread -> SUBSET BOOLEAN]
    /\ calls \in Nat

Init ==
    /\ org = [o \in Org |-> "none"]
    /\ members = {} /\ teamMembers = {} /\ roles = {} /\ assigned = {}
    /\ team = [m \in Team |-> None]
    /\ ownership = [r \in Resource |-> [owner |-> None, org |-> None]]
    /\ pc = [t \in Thread |-> "idle"] /\ req = [t \in Thread |-> NoReq]
    /\ could = [t \in Thread |-> {}] /\ calls = 0

Exists(o) == o \in Org /\ org[o] \in {"stored", "known", "orphaned"}
Known == {o \in Org : org[o] = "known"}
Teams == {m \in Team : team[m] # None}
----------------------------------------------------------------------------
(* The statements. A row whose organisation is gone is refused             *)
(* (REFERENCES), and one that is already there is left alone (ON CONFLICT). *)

InsertOrg(o) == org' = [org EXCEPT ![o] = "stored"]

\* ON DELETE CASCADE takes everything that refers to the organisation along.
DeleteCascade(o) ==
    /\ org' = [org EXCEPT ![o] = "deleted"]
    /\ members' = {m \in members : m[2] # o}
    /\ team' = [m \in Team |-> IF team[m] = o THEN None ELSE team[m]]
    /\ teamMembers' = {m \in teamMembers : team[m[2]] # o}
    /\ roles' = {r \in roles : r.id[1] # o}
    /\ assigned' = {a \in assigned : a.role[1] # o}
    /\ ownership' = [r \in Resource |-> IF ownership[r].org = o
                                        THEN [owner |-> None, org |-> None] ELSE ownership[r]]

InsertTeam(m, o) ==
    /\ team[m] = None /\ Exists(o)
    /\ team' = [team EXCEPT ![m] = o]

InsertMember(p, o) == Exists(o) /\ members' = members \cup {<<p, o>>}

InsertTeamMember(p, m) == m \in Teams /\ teamMembers' = teamMembers \cup {<<p, m>>}

InsertRole(id, ps) == roles' = roles \cup {[id |-> id, perms |-> ps]}

RoleExists(id) == \E r \in roles : r.id = id

InsertAssignment(p, role, scope) ==
    /\ RoleExists(role)
    /\ assigned' = assigned \cup {[who |-> p, role |-> role, scope |-> scope]}

\* ON CONFLICT DO UPDATE: the last registration wins.
UpsertOwnership(x, p, o) ==
    /\ Exists(o)
    /\ ownership' = [ownership EXCEPT ![x] = [owner |-> p, org |-> o]]
----------------------------------------------------------------------------
(* Control flow of one thread. *)

Goto(t, label) == pc' = [pc EXCEPT ![t] = label]

Done(t) ==
    /\ Goto(t, "idle")
    /\ req' = [req EXCEPT ![t] = NoReq]

(***************************************************************************)
(* CreateOrganization, for the root token only: insert the organisation,   *)
(* then its default roles one by one; if one fails, delete it again.       *)
(***************************************************************************)
CreateOrganization(t, o) ==
    /\ pc[t] = "idle" /\ calls < MaxRequests /\ "CreateOrganization" \in Op
    /\ org[o] = "none"
    /\ InsertOrg(o)
    /\ Goto(t, "seed")
    /\ req' = [req EXCEPT ![t] = [NoReq EXCEPT !.op = "CreateOrganization", !.by = Root,
                                               !.org = o, !.n = 1]]
    /\ calls' = calls + 1
    /\ UNCHANGED <<members, team, teamMembers, roles, assigned, ownership>>

SeedDefaults(t) ==
    LET o == req[t].org  role == DefaultRoles[req[t].n] IN
    /\ pc[t] = "seed"
    /\ InsertRole(<<o, role.name>>, role.perms)
    /\ IF req[t].n < Len(DefaultRoles)
       THEN req' = [req EXCEPT ![t].n = @ + 1] /\ UNCHANGED <<org, pc>>
       ELSE org' = [org EXCEPT ![o] = "known"] /\ Done(t)
    /\ UNCHANGED <<members, team, teamMembers, assigned, ownership, calls>>

\* Mutant: the error is returned and the organisation left as it is.
SeedFailsKeeps(t) ==
    /\ pc[t] = "seed"
    /\ Done(t)
    /\ UNCHANGED <<tables, calls>>

SeedFails(t) ==
    /\ pc[t] = "seed"
    /\ Goto(t, "compensate")
    /\ UNCHANGED <<tables, req, calls>>

DeleteOrg(t) ==
    /\ pc[t] = "compensate"
    /\ DeleteCascade(req[t].org)
    /\ Done(t)
    /\ UNCHANGED calls

\* The error of the deletion is dropped; or the process dies while creating.
Orphan(t) ==
    /\ pc[t] = "compensate" \/ pc[t] = "seed"
    /\ org' = [org EXCEPT ![req[t].org] = "orphaned"]
    /\ Done(t)
    /\ UNCHANGED <<members, team, teamMembers, roles, assigned, ownership, calls>>
----------------------------------------------------------------------------
(* The other requests begin by finding the organisation they are about: it *)
(* is given, or it is that of the team (TeamOrg) or of the role (RoleOrg). *)

On(op, b, o) == [NoReq EXCEPT !.op = op, !.by = b, !.org = o]

Asks(t, r) == r.op \in Op /\ req' = [req EXCEPT ![t] = r]

AsksFor(t, b) ==
    \/ \E o \in Known : Asks(t, On("CreateTeam", b, o))
    \/ \E o \in Known, p \in Principal : Asks(t, [On("AddMember", b, o) EXCEPT !.who = p])
    \/ \E m \in Teams, p \in Principal :
          Asks(t, [On("AddTeamMember", b, team[m]) EXCEPT !.scope = m, !.who = p])
    \/ \E o \in Known, n \in CustomRole, ps \in SUBSET Action :
          Asks(t, [On("CreateRole", b, o) EXCEPT !.role = <<o, n>>, !.perms = ps])
    \/ \E r \in roles, s \in Known \cup Teams, p \in Principal :
          /\ r.id[1] \in Known
          /\ Asks(t, [On("AssignRole", b, r.id[1]) EXCEPT !.role = r.id, !.scope = s, !.who = p])
    \/ \E o \in Known, x \in Resource, p \in Principal :
          Asks(t, [On("RegisterOwnership", b, o) EXCEPT !.res = x, !.who = p])
    \/ \E o \in Known, m \in Teams \cup {None}, p \in Principal, a \in Action, x \in Resource :
          Asks(t, [On("Check", b, o) EXCEPT !.scope = m, !.who = p, !.act = a, !.res = x])

Request(t) ==
    /\ pc[t] = "idle" /\ calls < MaxRequests
    /\ \E b \in Caller : AsksFor(t, b)
    /\ Goto(t, "member")
    /\ calls' = calls + 1
    /\ UNCHANGED tables

\* The root token passes; anyone else must be a member.
IsMember(r) == r.by = Root \/ <<r.by, r.org>> \in members

AfterMember(op) == CASE op = "Check" -> "owner"
                     [] op = "AssignRole" -> "validate"
                     [] OTHER -> "write"

\* Mutant: only the requests that create something are gated.
RequireMemberCreating(t) ==
    /\ pc[t] = "member"
    /\ IF IsMember(req[t]) \/ req[t].op = "AddTeamMember"
       THEN Goto(t, AfterMember(req[t].op)) /\ UNCHANGED req
       ELSE Done(t)
    /\ UNCHANGED <<tables, calls>>

RequireMember(t) ==
    /\ pc[t] = "member"
    /\ IF IsMember(req[t]) THEN Goto(t, AfterMember(req[t].op)) /\ UNCHANGED req
                           ELSE Done(t)
    /\ UNCHANGED <<tables, calls>>

\* A database error, or the process dies: the request ends without effect.
Abort(t) ==
    /\ pc[t] \in {"member", "validate", "write", "owner", "permission"}
    /\ Done(t)
    /\ UNCHANGED <<tables, calls>>
----------------------------------------------------------------------------
(* The writes. *)

Writes(t, op) == pc[t] = "write" /\ req[t].op = op

CreateTeam(t, m) ==
    /\ Writes(t, "CreateTeam")
    /\ InsertTeam(m, req[t].org)
    /\ Done(t)
    /\ UNCHANGED <<org, members, teamMembers, roles, assigned, ownership, calls>>

AddMember(t) ==
    /\ Writes(t, "AddMember")
    /\ InsertMember(req[t].who, req[t].org)
    /\ Done(t)
    /\ UNCHANGED <<org, team, teamMembers, roles, assigned, ownership, calls>>

AddTeamMember(t) ==
    /\ Writes(t, "AddTeamMember")
    /\ InsertTeamMember(req[t].who, req[t].scope)
    /\ Done(t)
    /\ UNCHANGED <<org, members, team, roles, assigned, ownership, calls>>

CreateRole(t) ==
    /\ Writes(t, "CreateRole") /\ Exists(req[t].org)
    /\ ~RoleExists(req[t].role)
    /\ InsertRole(req[t].role, req[t].perms)
    /\ Done(t)
    /\ UNCHANGED <<org, members, team, teamMembers, assigned, ownership, calls>>

ScopeOrg(s) == IF s \in Team THEN team[s] ELSE s

\* Mutant: a team of any organisation will do.
ValidateScopeAnyTeam(t) ==
    /\ pc[t] = "validate"
    /\ IF RoleExists(req[t].role) /\ (req[t].scope \in Team \/ req[t].scope = req[t].role[1])
       THEN Goto(t, "write") /\ UNCHANGED req
       ELSE Done(t)
    /\ UNCHANGED <<tables, calls>>

\* Service.AssignRole looks the role up again, and the team of a team scope: two
\* statements, one step, since neither row changes once the client knows it.
ValidateScope(t) ==
    /\ pc[t] = "validate"
    /\ IF RoleExists(req[t].role) /\ ScopeOrg(req[t].scope) = req[t].role[1]
       THEN Goto(t, "write") /\ UNCHANGED req
       ELSE Done(t)
    /\ UNCHANGED <<tables, calls>>

\* Mutant: a principal has one role per scope.
AssignRoleReplaces(t) ==
    /\ Writes(t, "AssignRole") /\ RoleExists(req[t].role)
    /\ assigned' = {a \in assigned : a.who # req[t].who \/ a.scope # req[t].scope}
                      \cup {[who |-> req[t].who, role |-> req[t].role, scope |-> req[t].scope]}
    /\ Done(t)
    /\ UNCHANGED <<org, members, team, teamMembers, roles, ownership, calls>>

AssignRole(t) ==
    /\ Writes(t, "AssignRole")
    /\ InsertAssignment(req[t].who, req[t].role, req[t].scope)
    /\ Done(t)
    /\ UNCHANGED <<org, members, team, teamMembers, roles, ownership, calls>>

RegisterOwnership(t) ==
    /\ Writes(t, "RegisterOwnership")
    /\ UpsertOwnership(req[t].res, req[t].who, req[t].org)
    /\ Done(t)
    /\ UNCHANGED <<org, members, team, teamMembers, roles, assigned, calls>>
----------------------------------------------------------------------------
(* Service.Check: the owner first, then the roles, in two statements.      *)

IsOwner(r) == ownership[r.res].owner = r.who

Grants(a, act) == \E r \in roles : r.id = a.role /\ {act, "*"} \cap r.perms # {}

HasPermission(r) ==
    \E a \in assigned : /\ a.who = r.who /\ a.scope \in {r.org, r.scope}
                        /\ Grants(a, r.act)

Answer(t, allowed) ==
    /\ Goto(t, "answered")
    /\ req' = [req EXCEPT ![t].said = allowed]

CheckOwner(t) ==
    /\ pc[t] = "owner"
    /\ IF IsOwner(req[t]) THEN Answer(t, TRUE)
                          ELSE Goto(t, "permission") /\ UNCHANGED req
    /\ UNCHANGED <<tables, calls>>

CheckPermission(t) ==
    /\ pc[t] = "permission"
    /\ Answer(t, HasPermission(req[t]))
    /\ UNCHANGED <<tables, calls>>

\* Mutant: the roles first, then the owner.
ServiceCheckSwapped(t) ==
    /\ \/ /\ pc[t] = "owner"
          /\ IF HasPermission(req[t]) THEN Answer(t, TRUE)
                                      ELSE Goto(t, "permission") /\ UNCHANGED req
       \/ /\ pc[t] = "permission"
          /\ Answer(t, IsOwner(req[t]))
    /\ UNCHANGED <<tables, calls>>

ServiceCheck(t) == CheckOwner(t) \/ CheckPermission(t)

Reply(t) ==
    /\ pc[t] = "answered"
    /\ Done(t)
    /\ UNCHANGED <<tables, calls>>

Checking(t) == req[t].op = "Check"

\* could collects what the check would say if it were one statement.
Observe ==
    could' = [t \in Thread |->
                IF Checking(t)' THEN could[t] \cup {(IsOwner(req[t]) \/ HasPermission(req[t]))'}
                                ELSE {}]

Step ==
    \E t \in Thread :
        \/ \E o \in Org : CreateOrganization(t, o)
        \/ SeedDefaults(t) \/ SeedFails(t) \/ DeleteOrg(t) \/ Orphan(t)
        \/ Request(t) \/ RequireMember(t) \/ Abort(t)
        \/ \E m \in Team : CreateTeam(t, m)
        \/ AddMember(t) \/ AddTeamMember(t) \/ CreateRole(t)
        \/ ValidateScope(t) \/ AssignRole(t) \/ RegisterOwnership(t)
        \/ ServiceCheck(t) \/ Reply(t)

Next == Step /\ Observe

Spec == Init /\ [][Next]_vars
----------------------------------------------------------------------------
(***************************************************************************)
(* A role is only ever assigned within its own organisation, whatever is   *)
(* deleted or created between the checks of AssignRole and its insert:     *)
(* scope_id has no foreign key, so nothing but these checks and the        *)
(* cascade keeps it so.                                                    *)
(***************************************************************************)
AssignedWithinOrg ==
    \A a \in assigned : /\ RoleExists(a.role) /\ Exists(a.role[1])
                        /\ ScopeOrg(a.scope) = a.role[1]

(***************************************************************************)
(* CreateOrg leaves an organisation with all its default roles or none at  *)
(* all; only a deletion that fails too, or a crash, orphans one ("an org   *)
(* with no roles would be left behind and unadministrable").               *)
(***************************************************************************)
CompleteOrGone ==
    \A o \in Org :
        /\ org[o] = "known" =>
              \A i \in DOMAIN DefaultRoles : RoleExists(<<o, DefaultRoles[i].name>>)
        /\ org[o] = "stored" => \E t \in Thread : pc[t] \in {"seed", "compensate"}
                                                    /\ req[t].org = o

Rows(o) == <<{m \in members : m[2] = o},
             {m \in teamMembers : team[m[2]] = o},
             {r \in roles : r.id[1] = o},
             {a \in assigned : a.role[1] = o},
             {<<r, ownership[r].owner>> : r \in {x \in Resource : ownership[x].org = o}},
             {m \in Team : team[m] = o}>>

Adds(o) ==
    LET old == Rows(o)  new == Rows(o)' IN \E i \in DOMAIN old : ~(new[i] \subseteq old[i])

(***************************************************************************)
(* Whoever adds a row to an organisation is a member of it at that very    *)
(* moment, or holds the root token, although membership was tested some    *)
(* statements earlier (RequireMember in every handler).                    *)
(***************************************************************************)
OnlyMembersWrite ==
    [][\A o \in Org : tables' # tables /\ Adds(o) =>
          \E t \in Thread : /\ req[t].org = o /\ pc[t] \in {"seed", "write"}
                            /\ pc'[t] # pc[t] \/ req'[t] # req[t]
                            /\ IsMember(req[t])]_vars

(***************************************************************************)
(* Check reads owner and roles in two statements, and still its answer is  *)
(* the one a single atomic read would have given at some moment between    *)
(* request and reply: owner first, and permissions that only grow.         *)
(***************************************************************************)
CheckLinearizes ==
    \A t \in Thread : pc[t] = "answered" => req[t].said \in could[t]

(***************************************************************************)
(* The tables implement Authority: permissions only grow.                  *)
(***************************************************************************)
Auth == INSTANCE Authority WITH
    NoOwner <- None,
    owner <- [r \in Resource |-> ownership[r].owner],
    perms <- {x \in Principal \X Action \X Scope :
                \E a \in assigned : a.who = x[1] /\ a.scope = x[3] /\ Grants(a, x[2])}

ImplementsAuthority == Auth!AuthoritySpec
============================================================================
