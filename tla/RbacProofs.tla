----------------------------- MODULE RbacProofs -----------------------------
(***************************************************************************)
(* Proofs about Rbac: assignments stay within their organisation, creation *)
(* is complete or undone, only members write, the two statements of Check  *)
(* act as one, and the tables implement Authority, for any number of       *)
(* requests, organisations, teams, roles and principals.                   *)
(***************************************************************************)
EXTENDS Rbac, TLAPS

Req == [op : Operation, by : Caller \cup {None}, org : Org \cup {None},
        who : Principal \cup {None}, role : RoleId \cup {NoRole},
        scope : Scope \cup {None}, perms : SUBSET Perm,
        res : Resource \cup {None}, act : Action \cup {None}, n : Nat, said : BOOLEAN]

Name(i) == DefaultRoles[i].name
Creating == {"seed", "compensate"}
Serving == {"member", "validate", "write", "owner", "permission", "answered"}
----------------------------------------------------------------------------
(* The inductive invariant. *)

\* An organisation that is stored only is being created by one thread.
OrgsInv ==
    /\ \A t \in Thread : pc[t] \in Creating => req[t].org \in Org /\ org[req[t].org] = "stored"
    /\ \A t, u \in Thread : pc[t] \in Creating /\ pc[u] \in Creating /\ req[t].org = req[u].org => t = u
    /\ \A o \in Org : org[o] = "stored" => \E t \in Thread : pc[t] \in Creating /\ req[t].org = o

\* It has the default roles that its thread has come to, and no other.
Seeding(t) ==
    pc[t] = "seed" =>
        /\ req[t].n \in 1..3
        /\ \A i \in 1..3 : i < req[t].n => RoleExists(<<req[t].org, Name(i)>>)
        /\ \A r \in roles : r.id[1] = req[t].org =>
              \E i \in 1..3 : i < req[t].n /\ r.id = <<req[t].org, Name(i)>>

SeedInv == \A t \in Thread : Seeding(t)

RolesInv ==
    /\ \A r \in roles : Exists(r.id[1])
    /\ \A r, s \in roles : r.id = s.id => r = s
    /\ \A o \in Org : org[o] = "known" => \A i \in 1..3 : RoleExists(<<o, Name(i)>>)

\* Whatever refers to an organisation refers to one that a client knows.
UsedInv ==
    /\ \A a \in assigned : /\ RoleExists(a.role) /\ org[a.role[1]] = "known"
                           /\ ScopeOrg(a.scope) = a.role[1]
    /\ \A m \in Team : team[m] # None => org[team[m]] = "known"
    /\ \A x \in Resource : ownership[x].org # None => org[ownership[x].org] = "known"

Wellformed(r) ==
    /\ r.org \in Org
    /\ r.op \in {"AddMember", "AddTeamMember", "AssignRole", "RegisterOwnership", "Check"} =>
          r.who \in Principal
    /\ r.op = "AddTeamMember" => r.scope \in Team
    /\ r.op \in {"CreateRole", "AssignRole"} => r.role \in RoleId /\ r.role[1] = r.org
    /\ r.op = "AssignRole" => r.scope \in Scope
    /\ r.op \in {"RegisterOwnership", "Check"} => r.res \in Resource

Served(t) ==
    pc[t] \in Serving =>
        /\ Wellformed(req[t]) /\ org[req[t].org] = "known"
        /\ pc[t] = "validate" => req[t].op = "AssignRole"
        /\ pc[t] = "write" /\ req[t].op = "AssignRole" => ScopeOrg(req[t].scope) = req[t].role[1]
        /\ pc[t] \in {"owner", "permission", "answered"} => req[t].op = "Check"

ServedInv == \A t \in Thread : Served(t)

\* Permissions are never taken back: a refusal was right when the owner was read.
Linear(t) ==
    /\ pc[t] = "permission" => HasPermission(req[t]) \/ FALSE \in could[t]
    /\ pc[t] = "answered" => req[t].said \in could[t]

LinearInv == \A t \in Thread : Linear(t)

IInv == TypeOK /\ OrgsInv /\ SeedInv /\ RolesInv /\ UsedInv /\ ServedInv /\ LinearInv
----------------------------------------------------------------------------
LEMMA Defaults ==
    /\ DOMAIN DefaultRoles = 1..3 /\ Len(DefaultRoles) = 3
    /\ \A i \in 1..3 : /\ DefaultRoles[i].perms \subseteq Perm /\ Name(i) \notin CustomRole
                       /\ \A o \in Org : <<o, Name(i)>> \in RoleId
    /\ \A i, j \in 1..3 : Name(i) = Name(j) => i = j
  <1>1. DOMAIN DefaultRoles = 1..3 /\ Len(DefaultRoles) = 3
    BY DEF DefaultRoles
  <1>2. Name(1) = "owner" /\ Name(2) = "admin" /\ Name(3) = "member"
    BY DEF DefaultRoles, Name
  <1>3. \A i, j \in 1..3 : Name(i) = Name(j) => i = j
    <2>1. \A i \in 1..3 : i = 1 \/ i = 2 \/ i = 3
      OBVIOUS
    <2> QED
      BY <1>2, <2>1
  <1>4. ASSUME NEW i \in 1..3
        PROVE  /\ DefaultRoles[i].perms \subseteq Perm /\ Name(i) \notin CustomRole
               /\ \A o \in Org : <<o, Name(i)>> \in RoleId
    <2>1. DefaultRoles[i].perms \subseteq Perm
      BY <1>1 DEF Perm
    <2>2. Name(i) \notin CustomRole
      BY <1>1, ConstantsOK DEF Name
    <2>3. Name(i) \in {DefaultRoles[j].name : j \in DOMAIN DefaultRoles}
      BY <1>1 DEF Name
    <2> QED
      BY <2>1, <2>2, <2>3 DEF RoleId
  <1> QED
    BY <1>1, <1>3, <1>4

LEMMA NoReqFacts ==
    NoReq \in Req /\ NoReq.op = "none"
  <1> DEFINE no == FALSE
  <1>1. no \in BOOLEAN
    OBVIOUS
  <1>2. NoReq = [op |-> "none", by |-> None, org |-> None, who |-> None, role |-> NoRole,
                 scope |-> None, perms |-> {}, res |-> None, act |-> None, n |-> 0, said |-> no]
    BY DEF NoReq
  <1> HIDE DEF no
  <1> QED
    BY <1>1, <1>2 DEF Req, Operation

LEMMA InitHolds == Init => IInv
  <1> SUFFICES ASSUME Init PROVE IInv
    OBVIOUS
  <1>1. TypeOK
    <2>1. ownership \in [Resource -> [owner : Principal \cup {None}, org : Org \cup {None}]]
      BY DEF Init
    <2>2. req \in [Thread -> Req]
      BY NoReqFacts DEF Init
    <2> QED
      BY <2>1, <2>2 DEF Init, TypeOK, PC, Req
  <1>2. \A t \in Thread : pc[t] = "idle"
    BY DEF Init
  <1>3. OrgsInv /\ SeedInv /\ ServedInv /\ LinearInv
    BY <1>2 DEF Init, OrgsInv, SeedInv, Seeding, ServedInv, Served, LinearInv, Linear, Creating, Serving
  <1>4. RolesInv
    BY DEF Init, RolesInv
  <1>5. UsedInv
    BY DEF Init, UsedInv
  <1> QED
    BY <1>1, <1>3, <1>4, <1>5 DEF IInv

\* What a client may ask for.
LEMMA OnFacts ==
    ASSUME NEW op \in Operation, NEW b \in Caller, NEW o \in Org
    PROVE  On(op, b, o) \in Req /\ On(op, b, o).op = op /\ On(op, b, o).org = o
  BY Zenon, NoReqFacts DEF On, Req

LEMMA RequestFacts ==
    ASSUME IInv, NEW t \in Thread, NEW b \in Caller, AsksFor(t, b)
    PROVE  \E r \in Req : /\ Wellformed(r) /\ org[r.org] = "known" /\ r.op # "none"
                          /\ r.op = "AddTeamMember" => team[r.scope] = r.org
                          /\ req' = [req EXCEPT ![t] = r]
  <1>1. CASE \E o \in Known : Asks(t, On("CreateTeam", b, o))
    <2>1. PICK o \in Known : Asks(t, On("CreateTeam", b, o))
      BY <1>1
    <2> DEFINE q == On("CreateTeam", b, o)
               new == On("CreateTeam", b, o)
    <2>2. o \in Org /\ org[o] = "known"
      BY <2>1 DEF Known
    <2>3. q \in Req /\ q.op = "CreateTeam" /\ q.org = o
      BY <2>2, OnFacts DEF Operation
    <2>4. new \in Req /\ new.op = "CreateTeam" /\ new.org = o
      BY <2>3
    <2>5. Asks(t, new)
      BY <2>1 DEF q
    <2> HIDE DEF new
    <2> QED
      BY <2>2, <2>4, <2>5, Zenon DEF Asks, Wellformed
  <1>2. CASE \E o \in Known, p \in Principal : 
                   Asks(t, [On("AddMember", b, o) EXCEPT !.who = p])
    <2>1. PICK o \in Known, p \in Principal : 
                   Asks(t, [On("AddMember", b, o) EXCEPT !.who = p])
      BY <1>2
    <2> DEFINE q == On("AddMember", b, o)
               new == [q EXCEPT !.who = p]
    <2>2. o \in Org /\ org[o] = "known"
      BY <2>1 DEF Known
    <2>3. q \in Req /\ q.op = "AddMember" /\ q.org = o
      BY <2>2, OnFacts DEF Operation
    <2> HIDE DEF q
    <2>4. new \in Req /\ new.op = "AddMember" /\ new.org = o /\ new.who = p
      BY <2>2, <2>3 DEF Req
    <2>5. Asks(t, new)
      BY <2>1 DEF q
    <2> HIDE DEF new
    <2> QED
      BY <2>2, <2>4, <2>5, Zenon DEF Asks, Wellformed
  <1>3. CASE \E m \in Teams, p \in Principal : 
                   Asks(t, [On("AddTeamMember", b, team[m]) EXCEPT !.scope = m, !.who = p])
    <2>1. PICK m \in Teams, p \in Principal : 
                   Asks(t, [On("AddTeamMember", b, team[m]) EXCEPT !.scope = m, !.who = p])
      BY <1>3, Zenon
    <2> DEFINE q == On("AddTeamMember", b, team[m])
               new == [q EXCEPT !.scope = m, !.who = p]
    <2>2. team[m] \in Org /\ org[team[m]] = "known" /\ m \in Team /\ m \in Scope
      BY <2>1 DEF Teams, IInv, UsedInv, TypeOK, Scope
    <2>3. q \in Req /\ q.op = "AddTeamMember" /\ q.org = team[m]
      BY <2>2, OnFacts DEF Operation
    <2> HIDE DEF q
    <2>4. new \in Req /\ new.op = "AddTeamMember" /\ new.org = team[m] /\ new.scope = m /\ new.who = p
      BY <2>2, <2>3, Zenon DEF Req
    <2>5. Asks(t, new)
      BY <2>1 DEF q
    <2> HIDE DEF new
    <2> QED
      BY Zenon, <2>2, <2>4, <2>5 DEF Asks, Wellformed
  <1>4. CASE \E o \in Known, n \in CustomRole, ps \in SUBSET Action : 
                   Asks(t, [On("CreateRole", b, o) EXCEPT !.role = <<o, n>>, !.perms = ps])
    <2>1. PICK o \in Known, n \in CustomRole, ps \in SUBSET Action : 
                   Asks(t, [On("CreateRole", b, o) EXCEPT !.role = <<o, n>>, !.perms = ps])
      BY <1>4, Zenon
    <2> DEFINE q == On("CreateRole", b, o)
               new == [q EXCEPT !.role = <<o, n>>, !.perms = ps]
    <2>2. o \in Org /\ org[o] = "known" /\ <<o, n>> \in RoleId /\ ps \in SUBSET Perm /\ <<o, n>>[1] = o
      BY <2>1 DEF Known, RoleId, Perm
    <2>3. q \in Req /\ q.op = "CreateRole" /\ q.org = o
      BY <2>2, OnFacts DEF Operation
    <2> HIDE DEF q
    <2>4. new \in Req /\ new.op = "CreateRole" /\ new.org = o /\ new.role = <<o, n>>
      BY <2>2, <2>3, ZenonT(40) DEF Req
    <2>5. Asks(t, new)
      BY <2>1 DEF q
    <2> HIDE DEF new
    <2> QED
      BY <2>2, <2>4, <2>5, Zenon DEF Asks, Wellformed
  <1>5. CASE \E r \in roles, s \in Known \cup Teams, p \in Principal : 
                   /\ r.id[1] \in Known
                   /\ Asks(t, [On("AssignRole", b, r.id[1]) EXCEPT !.role = r.id, !.scope = s, !.who = p])
    <2>1. PICK r \in roles, s \in Known \cup Teams, p \in Principal : 
                   /\ r.id[1] \in Known
                   /\ Asks(t, [On("AssignRole", b, r.id[1]) EXCEPT !.role = r.id, !.scope = s, !.who = p])
      BY <1>5, Zenon
    <2> DEFINE q == On("AssignRole", b, r.id[1])
               new == [q EXCEPT !.role = r.id, !.scope = s, !.who = p]
    <2>2. r.id[1] \in Org /\ org[r.id[1]] = "known" /\ r.id \in RoleId /\ s \in Scope
      BY <2>1 DEF Known, Teams, IInv, TypeOK, Scope
    <2>3. q \in Req /\ q.op = "AssignRole" /\ q.org = r.id[1]
      BY <2>2, OnFacts DEF Operation
    <2> HIDE DEF q
    <2>4. new \in Req /\ new.op = "AssignRole" /\ new.org = r.id[1] /\ new.role = r.id /\ new.scope = s /\ new.who = p
      BY <2>2, <2>3, Zenon DEF Req
    <2>5. Asks(t, new)
      BY <2>1 DEF q
    <2> HIDE DEF new
    <2> QED
      BY <2>2, <2>4, <2>5, Zenon DEF Asks, Wellformed
  <1>6. CASE \E o \in Known, x \in Resource, p \in Principal : 
                   Asks(t, [On("RegisterOwnership", b, o) EXCEPT !.res = x, !.who = p])
    <2>1. PICK o \in Known, x \in Resource, p \in Principal : 
                   Asks(t, [On("RegisterOwnership", b, o) EXCEPT !.res = x, !.who = p])
      BY <1>6, Zenon
    <2> DEFINE q == On("RegisterOwnership", b, o)
               new == [q EXCEPT !.res = x, !.who = p]
    <2>2. o \in Org /\ org[o] = "known"
      BY <2>1 DEF Known
    <2>3. q \in Req /\ q.op = "RegisterOwnership" /\ q.org = o
      BY <2>2, OnFacts DEF Operation
    <2> HIDE DEF q
    <2>4. new \in Req /\ new.op = "RegisterOwnership" /\ new.org = o /\ new.res = x /\ new.who = p
      BY <2>2, <2>3, Zenon DEF Req
    <2>5. Asks(t, new)
      BY <2>1 DEF q
    <2> HIDE DEF new
    <2> QED
      BY <2>2, <2>4, <2>5, Zenon DEF Asks, Wellformed
  <1>7. CASE \E o \in Known, m \in Teams \cup {None}, p \in Principal, a \in Action, x \in Resource : 
                   Asks(t, [On("Check", b, o) EXCEPT !.scope = m, !.who = p, !.act = a, !.res = x])
    <2>1. PICK o \in Known, m \in Teams \cup {None}, p \in Principal, a \in Action, x \in Resource : 
                   Asks(t, [On("Check", b, o) EXCEPT !.scope = m, !.who = p, !.act = a, !.res = x])
      BY <1>7, Zenon
    <2> DEFINE q == On("Check", b, o)
               new == [q EXCEPT !.scope = m, !.who = p, !.act = a, !.res = x]
    <2>2. o \in Org /\ org[o] = "known" /\ m \in Scope \cup {None}
      BY <2>1 DEF Known, Teams, Scope
    <2>3. q \in Req /\ q.op = "Check" /\ q.org = o
      BY <2>2, OnFacts DEF Operation
    <2> HIDE DEF q
    <2>4. new \in Req /\ new.op = "Check" /\ new.org = o /\ new.scope = m /\ new.who = p /\ new.res = x
      BY <2>2, <2>3, ZenonT(40) DEF Req
    <2>5. Asks(t, new)
      BY <2>1 DEF q
    <2> HIDE DEF new
    <2> QED
      BY <2>2, <2>4, <2>5, Zenon DEF Asks, Wellformed
  <1> QED
    BY <1>1, <1>2, <1>3, <1>4, <1>5, <1>6, <1>7, Zenon DEF AsksFor
----------------------------------------------------------------------------
(* What a step of t leaves to the other threads. *)

Evolves(t) ==
    /\ \A q \in Thread \ {t} : pc'[q] = pc[q] /\ req'[q] = req[q]
    /\ \A o \in Org : org[o] = "known" => org'[o] = "known"
    /\ \A m \in Team : team[m] # None => team'[m] = team[m]
    /\ assigned \subseteq assigned'
    /\ \A a \in assigned, r \in roles : r.id = a.role => r \in roles'
    /\ \A q \in Thread \ {t} : pc[q] \in Creating =>
          /\ org'[req[q].org] = "stored"
          /\ \A r \in roles \cup roles' : r.id[1] = req[q].org => (r \in roles <=> r \in roles')

LEMMA CouldGrows ==
    ASSUME Observe, NEW t \in Thread
    PROVE  LET b == (IsOwner(req[t]) \/ HasPermission(req[t]))' IN
           /\ b \in BOOLEAN
           /\ req'[t].op = "Check" => could'[t] = could[t] \cup {b}
           /\ req'[t].op # "Check" => could'[t] = {}
  BY DEF Observe, Checking

LEMMA CouldType ==
    ASSUME could \in [Thread -> SUBSET BOOLEAN], Observe
    PROVE  could' \in [Thread -> SUBSET BOOLEAN]
  <1>1. \A t \in Thread : could'[t] \in SUBSET BOOLEAN
    <2> TAKE t \in Thread
    <2>1. could[t] \in SUBSET BOOLEAN
      OBVIOUS
    <2> QED
      BY <2>1, CouldGrows, Zenon
  <1>2. DOMAIN could' = Thread /\ could' = [t \in Thread |-> could'[t]]
    BY DEF Observe
  <1> QED
    BY <1>1, <1>2

LEMMA PermissionKept ==
    ASSUME NEW t \in Thread, Evolves(t), NEW q, HasPermission(req[q]), req'[q] = req[q]
    PROVE  HasPermission(req[q])'
  <1>1. PICK a \in assigned : /\ a.who = req[q].who /\ a.scope \in {req[q].org, req[q].scope}
                              /\ Grants(a, req[q].act)
    BY DEF HasPermission
  <1>2. a \in assigned'
    BY DEF Evolves
  <1>3. PICK r \in roles : r.id = a.role /\ {req[q].act, "*"} \cap r.perms # {}
    BY <1>1 DEF Grants
  <1>4. r \in roles'
    BY <1>3 DEF Evolves
  <1> QED
    BY <1>1, <1>2, <1>3, <1>4 DEF HasPermission, Grants

LEMMA OthersHold ==
    ASSUME IInv, Observe, NEW t \in Thread, Evolves(t), NEW q \in Thread \ {t}
    PROVE  Seeding(q)' /\ Served(q)' /\ Linear(q)'
  <1>1. pc'[q] = pc[q] /\ req'[q] = req[q] /\ req[q] \in Req
    BY Zenon DEF Evolves, IInv, TypeOK, Req
  <1>2. Seeding(q)'
    <2> SUFFICES ASSUME pc[q] = "seed" PROVE Seeding(q)'
      BY <1>1 DEF Seeding
    <2>1. Seeding(q) /\ \A r \in roles \cup roles' : r.id[1] = req[q].org => (r \in roles <=> r \in roles')
      BY DEF Evolves, IInv, SeedInv, Creating
    <2>2. \A o, n : RoleExists(<<o, n>>) /\ o = req[q].org => RoleExists(<<o, n>>)'
      BY <2>1 DEF RoleExists
    <2> QED
      BY <1>1, <2>1, <2>2 DEF Seeding
  <1>3. Served(q)'
    <2> SUFFICES ASSUME pc[q] \in Serving PROVE Served(q)'
      BY Zenon, <1>1 DEF Served
    <2>1. Served(q) /\ org'[req[q].org] = "known"
      BY Zenon DEF IInv, ServedInv, Served, Evolves, Wellformed
    <2>2. ASSUME pc[q] = "write", req[q].op = "AssignRole"
          PROVE  ScopeOrg(req[q].scope)' = req[q].role[1]
      <3>1. ScopeOrg(req[q].scope) = req[q].role[1] /\ req[q].role[1] \in Org
        BY <2>1, <2>2 DEF Served, Wellformed
      <3> QED
        BY <3>1, <1>1, ConstantsOK DEF ScopeOrg, Evolves, Scope
    <2> QED
      BY Zenon, <1>1, <2>1, <2>2 DEF Served, Wellformed
  <1>4. Linear(q)'
    <2> SUFFICES ASSUME pc[q] \in {"permission", "answered"} PROVE Linear(q)'
      BY Zenon, <1>1 DEF Linear
    <2>1. Linear(q) /\ req'[q].op = "Check"
      BY <1>1 DEF IInv, LinearInv, ServedInv, Served, Serving
    <2>2. could[q] \subseteq could'[q]
      BY <2>1, CouldGrows
    <2>3. HasPermission(req[q]) => HasPermission(req[q])'
      BY <1>1, PermissionKept
    <2> QED
      BY <1>1, <2>1, <2>2, <2>3, Zenon DEF Linear
  <1> QED
    BY <1>2, <1>3, <1>4

TablesOK ==
    /\ org \in [Org -> {"none", "stored", "known", "orphaned", "deleted"}]
    /\ members \subseteq Principal \X Org
    /\ team \in [Team -> Org \cup {None}]
    /\ teamMembers \subseteq Principal \X Team
    /\ roles \subseteq [id : RoleId, perms : SUBSET Perm]
    /\ assigned \subseteq [who : Principal, role : RoleId, scope : Scope]
    /\ ownership \in [Resource -> [owner : Principal \cup {None}, org : Org \cup {None}]]

\* A step of thread t to label, with r as its request.
LEMMA StepHolds ==
    ASSUME IInv, Observe, NEW t \in Thread, NEW label \in PC, NEW r \in Req, Goto(t, label),
           req' = [req EXCEPT ![t] = r], calls' \in Nat, TablesOK', Evolves(t),
           OrgsInv', RolesInv', UsedInv', Seeding(t)', Served(t)', Linear(t)'
    PROVE  IInv'
  <1>1. TypeOK'
    <2>1. could' \in [Thread -> SUBSET BOOLEAN]
      BY CouldType DEF IInv, TypeOK
    <2>2. pc' \in [Thread -> PC]
      BY DEF IInv, TypeOK, Goto
    <2>3. req' \in [Thread -> Req]
      <3>1. req \in [Thread -> Req]
        BY DEF IInv, TypeOK, Req
      <3> QED
        BY Zenon, <3>1
    <2> QED
      BY <2>1, <2>2, <2>3 DEF TypeOK, TablesOK, Req
  <1>2. \A q \in Thread \ {t} : Seeding(q)' /\ Served(q)' /\ Linear(q)'
    BY OthersHold
  <1>3. SeedInv' /\ ServedInv' /\ LinearInv'
    BY <1>2 DEF SeedInv, ServedInv, LinearInv
  <1> QED
    BY Zenon, <1>1, <1>3 DEF IInv

LEMMA DoneHolds ==
    ASSUME IInv, Observe, NEW t \in Thread, Done(t), UNCHANGED calls, TablesOK', Evolves(t),
           OrgsInv', RolesInv', UsedInv'
    PROVE  IInv'
  <1>1. pc'[t] = "idle" /\ "idle" \in PC /\ calls' \in Nat
    BY Zenon DEF IInv, TypeOK, Done, Goto, PC
  <1>2. Seeding(t)' /\ Served(t)' /\ Linear(t)'
    BY <1>1 DEF Seeding, Served, Linear, Serving
  <1> QED
    BY Zenon, <1>1, <1>2, NoReqFacts, StepHolds DEF Done

\* pc and req of the other threads.
LEMMA OthersStay ==
    ASSUME IInv, NEW t \in Thread, NEW label, NEW r, Goto(t, label), req' = [req EXCEPT ![t] = r]
    PROVE  /\ pc'[t] = label /\ req'[t] = r
           /\ \A q \in Thread \ {t} : pc'[q] = pc[q] /\ req'[q] = req[q]
  BY Zenon DEF IInv, TypeOK, Goto

\* A step that leaves the organisations alone, by a thread that creates none.
LEMMA OrgsKept ==
    ASSUME IInv, NEW t \in Thread, UNCHANGED org, pc[t] \notin Creating, pc'[t] \notin Creating,
           \A q \in Thread \ {t} : pc'[q] = pc[q] /\ req'[q] = req[q]
    PROVE  OrgsInv'
  <1>1. \A q \in Thread : /\ pc'[q] \in Creating <=> pc[q] \in Creating
                          /\ pc[q] \in Creating => req'[q] = req[q]
    OBVIOUS
  <1> QED
    BY <1>1 DEF IInv, OrgsInv

LEMMA TablesSame ==
    ASSUME IInv, UNCHANGED tables
    PROVE  TablesOK' /\ RolesInv' /\ UsedInv'
  <1>1. UNCHANGED <<org, members, team, teamMembers, roles, assigned, ownership>>
    BY DEF tables
  <1>2. TablesOK'
    BY <1>1 DEF IInv, TypeOK, TablesOK
  <1>3. RolesInv'
    BY Zenon, <1>1 DEF IInv, RolesInv, Exists, RoleExists
  <1>4. UsedInv'
    BY <1>1 DEF IInv, UsedInv, RoleExists, ScopeOrg
  <1> QED
    BY <1>2, <1>3, <1>4

\* A step that leaves the tables alone, by a thread that creates no organisation.
LEMMA PlainStep ==
    ASSUME IInv, Observe, NEW t \in Thread, NEW label \in PC, NEW r \in Req, Goto(t, label),
           req' = [req EXCEPT ![t] = r], calls' \in Nat, UNCHANGED tables,
           pc[t] \notin Creating, label \notin Creating, Served(t)', Linear(t)'
    PROVE  IInv'
  <1>1. /\ pc'[t] = label /\ req'[t] = r
        /\ \A q \in Thread \ {t} : pc'[q] = pc[q] /\ req'[q] = req[q]
    BY Zenon, OthersStay
  <1>2. Evolves(t)
    BY Zenon, <1>1 DEF Evolves, tables, IInv, OrgsInv
  <1>3. Seeding(t)'
    BY Zenon, <1>1 DEF Seeding, Creating
  <1>4. OrgsInv'
    BY <1>1, OrgsKept DEF tables
  <1> QED
    BY Zenon, <1>2, <1>3, <1>4, TablesSame, StepHolds

LEMMA PlainDone ==
    ASSUME IInv, Observe, NEW t \in Thread, Done(t), UNCHANGED <<tables, calls>>, pc[t] \notin Creating
    PROVE  IInv'
  <1>1. pc'[t] = "idle" /\ "idle" \in PC /\ "idle" \notin Creating /\ calls' \in Nat
    BY Zenon DEF IInv, TypeOK, Done, Goto, PC, Creating
  <1>2. Served(t)' /\ Linear(t)'
    BY <1>1 DEF Served, Linear, Serving
  <1> QED
    BY Zenon, <1>1, <1>2, NoReqFacts, PlainStep DEF Done
----------------------------------------------------------------------------
(* The steps that leave the tables alone. *)

LEMMA RequestStep ==
    ASSUME IInv, Observe, NEW t \in Thread, Request(t)
    PROVE  IInv'
  <1>1. pc[t] = "idle" /\ Goto(t, "member") /\ calls' = calls + 1 /\ UNCHANGED tables
    BY Zenon DEF Request
  <1>2. PICK r \in Req : /\ Wellformed(r) /\ org[r.org] = "known" /\ r.op # "none"
                         /\ req' = [req EXCEPT ![t] = r]
    BY RequestFacts DEF Request
  <1>3. pc'[t] = "member" /\ req'[t] = r
    BY Zenon, <1>1, <1>2, OthersStay
  <1>4. Served(t)'
    <2>1. Wellformed(req[t])' /\ (org[req[t].org] = "known")'
      BY Zenon, <1>1, <1>2, <1>3 DEF Wellformed, tables
    <2> QED
      BY Zenon, <1>3, <2>1 DEF Served
  <1>5. Linear(t)'
    BY Zenon, <1>3 DEF Linear
  <1>6. calls' \in Nat /\ "member" \in PC /\ "member" \notin Creating /\ pc[t] \notin Creating
    BY <1>1 DEF IInv, TypeOK, PC, Creating
  <1> QED
    BY Zenon, <1>1, <1>2, <1>4, <1>5, <1>6, PlainStep

\* The request stays the same and the thread goes on to label.
LEMMA GoOn ==
    ASSUME IInv, Observe, NEW t \in Thread, pc[t] \in Serving, NEW label \in Serving, Goto(t, label),
           UNCHANGED <<tables, req, calls>>, label = "validate" => req[t].op = "AssignRole",
           label = "write" /\ req[t].op = "AssignRole" => ScopeOrg(req[t].scope) = req[t].role[1],
           label \in {"owner", "permission", "answered"} => req[t].op = "Check", Linear(t)'
    PROVE  IInv'
  <1>1. req[t] \in Req /\ req' = [req EXCEPT ![t] = req[t]] /\ calls' \in Nat
    BY Zenon DEF IInv, TypeOK, Req
  <1>2. pc'[t] = label /\ req'[t] = req[t]
    BY DEF IInv, TypeOK, Goto
  <1>3. Wellformed(req[t]) /\ org[req[t].org] = "known"
    BY Zenon DEF IInv, ServedInv, Served
  <1>4. Served(t)'
    BY Zenon, <1>2, <1>3 DEF Served, Wellformed, ScopeOrg, tables
  <1>5. label \in PC /\ label \notin Creating /\ pc[t] \notin Creating
    BY DEF Serving, Creating, PC
  <1> QED
    BY ZenonT(40), <1>1, <1>4, <1>5, PlainStep

LEMMA RequireMemberStep ==
    ASSUME IInv, Observe, NEW t \in Thread, RequireMember(t)
    PROVE  IInv'
  <1>1. pc[t] = "member" /\ pc[t] \in Serving /\ pc[t] \notin Creating /\ UNCHANGED <<tables, calls>>
    BY Zenon DEF RequireMember, Serving, Creating
  <1>2. CASE Goto(t, AfterMember(req[t].op)) /\ UNCHANGED req
    <2> DEFINE label == AfterMember(req[t].op)
    <2>1. /\ label \in {"owner", "validate", "write"}
          /\ label = "owner" => req[t].op = "Check"
          /\ label = "validate" => req[t].op = "AssignRole"
          /\ label = "write" => req[t].op # "AssignRole"
      BY DEF AfterMember
    <2>2. Goto(t, label)
      BY Zenon, <1>2
    <2> HIDE DEF label
    <2>3. pc'[t] = label
      BY <2>2 DEF Goto, IInv, TypeOK
    <2>4. Linear(t)' /\ label \in Serving
      BY Zenon, <2>1, <2>3 DEF Linear, Serving
    <2> QED
      BY <1>1, <1>2, <2>1, <2>2, <2>4, GoOn
  <1>3. CASE Done(t)
    BY Zenon, <1>1, <1>3, PlainDone
  <1> QED
    BY Zenon, <1>2, <1>3 DEF RequireMember

LEMMA ValidateScopeStep ==
    ASSUME IInv, Observe, NEW t \in Thread, ValidateScope(t)
    PROVE  IInv'
  <1>1. pc[t] = "validate" /\ pc[t] \in Serving /\ pc[t] \notin Creating /\ UNCHANGED <<tables, calls>>
    BY Zenon DEF ValidateScope, Serving, Creating
  <1>2. CASE ScopeOrg(req[t].scope) = req[t].role[1] /\ Goto(t, "write") /\ UNCHANGED req
    <2>1. pc'[t] = "write"
      BY <1>2 DEF Goto, IInv, TypeOK
    <2>2. Linear(t)' /\ "write" \in Serving
      BY <2>1 DEF Linear, Serving
    <2> QED
      BY Zenon, <1>1, <1>2, <2>2, GoOn
  <1>3. CASE Done(t)
    BY <1>1, <1>3, PlainDone
  <1> QED
    BY <1>2, <1>3 DEF ValidateScope

LEMMA AbortReplyStep ==
    ASSUME IInv, Observe, NEW t \in Thread, Abort(t) \/ Reply(t)
    PROVE  IInv'
  <1>1. Done(t) /\ UNCHANGED <<tables, calls>> /\ pc[t] \notin Creating
    BY DEF Abort, Reply, Creating
  <1> QED
    BY <1>1, PlainDone

SameQuestion(r, k) ==
    /\ r.op = k.op /\ r.res = k.res /\ r.who = k.who /\ r.org = k.org /\ r.scope = k.scope
    /\ r.act = k.act /\ r.role = k.role

LEMMA AnswerKeeps ==
    ASSUME IInv, NEW t \in Thread, NEW b \in BOOLEAN, Answer(t, b)
    PROVE  /\ req'[t] \in Req /\ SameQuestion(req'[t], req[t]) /\ req'[t].said = b
           /\ req' = [req EXCEPT ![t] = req'[t]] /\ pc'[t] = "answered"
  <1> DEFINE r == [req[t] EXCEPT !.said = b]
  <1>1. req[t] \in Req /\ req' = [req EXCEPT ![t] = r] /\ pc'[t] = "answered" /\ t \in DOMAIN req
    BY DEF IInv, TypeOK, Req, Answer, Goto
  <1>2. r \in Req /\ SameQuestion(r, req[t]) /\ r.said = b
    BY <1>1 DEF Req, SameQuestion
  <1> HIDE DEF r
  <1> QED
    BY <1>1, <1>2

\* What an atomic check would say after the step is among the possible answers.
LEMMA CouldNow ==
    ASSUME IInv, Observe, NEW t \in Thread, req[t].op = "Check", SameQuestion(req'[t], req[t]),
           UNCHANGED tables
    PROVE  /\ IsOwner(req[t]) \/ HasPermission(req[t]) => TRUE \in could'[t]
           /\ ~(IsOwner(req[t]) \/ HasPermission(req[t])) => FALSE \in could'[t]
           /\ could[t] \subseteq could'[t]
  <1> DEFINE b == (IsOwner(req[t]) \/ HasPermission(req[t]))'
             c == IsOwner(req[t]) \/ HasPermission(req[t])
  <1>1. b \in BOOLEAN /\ could'[t] = could[t] \cup {b}
    BY CouldGrows DEF SameQuestion
  <1>2. b <=> c
    <2>1. IsOwner(req[t])' <=> IsOwner(req[t])
      BY Zenon DEF IsOwner, SameQuestion, tables
    <2>2. HasPermission(req[t])' <=> HasPermission(req[t])
      BY DEF HasPermission, Grants, SameQuestion, tables
    <2> QED
      BY Zenon, <2>1, <2>2
  <1> HIDE DEF b, c
  <1>3. b \in could'[t] /\ could[t] \subseteq could'[t]
    BY <1>1
  <1>4. (c => TRUE \in could'[t]) /\ (~c => FALSE \in could'[t])
    BY <1>1, <1>2, <1>3, Zenon
  <1> QED
    BY <1>3, <1>4, Zenon DEF c

LEMMA AnswerStep ==
    ASSUME IInv, Observe, NEW t \in Thread, pc[t] \in {"owner", "permission"}, NEW b \in BOOLEAN,
           Answer(t, b), UNCHANGED <<tables, calls>>, b \in could'[t]
    PROVE  IInv'
  <1>1. /\ req'[t] \in Req /\ SameQuestion(req'[t], req[t]) /\ req'[t].said = b
        /\ req' = [req EXCEPT ![t] = req'[t]] /\ pc'[t] = "answered"
    BY Zenon, AnswerKeeps
  <1>2. Wellformed(req[t]) /\ org[req[t].org] = "known" /\ req[t].op = "Check"
    BY Zenon DEF IInv, ServedInv, Served, Serving
  <1>3. Wellformed(req'[t]) /\ org'[req'[t].org] = "known" /\ req'[t].op = "Check"
    BY Zenon, <1>1, <1>2 DEF Wellformed, SameQuestion, tables
  <1>4. Served(t)'
    BY Zenon, <1>1, <1>3 DEF Served, Wellformed
  <1>5. Linear(t)'
    BY <1>1 DEF Linear
  <1>6. /\ "answered" \in PC /\ "answered" \notin Creating /\ pc[t] \notin Creating
        /\ calls' \in Nat /\ Goto(t, "answered")
    BY DEF PC, Creating, IInv, TypeOK, Answer
  <1> QED
    BY Zenon, <1>1, <1>4, <1>5, <1>6, PlainStep

LEMMA CheckOwnerStep ==
    ASSUME IInv, Observe, NEW t \in Thread, CheckOwner(t)
    PROVE  IInv'
  <1>1. pc[t] = "owner" /\ pc[t] \in Serving /\ UNCHANGED <<tables, calls>>
    BY Zenon DEF CheckOwner, Serving
  <1>2. req[t].op = "Check"
    BY <1>1 DEF IInv, ServedInv, Served
  <1>3. CASE IsOwner(req[t]) /\ Answer(t, TRUE)
    <2>1. SameQuestion(req'[t], req[t])
      BY <1>3, AnswerKeeps, Zenon
    <2>2. TRUE \in could'[t]
      BY Zenon, <1>1, <1>2, <1>3, <2>1, CouldNow
    <2> QED
      BY <1>1, <1>3, <2>2, AnswerStep, Zenon
  <1>4. CASE ~IsOwner(req[t]) /\ Goto(t, "permission") /\ UNCHANGED req
    <2>1. pc'[t] = "permission" /\ req'[t] = req[t]
      BY <1>4 DEF Goto, IInv, TypeOK
    <2>2. HasPermission(req[t]) \/ FALSE \in could'[t]
      <3>1. SameQuestion(req'[t], req[t])
        BY Zenon, <2>1 DEF SameQuestion
      <3> QED
        BY Zenon, <1>1, <1>2, <1>4, <3>1, CouldNow
    <2>3. HasPermission(req[t]) => HasPermission(req[t])'
      BY <1>1, <2>1 DEF HasPermission, Grants, tables
    <2>4. Linear(t)' /\ "permission" \in Serving
      BY Zenon, <2>1, <2>2, <2>3 DEF Linear, Serving
    <2> QED
      BY Zenon, <1>1, <1>2, <1>4, <2>4, GoOn
  <1> QED
    BY Zenon, <1>3, <1>4 DEF CheckOwner

LEMMA CheckPermissionStep ==
    ASSUME IInv, Observe, NEW t \in Thread, CheckPermission(t)
    PROVE  IInv'
  <1> DEFINE b == HasPermission(req[t])
  <1>1. /\ pc[t] = "permission" /\ UNCHANGED <<tables, calls>> /\ Answer(t, b)
    BY DEF CheckPermission
  <1>2. req[t].op = "Check" /\ (b \/ FALSE \in could[t])
    BY Zenon, <1>1 DEF IInv, ServedInv, Served, Serving, LinearInv, Linear
  <1>3. b \in BOOLEAN
    BY DEF HasPermission
  <1>4. /\ b => (IsOwner(req[t]) \/ HasPermission(req[t]))
    BY Zenon
  <1> HIDE DEF b
  <1>5. SameQuestion(req'[t], req[t])
    BY <1>1, <1>3, AnswerKeeps
  <1>6. (b => TRUE \in could'[t]) /\ could[t] \subseteq could'[t]
    BY Zenon, <1>1, <1>2, <1>4, <1>5, CouldNow
  <1>7. b \in could'[t]
    BY <1>2, <1>3, <1>6, Zenon
  <1> QED
    BY Zenon, <1>1, <1>3, <1>7, AnswerStep
----------------------------------------------------------------------------
(* The writes. *)

LEMMA WriteFacts ==
    ASSUME IInv, NEW t \in Thread, pc[t] = "write"
    PROVE  /\ Wellformed(req[t]) /\ req[t] \in Req /\ req[t].org \in Org
           /\ org[req[t].org] = "known" /\ pc[t] \notin Creating
           /\ req[t].op = "AssignRole" => ScopeOrg(req[t].scope) = req[t].role[1]
  BY Zenon DEF IInv, ServedInv, Served, Serving, Creating, Wellformed, TypeOK, Req

LEMMA WriteStep ==
    ASSUME IInv, Observe, NEW t \in Thread, pc[t] = "write", Done(t), UNCHANGED <<org, calls>>,
           TablesOK', RolesInv', UsedInv', assigned \subseteq assigned', roles \subseteq roles',
           \A m \in Team : team[m] # None => team'[m] = team[m],
           \A r \in roles' \ roles : org[r.id[1]] = "known"
    PROVE  IInv'
  <1>1. /\ pc'[t] = "idle" /\ \A q \in Thread \ {t} : pc'[q] = pc[q] /\ req'[q] = req[q]
    BY Zenon, OthersStay DEF Done
  <1>2. OrgsInv'
    BY Zenon, <1>1, OrgsKept DEF Creating
  <1>3. Evolves(t)
    <2>1. \A q \in Thread : pc[q] \in Creating => org[req[q].org] = "stored"
      BY Zenon DEF IInv, OrgsInv
    <2> QED
      BY ZenonT(40), <1>1, <2>1 DEF Evolves
  <1> QED
    BY Zenon, <1>2, <1>3, DoneHolds

LEMMA CreateTeamStep ==
    ASSUME IInv, Observe, NEW t \in Thread, NEW m \in Team, CreateTeam(t, m)
    PROVE  IInv'
  <1> DEFINE o == req[t].org
  <1>1. /\ pc[t] = "write" /\ team[m] = None /\ team' = [team EXCEPT ![m] = o] /\ Done(t)
        /\ UNCHANGED <<org, members, teamMembers, roles, assigned, ownership, calls>>
    BY Zenon DEF CreateTeam, Writes, InsertTeam
  <1>2. o \in Org /\ org[o] = "known"
    BY Zenon, <1>1, WriteFacts
  <1> HIDE DEF o
  <1>3. TablesOK'
    BY <1>1, <1>2 DEF IInv, TypeOK, TablesOK
  <1>4. RolesInv'
    BY Zenon, <1>1 DEF IInv, RolesInv, Exists, RoleExists
  <1>5. \A n \in Team : team[n] # None => team'[n] = team[n]
    BY Zenon, <1>1 DEF IInv, TypeOK
  <1>6. UsedInv'
    <2>1. \A a \in assigned : ScopeOrg(a.scope)' = ScopeOrg(a.scope)
      <3> TAKE a \in assigned
      <3>1. ScopeOrg(a.scope) = a.role[1] /\ a.role[1] \in Org
        BY Zenon DEF IInv, UsedInv, TypeOK, RoleId
      <3> QED
        BY <3>1, <1>5, ConstantsOK DEF ScopeOrg, Scope
    <2>2. \A n \in Team : team'[n] # None => org'[team'[n]] = "known"
      BY <1>1, <1>2 DEF IInv, UsedInv, TypeOK
    <2> QED
      BY Zenon, <1>1, <2>1, <2>2 DEF IInv, UsedInv, RoleExists
  <1> QED
    BY Zenon, <1>1, <1>3, <1>4, <1>5, <1>6, WriteStep

LEMMA AddMemberStep ==
    ASSUME IInv, Observe, NEW t \in Thread, AddMember(t) \/ AddTeamMember(t)
    PROVE  IInv'
  <1>1. /\ pc[t] = "write" /\ Done(t)
        /\ UNCHANGED <<org, team, roles, assigned, ownership, calls>>
    BY Zenon DEF AddMember, AddTeamMember, Writes
  <1>2. members' \subseteq Principal \X Org /\ teamMembers' \subseteq Principal \X Team
    <2>1. members \subseteq Principal \X Org /\ teamMembers \subseteq Principal \X Team
      BY Zenon DEF IInv, TypeOK
    <2>2. CASE AddMember(t)
      <3>1. <<req[t].who, req[t].org>> \in Principal \X Org
        BY Zenon, <2>2, WriteFacts DEF AddMember, Writes, Wellformed
      <3> QED
        BY Zenon, <2>1, <2>2, <3>1 DEF AddMember, InsertMember
    <2>3. CASE AddTeamMember(t)
      <3>1. <<req[t].who, req[t].scope>> \in Principal \X Team
        BY Zenon, <2>3, WriteFacts DEF AddTeamMember, Writes, Wellformed
      <3> QED
        BY Zenon, <2>1, <2>3, <3>1 DEF AddTeamMember, InsertTeamMember
    <2> QED
      BY Zenon, <2>2, <2>3
  <1>3. TablesOK'
    BY <1>1, <1>2 DEF IInv, TypeOK, TablesOK
  <1>4. RolesInv' /\ UsedInv'
    BY ZenonT(40), <1>1 DEF IInv, RolesInv, UsedInv, Exists, RoleExists, ScopeOrg
  <1> QED
    BY Zenon, <1>1, <1>3, <1>4, WriteStep

LEMMA CreateRoleStep ==
    ASSUME IInv, Observe, NEW t \in Thread, CreateRole(t)
    PROVE  IInv'
  <1> DEFINE new == [id |-> req[t].role, perms |-> req[t].perms]
  <1>1. /\ pc[t] = "write" /\ Done(t) /\ ~RoleExists(req[t].role) /\ roles' = roles \cup {new}
        /\ UNCHANGED <<org, members, team, teamMembers, assigned, ownership, calls>>
        /\ req[t].op = "CreateRole"
    BY Zenon DEF CreateRole, Writes, InsertRole
  <1>2. /\ req[t].role \in RoleId /\ req[t].role[1] \in Org /\ org[req[t].role[1]] = "known"
        /\ req[t].perms \in SUBSET Perm
    BY Zenon, <1>1, WriteFacts DEF Wellformed, Req
  <1>3. new \in [id : RoleId, perms : SUBSET Perm] /\ new.id = req[t].role
    BY Zenon, <1>2
  <1> HIDE DEF new
  <1>4. TablesOK'
    BY <1>1, <1>3 DEF IInv, TypeOK, TablesOK
  <1>5. RolesInv'
    <2>1. \A r \in roles : r.id # new.id
      BY Zenon, <1>1, <1>3 DEF RoleExists
    <2>2. \A r \in roles' : Exists(r.id[1])'
      BY Zenon, <1>1, <1>2, <1>3 DEF IInv, RolesInv, Exists
    <2>3. \A r, s \in roles' : r.id = s.id => r = s
      BY Zenon, <1>1, <2>1 DEF IInv, RolesInv
    <2>4. (\A o \in Org : org[o] = "known" => \A i \in 1..3 : RoleExists(<<o, Name(i)>>))'
      BY Zenon, <1>1 DEF IInv, RolesInv, RoleExists, Name
    <2> QED
      BY Zenon, <2>2, <2>3, <2>4 DEF RolesInv
  <1>6. UsedInv'
    BY <1>1 DEF IInv, UsedInv, RoleExists, ScopeOrg
  <1> QED
    BY Zenon, <1>1, <1>2, <1>3, <1>4, <1>5, <1>6, WriteStep

LEMMA AssignRoleStep ==
    ASSUME IInv, Observe, NEW t \in Thread, AssignRole(t)
    PROVE  IInv'
  <1> DEFINE new == [who |-> req[t].who, role |-> req[t].role, scope |-> req[t].scope]
  <1>1. /\ pc[t] = "write" /\ Done(t) /\ RoleExists(req[t].role) /\ assigned' = assigned \cup {new}
        /\ UNCHANGED <<org, members, team, teamMembers, roles, ownership, calls>>
        /\ req[t].op = "AssignRole"
    BY Zenon DEF AssignRole, Writes, InsertAssignment
  <1>2. /\ req[t].role \in RoleId /\ org[req[t].role[1]] = "known" /\ req[t].who \in Principal
        /\ req[t].scope \in Scope /\ ScopeOrg(req[t].scope) = req[t].role[1]
    BY Zenon, <1>1, WriteFacts DEF Wellformed
  <1>3. /\ new \in [who : Principal, role : RoleId, scope : Scope] /\ new.role = req[t].role
        /\ new.scope = req[t].scope
    BY Zenon, <1>2
  <1> HIDE DEF new
  <1>4. TablesOK'
    BY <1>1, <1>3 DEF IInv, TypeOK, TablesOK
  <1>5. RolesInv'
    BY Zenon, <1>1 DEF IInv, RolesInv, RoleExists, Exists
  <1>6. UsedInv'
    <2>1. (\A a \in assigned : /\ RoleExists(a.role) /\ org[a.role[1]] = "known"
                                /\ ScopeOrg(a.scope) = a.role[1])'
      BY <1>1, <1>2, <1>3 DEF IInv, UsedInv, RoleExists, ScopeOrg
    <2> QED
      BY Zenon, <1>1, <2>1 DEF IInv, UsedInv
  <1> QED
    BY Zenon, <1>1, <1>4, <1>5, <1>6, WriteStep

LEMMA RegisterOwnershipStep ==
    ASSUME IInv, Observe, NEW t \in Thread, RegisterOwnership(t)
    PROVE  IInv'
  <1> DEFINE row == [owner |-> req[t].who, org |-> req[t].org]
  <1>1. /\ pc[t] = "write" /\ Done(t) /\ ownership' = [ownership EXCEPT ![req[t].res] = row]
        /\ UNCHANGED <<org, members, team, teamMembers, roles, assigned, calls>>
        /\ req[t].op = "RegisterOwnership"
    BY Zenon DEF RegisterOwnership, Writes, UpsertOwnership
  <1>2. req[t].who \in Principal /\ req[t].res \in Resource /\ req[t].org \in Org /\ org[req[t].org] = "known"
    BY Zenon, <1>1, WriteFacts DEF Wellformed
  <1>3. row \in [owner : Principal \cup {None}, org : Org \cup {None}] /\ row.org = req[t].org
    BY <1>2
  <1> HIDE DEF row
  <1>4. TablesOK'
    BY Zenon, <1>1, <1>3 DEF IInv, TypeOK, TablesOK
  <1>5. RolesInv'
    BY ZenonT(40), <1>1 DEF IInv, RolesInv, RoleExists, Exists
  <1>6. UsedInv'
    <2>1. \A x \in Resource : ownership'[x].org # None => org'[ownership'[x].org] = "known"
      BY Zenon, <1>1, <1>2, <1>3 DEF IInv, UsedInv, TypeOK
    <2> QED
      BY Zenon, <1>1, <2>1 DEF IInv, UsedInv, RoleExists, ScopeOrg
  <1> QED
    BY Zenon, <1>1, <1>4, <1>5, <1>6, WriteStep
----------------------------------------------------------------------------
(* The creation of an organisation. *)

LEMMA CreatingFacts ==
    ASSUME IInv, NEW t \in Thread, pc[t] \in Creating
    PROVE  /\ req[t] \in Req /\ req[t].org \in Org /\ org[req[t].org] = "stored"
           /\ \A q \in Thread \ {t} : pc[q] \in Creating => req[q].org # req[t].org
           /\ \A q \in Thread : pc[q] \in Creating => req[q].org \in Org /\ org[req[q].org] = "stored"
  BY DEF IInv, OrgsInv, TypeOK, Req

LEMMA CreateOrganizationStep ==
    ASSUME IInv, Observe, NEW t \in Thread, NEW o \in Org, CreateOrganization(t, o)
    PROVE  IInv'
  <1> DEFINE new == [NoReq EXCEPT !.op = "CreateOrganization", !.by = Root, !.org = o, !.n = 1]
  <1>1. /\ pc[t] = "idle" /\ org[o] = "none" /\ org' = [org EXCEPT ![o] = "stored"] /\ Goto(t, "seed")
        /\ req' = [req EXCEPT ![t] = new] /\ calls' \in Nat
        /\ UNCHANGED <<members, team, teamMembers, roles, assigned, ownership>>
    BY DEF CreateOrganization, InsertOrg, IInv, TypeOK
  <1>2. new \in Req /\ new.org = o /\ new.n = 1
    BY Zenon, NoReqFacts DEF Req, Operation, Caller
  <1> HIDE DEF new
  <1>3. /\ pc'[t] = "seed" /\ req'[t] = new
        /\ \A q \in Thread \ {t} : pc'[q] = pc[q] /\ req'[q] = req[q]
    BY ZenonT(40), <1>1, OthersStay
  <1>4. TablesOK'
    BY Zenon, <1>1 DEF IInv, TypeOK, TablesOK
  <1>5. \A p \in Org : /\ p # o => org'[p] = org[p]
                       /\ org'[o] = "stored"
    BY <1>1 DEF IInv, TypeOK
  <1>6. \A q \in Thread : pc[q] \in Creating => req[q].org \in Org /\ req[q].org # o
    BY ZenonT(40), <1>1 DEF IInv, OrgsInv
  <1>7. OrgsInv'
    <2>1. \A q \in Thread : pc'[q] \in Creating => req'[q].org \in Org /\ org'[req'[q].org] = "stored"
      BY <1>2, <1>3, <1>5, <1>6 DEF IInv, OrgsInv
    <2>2. \A q, u \in Thread : pc'[q] \in Creating /\ pc'[u] \in Creating /\ req'[q].org = req'[u].org => q = u
      BY <1>2, <1>3, <1>6 DEF IInv, OrgsInv
    <2>3. \A p \in Org : org'[p] = "stored" => \E q \in Thread : pc'[q] \in Creating /\ req'[q].org = p
      <3> SUFFICES ASSUME NEW p \in Org, org'[p] = "stored"
                   PROVE  \E q \in Thread : pc'[q] \in Creating /\ req'[q].org = p
        BY Zenon
      <3>1. CASE p = o
        BY <1>2, <1>3, <3>1 DEF Creating
      <3>2. CASE p # o
        <4>1. PICK q \in Thread : pc[q] \in Creating /\ req[q].org = p
          BY <1>5, <3>2 DEF IInv, OrgsInv
        <4>2. q # t
          BY Zenon, <1>1, <4>1 DEF Creating
        <4> QED
          BY Zenon, <1>3, <4>1, <4>2
      <3> QED
        BY Zenon, <3>1, <3>2
    <2> QED
      BY Zenon, <2>1, <2>2, <2>3 DEF OrgsInv
  <1>8. RolesInv'
    <2>1. \A r \in roles' : Exists(r.id[1])'
      BY ZenonT(40), <1>1, <1>5 DEF IInv, RolesInv, Exists
    <2>2. (\A p \in Org : org[p] = "known" => \A i \in 1..3 : RoleExists(<<p, Name(i)>>))'
      BY Zenon, <1>1, <1>5 DEF IInv, RolesInv, RoleExists, Name
    <2> QED
      BY <1>1, <2>1, <2>2 DEF IInv, RolesInv
  <1>9. \A p \in Org : org[p] = "known" => org'[p] = "known"
    BY Zenon, <1>1, <1>5
  <1>10. UsedInv'
    <2>1. \A a \in assigned : a.role[1] \in Org
      BY Zenon DEF IInv, TypeOK, RoleId
    <2>2. \A m \in Team : team[m] # None => team[m] \in Org
      BY Zenon DEF IInv, TypeOK
    <2>3. \A x \in Resource : ownership[x].org # None => ownership[x].org \in Org
      BY ZenonT(40) DEF IInv, TypeOK
    <2> QED
      BY Zenon, <1>1, <1>9, <2>1, <2>2, <2>3 DEF IInv, UsedInv, RoleExists, ScopeOrg
  <1>11. Evolves(t)
    BY <1>1, <1>3, <1>5, <1>6, <1>9 DEF Evolves, IInv, OrgsInv
  <1>12. Seeding(t)'
    <2>1. \A r \in roles' : r.id[1] # o
      BY ZenonT(40), <1>1 DEF IInv, RolesInv, Exists
    <2> QED
      BY <1>2, <1>3, <2>1 DEF Seeding
  <1>13. Served(t)' /\ Linear(t)'
    BY <1>3 DEF Served, Linear, Serving
  <1>14. "seed" \in PC
    BY DEF PC
  <1> QED
    BY Zenon, <1>1, <1>2, <1>4, <1>7, <1>8, <1>10, <1>11, <1>12, <1>13, <1>14, StepHolds

LEMMA SeedFailsStep ==
    ASSUME IInv, Observe, NEW t \in Thread, SeedFails(t)
    PROVE  IInv'
  <1>1. pc[t] = "seed" /\ Goto(t, "compensate") /\ UNCHANGED <<tables, req, calls>>
    BY Zenon DEF SeedFails
  <1>2. req[t] \in Req /\ req' = [req EXCEPT ![t] = req[t]] /\ "compensate" \in PC /\ calls' \in Nat
    BY Zenon, <1>1 DEF IInv, TypeOK, Req, PC
  <1>3. /\ pc'[t] = "compensate" /\ req' = req
        /\ \A q \in Thread \ {t} : pc'[q] = pc[q] /\ req'[q] = req[q]
    BY ZenonT(40), <1>1 DEF IInv, TypeOK, Goto
  <1>4. OrgsInv'
    <2>1. \A q \in Thread : pc'[q] \in Creating <=> pc[q] \in Creating
      BY Zenon, <1>1, <1>3 DEF Creating
    <2> QED
      BY <1>1, <1>3, <2>1 DEF IInv, OrgsInv, tables
  <1>5. Evolves(t)
    BY <1>1, <1>3 DEF Evolves, tables, IInv, OrgsInv
  <1>6. Seeding(t)' /\ Served(t)' /\ Linear(t)'
    BY ZenonT(40), <1>3 DEF Seeding, Served, Linear, Serving
  <1> QED
    BY ZenonT(40), <1>1, <1>2, <1>4, <1>5, <1>6, TablesSame, StepHolds

\* The thread ends and the organisation is no longer stored only.
LEMMA OrgsEnded ==
    ASSUME IInv, NEW t \in Thread, pc[t] \in Creating, Done(t), NEW s, s # "stored",
           org' = [org EXCEPT ![req[t].org] = s]
    PROVE  /\ OrgsInv'
           /\ \A q \in Thread \ {t} : pc'[q] = pc[q] /\ req'[q] = req[q]
           /\ \A p \in Org : p # req[t].org => org'[p] = org[p]
           /\ org'[req[t].org] = s
           /\ \A q \in Thread \ {t} : pc[q] \in Creating => org'[req[q].org] = "stored"
  <1>1. /\ pc'[t] = "idle" /\ \A q \in Thread \ {t} : pc'[q] = pc[q] /\ req'[q] = req[q]
    BY ZenonT(40), OthersStay DEF Done
  <1>2. /\ req[t].org \in Org
        /\ \A q \in Thread \ {t} : pc[q] \in Creating => req[q].org # req[t].org
        /\ \A q \in Thread : pc[q] \in Creating => req[q].org \in Org /\ org[req[q].org] = "stored"
    BY Zenon, CreatingFacts
  <1>3. (\A p \in Org : p # req[t].org => org'[p] = org[p]) /\ org'[req[t].org] = s
    BY Zenon, <1>2 DEF IInv, TypeOK
  <1>4. \A q \in Thread : pc'[q] \in Creating => q # t /\ pc[q] \in Creating /\ req'[q] = req[q]
    BY Zenon, <1>1 DEF Creating
  <1>5. \A q \in Thread \ {t} : pc[q] \in Creating => org'[req[q].org] = "stored"
    BY Zenon, <1>2, <1>3
  <1>6. OrgsInv'
    <2>1. \A q \in Thread : pc'[q] \in Creating => req'[q].org \in Org /\ org'[req'[q].org] = "stored"
      BY <1>2, <1>4, <1>5
    <2>2. \A q, u \in Thread : pc'[q] \in Creating /\ pc'[u] \in Creating /\ req'[q].org = req'[u].org => q = u
      BY Zenon, <1>4 DEF IInv, OrgsInv
    <2>3. \A p \in Org : org'[p] = "stored" => \E q \in Thread : pc'[q] \in Creating /\ req'[q].org = p
      <3> SUFFICES ASSUME NEW p \in Org, org'[p] = "stored"
                   PROVE  \E q \in Thread : pc'[q] \in Creating /\ req'[q].org = p
        BY Zenon
      <3>1. p # req[t].org
        BY Zenon, <1>3
      <3>2. PICK q \in Thread : pc[q] \in Creating /\ req[q].org = p
        BY Zenon, <1>3, <3>1 DEF IInv, OrgsInv
      <3> QED
        BY Zenon, <1>1, <3>1, <3>2
    <2> QED
      BY Zenon, <2>1, <2>2, <2>3 DEF OrgsInv
  <1> QED
    BY ZenonT(40), <1>1, <1>3, <1>5, <1>6

\* Nothing refers to an organisation that is still being created.
LEMMA Unreferenced ==
    ASSUME IInv, NEW o \in Org, org[o] # "known"
    PROVE  /\ \A a \in assigned : a.role[1] \in Org /\ a.role[1] # o
           /\ \A m \in Team : team[m] # o /\ (team[m] # None => team[m] \in Org)
           /\ \A x \in Resource : ownership[x].org # o /\ (ownership[x].org # None => ownership[x].org \in Org)
  <1>1. \A a \in assigned : a.role[1] \in Org
    BY Zenon DEF IInv, TypeOK, RoleId
  <1>2. o # None
    BY ConstantsOK DEF Scope
  <1> QED
    BY <1>1, <1>2 DEF IInv, UsedInv, TypeOK

LEMMA OrphanStep ==
    ASSUME IInv, Observe, NEW t \in Thread, Orphan(t)
    PROVE  IInv'
  <1> DEFINE o == req[t].org
  <1>1. /\ pc[t] \in Creating /\ Done(t) /\ org' = [org EXCEPT ![req[t].org] = "orphaned"]
        /\ UNCHANGED <<members, team, teamMembers, roles, assigned, ownership, calls>>
    BY DEF Orphan, Creating
  <1>2. /\ OrgsInv'
        /\ \A q \in Thread \ {t} : pc'[q] = pc[q] /\ req'[q] = req[q]
        /\ \A p \in Org : p # o => org'[p] = org[p]
        /\ org'[o] = "orphaned"
        /\ \A q \in Thread \ {t} : pc[q] \in Creating => org'[req[q].org] = "stored"
    BY Zenon, <1>1, OrgsEnded
  <1>3. o \in Org /\ org[o] = "stored"
    BY <1>1, CreatingFacts
  <1> HIDE DEF o
  <1>4. TablesOK'
    BY ZenonT(40), <1>1 DEF IInv, TypeOK, TablesOK
  <1>5. \A p \in Org : org'[p] = "known" <=> org[p] = "known"
    BY <1>2, <1>3
  <1>6. RolesInv'
    <2>1. \A r \in roles' : Exists(r.id[1])'
      BY <1>1, <1>2 DEF IInv, RolesInv, Exists
    <2>2. (\A p \in Org : org[p] = "known" => \A i \in 1..3 : RoleExists(<<p, Name(i)>>))'
      BY ZenonT(40), <1>1, <1>5 DEF IInv, RolesInv, RoleExists, Name
    <2> QED
      BY Zenon, <1>1, <2>1, <2>2 DEF IInv, RolesInv
  <1>7. UsedInv'
    BY <1>1, <1>3, <1>5, Unreferenced DEF IInv, UsedInv, RoleExists, ScopeOrg
  <1>8. Evolves(t)
    BY Zenon, <1>1, <1>2, <1>5 DEF Evolves
  <1> QED
    BY Zenon, <1>1, <1>2, <1>4, <1>6, <1>7, <1>8, DoneHolds

\* What the cascade does to an organisation that is still being created.
LEMMA CascadeFacts ==
    ASSUME IInv, NEW t \in Thread, DeleteOrg(t)
    PROVE  /\ req[t].org \in Org /\ org[req[t].org] = "stored"
           /\ org' = [org EXCEPT ![req[t].org] = "deleted"]
           /\ roles' = {r \in roles : r.id[1] # req[t].org}
           /\ UNCHANGED <<team, assigned, ownership>>
           /\ members' \subseteq members /\ teamMembers' \subseteq teamMembers
  <1> DEFINE o == req[t].org
  <1>1. o \in Org /\ org[o] = "stored"
    BY CreatingFacts DEF DeleteOrg, Creating
  <1>2. /\ org' = [org EXCEPT ![o] = "deleted"] /\ roles' = {r \in roles : r.id[1] # o}
        /\ members' \subseteq members /\ teamMembers' \subseteq teamMembers
        /\ team' = [m \in Team |-> IF team[m] = o THEN None ELSE team[m]]
        /\ assigned' = {a \in assigned : a.role[1] # o}
        /\ ownership' = [r \in Resource |-> IF ownership[r].org = o
                                            THEN [owner |-> None, org |-> None] ELSE ownership[r]]
    BY Zenon DEF DeleteOrg, DeleteCascade
  <1> HIDE DEF o
  <1>3. /\ \A a \in assigned : a.role[1] # o
        /\ \A m \in Team : team[m] # o
        /\ \A x \in Resource : ownership[x].org # o
    BY <1>1, Unreferenced
  <1>4. assigned' = assigned
    BY Zenon, <1>2, <1>3
  <1>5. team' = team
    <2>1. team = [m \in Team |-> team[m]]
      BY ZenonT(40) DEF IInv, TypeOK
    <2>2. team' = [m \in Team |-> team[m]]
      BY <1>2, <1>3
    <2> QED
      BY Zenon, <2>1, <2>2
  <1>6. ownership' = ownership
    <2>1. ownership = [x \in Resource |-> ownership[x]]
      BY Zenon DEF IInv, TypeOK
    <2>2. ownership' = [x \in Resource |-> ownership[x]]
      BY ZenonT(40), <1>2, <1>3
    <2> QED
      BY Zenon, <2>1, <2>2
  <1> QED
    BY ZenonT(40), <1>1, <1>2, <1>4, <1>5, <1>6 DEF o

LEMMA DeleteOrgStep ==
    ASSUME IInv, Observe, NEW t \in Thread, DeleteOrg(t)
    PROVE  IInv'
  <1> DEFINE o == req[t].org
  <1>1. pc[t] \in Creating /\ Done(t) /\ UNCHANGED calls
    BY ZenonT(40) DEF DeleteOrg, Creating
  <1>2. /\ o \in Org /\ org[o] = "stored" /\ org' = [org EXCEPT ![req[t].org] = "deleted"]
        /\ roles' = {r \in roles : r.id[1] # o} /\ UNCHANGED <<team, assigned, ownership>>
        /\ members' \subseteq members /\ teamMembers' \subseteq teamMembers
    BY CascadeFacts
  <1>3. /\ OrgsInv'
        /\ \A q \in Thread \ {t} : pc'[q] = pc[q] /\ req'[q] = req[q]
        /\ \A p \in Org : p # o => org'[p] = org[p]
        /\ org'[o] = "deleted"
        /\ \A q \in Thread \ {t} : pc[q] \in Creating => org'[req[q].org] = "stored"
    BY ZenonT(40), <1>1, <1>2, OrgsEnded
  <1>4. \A q \in Thread \ {t} : pc[q] \in Creating => req[q].org # o
    BY Zenon, <1>1, CreatingFacts
  <1>5. TablesOK'
    BY Zenon, <1>2 DEF IInv, TypeOK, TablesOK
  <1> HIDE DEF o
  <1>6. \A p \in Org : org'[p] = "known" <=> org[p] = "known"
    BY Zenon, <1>2, <1>3
  <1>7. \A p, n : p # o /\ RoleExists(<<p, n>>) => RoleExists(<<p, n>>)'
    BY <1>2 DEF RoleExists
  <1>8. RolesInv'
    <2>1. \A r \in roles' : Exists(r.id[1])'
      BY Zenon, <1>2, <1>3 DEF IInv, RolesInv, Exists
    <2>2. \A r, s \in roles' : r.id = s.id => r = s
      BY <1>2 DEF IInv, RolesInv
    <2>3. \A p \in Org : org'[p] = "known" => \A i \in 1..3 : RoleExists(<<p, Name(i)>>)'
      BY ZenonT(40), <1>2, <1>6, <1>7 DEF IInv, RolesInv
    <2> QED
      BY Zenon, <2>1, <2>2, <2>3 DEF RolesInv, Name
  <1>9. \A a \in assigned : a.role[1] # o
    BY ZenonT(40), <1>2, Unreferenced
  <1>10. UsedInv'
    <2>1. \A a \in assigned : RoleExists(a.role)'
      BY <1>2, <1>9 DEF IInv, UsedInv, RoleExists
    <2> QED
      BY SMTT(30), <1>2, <1>6, <2>1, Unreferenced DEF IInv, UsedInv, ScopeOrg
  <1>11. Evolves(t)
    BY ZenonT(40), <1>2, <1>3, <1>4, <1>6, <1>9 DEF Evolves
  <1> QED
    BY <1>1, <1>3, <1>5, <1>8, <1>10, <1>11, DoneHolds

\* The role that SeedDefaults inserts is a new one.
LEMMA SeedFacts ==
    ASSUME IInv, NEW t \in Thread, SeedDefaults(t)
    PROVE  LET o == req[t].org  n == req[t].n
               new == [id |-> <<o, Name(n)>>, perms |-> DefaultRoles[n].perms] IN
           /\ n \in 1..3 /\ roles' = roles \cup {new} /\ new.id = <<o, Name(n)>>
           /\ new \in [id : RoleId, perms : SUBSET Perm] /\ ~RoleExists(<<o, Name(n)>>)
           /\ \A i \in 1..3 : i < n => RoleExists(<<o, Name(i)>>)
           /\ \A r \in roles : r.id[1] = o => \E i \in 1..3 : i < n /\ r.id = <<o, Name(i)>>
  <1> DEFINE o == req[t].org
             n == req[t].n
             new == [id |-> <<o, Name(n)>>, perms |-> DefaultRoles[n].perms]
  <1>1. pc[t] = "seed" /\ pc[t] \in Creating /\ roles' = roles \cup {new}
    BY DEF SeedDefaults, InsertRole, Creating, Name
  <1>2. /\ n \in 1..3 /\ \A i \in 1..3 : i < n => RoleExists(<<o, Name(i)>>)
        /\ \A r \in roles : r.id[1] = o => \E i \in 1..3 : i < n /\ r.id = <<o, Name(i)>>
    BY ZenonT(40), <1>1 DEF IInv, SeedInv, Seeding
  <1>3. o \in Org
    BY Zenon, <1>1, CreatingFacts
  <1> HIDE DEF o, n
  <1>4. /\ <<o, Name(n)>> \in RoleId /\ DefaultRoles[n].perms \in SUBSET Perm
        /\ \A i \in 1..3 : Name(i) = Name(n) => i = n
    BY Zenon, <1>2, <1>3, Defaults
  <1>5. new \in [id : RoleId, perms : SUBSET Perm] /\ new.id = <<o, Name(n)>>
    BY Zenon, <1>4
  <1>6. ~RoleExists(<<o, Name(n)>>)
    <2> SUFFICES ASSUME NEW r \in roles, r.id = <<o, Name(n)>> PROVE FALSE
      BY DEF RoleExists
    <2>1. r.id[1] = o
      OBVIOUS
    <2>2. PICK i \in 1..3 : i < n /\ r.id = <<o, Name(i)>>
      BY Zenon, <1>2, <2>1
    <2>3. Name(i) = Name(n)
      BY <2>2
    <2> QED
      BY <1>2, <1>4, <2>2, <2>3
  <1> QED
    BY Zenon, <1>1, <1>2, <1>5, <1>6 DEF o, n

LEMMA SeedDefaultsStep ==
    ASSUME IInv, Observe, NEW t \in Thread, SeedDefaults(t)
    PROVE  IInv'
  <1> DEFINE o == req[t].org
             n == req[t].n
             new == [id |-> <<o, Name(n)>>, perms |-> DefaultRoles[n].perms]
  <1>1. /\ n \in 1..3 /\ roles' = roles \cup {new} /\ new.id = <<o, Name(n)>>
        /\ new \in [id : RoleId, perms : SUBSET Perm] /\ ~RoleExists(<<o, Name(n)>>)
        /\ \A i \in 1..3 : i < n => RoleExists(<<o, Name(i)>>)
        /\ \A r \in roles : r.id[1] = o => \E i \in 1..3 : i < n /\ r.id = <<o, Name(i)>>
    BY Zenon, SeedFacts
  <1>2. /\ pc[t] = "seed" /\ pc[t] \in Creating
        /\ UNCHANGED <<members, team, teamMembers, assigned, ownership, calls>>
        /\ \/ n < 3 /\ req' = [req EXCEPT ![t].n = @ + 1] /\ UNCHANGED <<org, pc>>
           \/ n = 3 /\ org' = [org EXCEPT ![req[t].org] = "known"] /\ Done(t)
    BY <1>1, Defaults DEF SeedDefaults, Creating
  <1>3. /\ req[t] \in Req /\ o \in Org /\ org[o] = "stored"
        /\ \A q \in Thread \ {t} : pc[q] \in Creating => req[q].org # o
    BY Zenon, <1>2, CreatingFacts
  <1> HIDE DEF new
  <1>4. /\ new.id[1] = o /\ \A r \in roles : r.id # new.id
        /\ \A i \in 1..3 : i =< n => \E r \in roles' : r.id = <<o, Name(i)>>
    <2>1. \A i \in 1..3 : i =< n => i < n \/ i = n
      BY <1>1
    <2>2. new \in roles' /\ roles \subseteq roles'
      BY Zenon, <1>1
    <2>3. \A i \in 1..3 : i < n => \E r \in roles' : r.id = <<o, Name(i)>>
      BY Zenon, <1>1, <2>2 DEF RoleExists
    <2>4. \A i \in 1..3 : i = n => \E r \in roles' : r.id = <<o, Name(i)>>
      BY Zenon, <1>1, <2>2
    <2>5. new.id[1] = o
      BY <1>1
    <2>6. \A r \in roles : r.id # new.id
      BY Zenon, <1>1 DEF RoleExists
    <2> QED
      BY Zenon, <2>1, <2>3, <2>4, <2>5, <2>6
  <1>5. \A id : RoleExists(id) => RoleExists(id)'
    BY <1>1 DEF RoleExists
  <1>6. \A r, s \in roles' : r.id = s.id => r = s
    BY Zenon, <1>1, <1>4 DEF IInv, RolesInv
  <1>7. CASE n < 3 /\ req' = [req EXCEPT ![t].n = @ + 1] /\ UNCHANGED <<org, pc>>
    <2> DEFINE k == [req[t] EXCEPT !.n = n + 1]
    <2>1. k \in Req /\ k.org = o /\ k.n = n + 1
      BY <1>1, <1>3 DEF Req
    <2>2. req' = [req EXCEPT ![t] = k] /\ req'[t] = k /\ Goto(t, "seed") /\ pc'[t] = "seed" /\ "seed" \in PC
      BY <1>2, <1>7 DEF IInv, TypeOK, Goto, PC
    <2> HIDE DEF k, o, n
    <2>3. \A q \in Thread \ {t} : pc'[q] = pc[q] /\ req'[q] = req[q]
      BY Zenon, <2>2, OthersStay
    <2>4. TablesOK' /\ calls' \in Nat
      BY Zenon, <1>1, <1>2, <1>7 DEF IInv, TypeOK, TablesOK
    <2>5. OrgsInv'
      <3>1. \A q \in Thread : pc'[q] = pc[q] /\ req'[q].org = req[q].org
        BY Zenon, <1>7, <2>1, <2>2, <2>3 DEF o
      <3> QED
        BY <1>7, <3>1 DEF IInv, OrgsInv
    <2>6. RolesInv'
      <3>1. \A r \in roles' : Exists(r.id[1])'
        BY Zenon, <1>1, <1>3, <1>4, <1>7 DEF IInv, RolesInv, Exists
      <3>2. \A p \in Org : org'[p] = "known" => \A i \in 1..3 : RoleExists(<<p, Name(i)>>)'
        BY Zenon, <1>5, <1>7 DEF IInv, RolesInv
      <3> QED
        BY Zenon, <1>6, <3>1, <3>2 DEF RolesInv, Name
    <2>7. UsedInv'
      BY Zenon, <1>2, <1>5, <1>7 DEF IInv, UsedInv, ScopeOrg
    <2>8. Evolves(t)
      BY <1>1, <1>2, <1>3, <1>4, <1>7, <2>3 DEF Evolves, IInv, OrgsInv
    <2>9. Seeding(t)'
      <3>1. n + 1 \in 1..3 /\ \A i \in 1..3 : i < n + 1 <=> i =< n
        BY <1>1, <1>7
      <3>2. \A r \in roles' : r.id[1] = o => \E i \in 1..3 : i < n + 1 /\ r.id = <<o, Name(i)>>
        BY <1>1, <3>1
      <3>3. \A i \in 1..3 : i < n + 1 => \E r \in roles' : r.id = <<o, Name(i)>>
        BY Zenon, <1>4, <3>1
      <3>4. req'[t].n = n + 1 /\ req'[t].org = o
        BY Zenon, <2>1, <2>2
      <3> QED
        BY Zenon, <3>1, <3>2, <3>3, <3>4 DEF Seeding, RoleExists, Name
    <2>10. Served(t)' /\ Linear(t)'
      BY <2>2 DEF Served, Linear, Serving
    <2> QED
      BY Zenon, <2>1, <2>2, <2>4, <2>5, <2>6, <2>7, <2>8, <2>9, <2>10, StepHolds
  <1>8. CASE n = 3 /\ org' = [org EXCEPT ![req[t].org] = "known"] /\ Done(t)
    <2>1. /\ OrgsInv'
          /\ \A q \in Thread \ {t} : pc'[q] = pc[q] /\ req'[q] = req[q]
          /\ \A p \in Org : p # o => org'[p] = org[p]
          /\ org'[o] = "known"
          /\ \A q \in Thread \ {t} : pc[q] \in Creating => org'[req[q].org] = "stored"
      BY Zenon, <1>2, <1>8, OrgsEnded
    <2>2. TablesOK'
      BY ZenonT(40), <1>1, <1>2, <1>8 DEF IInv, TypeOK, TablesOK
    <2> HIDE DEF o, n
    <2>3. \A p \in Org : org[p] = "known" => org'[p] = "known"
      BY Zenon, <1>3, <2>1
    <2>4. RolesInv'
      <3>1. \A r \in roles' : Exists(r.id[1])'
        BY ZenonT(40), <1>1, <1>3, <1>4, <2>1 DEF IInv, RolesInv, Exists
      <3>2. \A p \in Org : org'[p] = "known" => \A i \in 1..3 : RoleExists(<<p, Name(i)>>)'
        <4>1. \A i \in 1..3 : i =< n
          BY <1>8
        <4>2. \A p \in Org : p = o => \A i \in 1..3 : RoleExists(<<p, Name(i)>>)'
          BY <1>4, <4>1 DEF RoleExists, Name
        <4>3. \A p \in Org : p # o /\ org'[p] = "known" => \A i \in 1..3 : RoleExists(<<p, Name(i)>>)'
          BY ZenonT(40), <1>5, <2>1 DEF IInv, RolesInv
        <4> QED
          BY Zenon, <4>2, <4>3
      <3> QED
        BY Zenon, <1>6, <3>1, <3>2 DEF RolesInv, Name
    <2>5. UsedInv'
      BY Zenon, <1>2, <1>3, <1>5, <2>3, Unreferenced DEF IInv, UsedInv, ScopeOrg
    <2>6. Evolves(t)
      BY <1>1, <1>2, <1>3, <1>4, <2>1, <2>3 DEF Evolves
    <2> QED
      BY Zenon, <1>2, <1>8, <2>1, <2>2, <2>4, <2>5, <2>6, DoneHolds
  <1> QED
    BY <1>2, <1>7, <1>8

LEMMA StepKeeps ==
    ASSUME IInv, Observe, Step
    PROVE  IInv'
  <1> PICK t \in Thread :
        \/ \E o \in Org : CreateOrganization(t, o)
        \/ SeedDefaults(t) \/ SeedFails(t) \/ DeleteOrg(t) \/ Orphan(t)
        \/ Request(t) \/ RequireMember(t) \/ Abort(t)
        \/ \E m \in Team : CreateTeam(t, m)
        \/ AddMember(t) \/ AddTeamMember(t) \/ CreateRole(t)
        \/ ValidateScope(t) \/ AssignRole(t) \/ RegisterOwnership(t)
        \/ ServiceCheck(t) \/ Reply(t)
    BY DEF Step
  <1> QED
    BY ZenonT(40), CreateOrganizationStep, SeedDefaultsStep, SeedFailsStep, DeleteOrgStep, OrphanStep,
       RequestStep, RequireMemberStep, AbortReplyStep, CreateTeamStep, AddMemberStep,
       CreateRoleStep, ValidateScopeStep, AssignRoleStep, RegisterOwnershipStep,
       CheckOwnerStep, CheckPermissionStep DEF ServiceCheck

LEMMA Inductive == IInv /\ [Next]_vars => IInv'
  <1> SUFFICES ASSUME IInv, [Next]_vars PROVE IInv'
    OBVIOUS
  <1>1. CASE Next
    BY Zenon, <1>1, StepKeeps DEF Next
  <1>2. CASE UNCHANGED vars
    <2>1. UNCHANGED <<org, members, team, teamMembers, roles, assigned, ownership, pc, req, could, calls>>
      BY Zenon, <1>2 DEF vars, tables
    <2>2. TypeOK'
      BY ZenonT(40), <2>1 DEF IInv, TypeOK
    <2>3. OrgsInv' /\ SeedInv'
      BY SMTT(30), <2>1 DEF IInv, OrgsInv, SeedInv, Seeding, RoleExists, Name
    <2>4. RolesInv' /\ UsedInv'
      BY Zenon, <2>1 DEF IInv, RolesInv, UsedInv, RoleExists, Exists, ScopeOrg, Name
    <2>5. ServedInv'
      BY ZenonT(40), <2>1 DEF IInv, ServedInv, Served, Wellformed, ScopeOrg
    <2>6. LinearInv'
      BY Zenon, <2>1 DEF IInv, LinearInv, Linear, HasPermission, Grants
    <2> QED
      BY <2>2, <2>3, <2>4, <2>5, <2>6 DEF IInv
  <1> QED
    BY <1>1, <1>2
----------------------------------------------------------------------------
(* The theorems. *)

LEMMA Invariant == Spec => []IInv
  BY InitHolds, Inductive, PTL DEF Spec

(***************************************************************************)
(* A role is only ever assigned within its own organisation, however the   *)
(* checks of AssignRole interleave with other requests (role.Service).     *)
(***************************************************************************)
THEOREM AssignedWithinOrgHolds == Spec => []AssignedWithinOrg
  <1>1. IInv => AssignedWithinOrg
    <2> SUFFICES ASSUME IInv, NEW a \in assigned
                 PROVE  RoleExists(a.role) /\ Exists(a.role[1]) /\ ScopeOrg(a.scope) = a.role[1]
      BY ZenonT(40) DEF AssignedWithinOrg
    <2>1. a.role[1] \in Org
      BY DEF IInv, TypeOK, RoleId
    <2> QED
      BY Zenon, <2>1 DEF IInv, UsedInv, Exists
  <1> QED
    BY <1>1, Invariant, PTL

(***************************************************************************)
(* CreateOrg leaves an organisation with all its default roles, or none,   *)
(* with any number of creations, failures and crashes (org.Service).       *)
(***************************************************************************)
THEOREM CompleteOrGoneHolds == Spec => []CompleteOrGone
  <1>1. IInv => CompleteOrGone
    BY Defaults DEF IInv, RolesInv, OrgsInv, CompleteOrGone, Creating, Name
  <1> QED
    BY <1>1, Invariant, PTL

(***************************************************************************)
(* The two statements of Service.Check give an answer that a single one    *)
(* would have given at some moment of the request (authz.Service).         *)
(***************************************************************************)
THEOREM CheckLinearizesHolds == Spec => []CheckLinearizes
  <1>1. IInv => CheckLinearizes
    BY ZenonT(40) DEF IInv, LinearInv, Linear, CheckLinearizes
  <1> QED
    BY <1>1, Invariant, PTL
----------------------------------------------------------------------------
(* Who may write. *)

\* A caller that has passed RequireMember is still a member, and the team it names is one
\* of the organisation whose membership was tested.
Gated(t) ==
    /\ pc[t] \in Creating => req[t].by = Root
    /\ pc[t] \in {"validate", "write"} => IsMember(req[t])
    /\ pc[t] \in {"member", "write"} /\ req[t].op = "AddTeamMember" =>
          team[req[t].scope] = req[t].org

GateInv ==
    /\ \A m \in teamMembers : team[m[2]] # None
    /\ \A t \in Thread : Gated(t)

StepOf(t) ==
    \/ \E o \in Org : CreateOrganization(t, o)
    \/ SeedDefaults(t) \/ SeedFails(t) \/ DeleteOrg(t) \/ Orphan(t)
    \/ Request(t) \/ RequireMember(t) \/ Abort(t)
    \/ \E m \in Team : CreateTeam(t, m)
    \/ AddMember(t) \/ AddTeamMember(t) \/ CreateRole(t)
    \/ ValidateScope(t) \/ AssignRole(t) \/ RegisterOwnership(t)
    \/ ServiceCheck(t) \/ Reply(t)

\* Nobody who may write to an organisation loses the membership that allows it.
LEMMA MembersStay ==
    ASSUME IInv, NEW t \in Thread, StepOf(t)
    PROVE  /\ \A q \in Thread \ {t} : pc'[q] = pc[q] /\ req'[q] = req[q]
           /\ \A m \in members : m[2] \in Org /\ org[m[2]] = "known" => m \in members'
           /\ \A m \in Team : team[m] # None => team'[m] = team[m]
  <1>1. pc \in [Thread -> PC] /\ req \in [Thread -> Req]
    BY DEF IInv, TypeOK, Req
  <1>2. (\E label : Goto(t, label)) \/ UNCHANGED pc
    BY Zenon DEF StepOf, CreateOrganization, SeedDefaults, SeedFails, DeleteOrg, Orphan, Request,
           RequireMember, Abort, CreateTeam, AddMember, AddTeamMember, CreateRole, ValidateScope,
           AssignRole, RegisterOwnership, ServiceCheck, CheckOwner, CheckPermission, Answer, Reply, Done
  <1>3. \E r : req' = [req EXCEPT ![t] = r]
    <2>1. req = [req EXCEPT ![t] = req[t]]
      BY Zenon, <1>1
    <2>2. CASE SeedDefaults(t) \/ ServiceCheck(t)
      <3>1. CASE req' = [req EXCEPT ![t].n = @ + 1]
        BY Zenon, <3>1
      <3>2. CASE \E b : req' = [req EXCEPT ![t].said = b]
        BY Zenon, <3>2
      <3>3. CASE UNCHANGED req \/ Done(t)
        BY <2>1, <3>3 DEF Done
      <3> QED
        BY <2>2, <3>1, <3>2, <3>3 DEF SeedDefaults, ServiceCheck, CheckOwner, CheckPermission, Answer
    <2>3. CASE Request(t)
      <3>1. PICK b \in Caller : AsksFor(t, b)
        BY <2>3 DEF Request
      <3>2. \E r : Asks(t, r)
        BY <3>1, ZenonT(30) DEF AsksFor
      <3> QED
        BY Zenon, <3>2 DEF Asks
    <2>4. CASE \E o \in Org : CreateOrganization(t, o)
      BY <2>4, Zenon DEF CreateOrganization
    <2>5. CASE UNCHANGED req \/ Done(t)
      BY <2>1, <2>5 DEF Done
    <2>6. \/ SeedDefaults(t) \/ ServiceCheck(t) \/ Request(t)
          \/ (\E o \in Org : CreateOrganization(t, o)) \/ UNCHANGED req \/ Done(t)
      BY Zenon DEF StepOf, SeedFails, DeleteOrg, Orphan, RequireMember, Abort, CreateTeam, AddMember,
             AddTeamMember, CreateRole, ValidateScope, AssignRole, RegisterOwnership, Reply
    <2> QED
      BY Zenon, <2>2, <2>3, <2>4, <2>5, <2>6
  <1>4. \A q \in Thread \ {t} : pc'[q] = pc[q] /\ req'[q] = req[q]
    BY Zenon, <1>1, <1>2, <1>3 DEF Goto
  <1>5. CASE DeleteOrg(t)
    <2>1. /\ req[t].org \in Org /\ org[req[t].org] = "stored" /\ UNCHANGED team
      BY ZenonT(40), <1>5, CascadeFacts
    <2>2. members' = {m \in members : m[2] # req[t].org}
      BY Zenon, <1>5 DEF DeleteOrg, DeleteCascade
    <2> QED
      BY <1>4, <2>1, <2>2
  <1>6. CASE members \subseteq members' /\ UNCHANGED team
    BY Zenon, <1>4, <1>6
  <1>7. CASE \E m \in Team : CreateTeam(t, m)
    <2>1. PICK m \in Team : CreateTeam(t, m)
      BY Zenon, <1>7
    <2>2. team[m] = None /\ team' = [team EXCEPT ![m] = req[t].org] /\ UNCHANGED members
      BY Zenon, <2>1 DEF CreateTeam, InsertTeam
    <2>3. \A k \in Team : team[k] # None => team'[k] = team[k]
      BY <2>2 DEF IInv, TypeOK
    <2> QED
      BY <1>4, <2>2, <2>3
  <1>8. CASE AddMember(t)
    BY ZenonT(40), <1>6, <1>8 DEF AddMember, InsertMember
  <1>9. \/ DeleteOrg(t) \/ AddMember(t) \/ (\E m \in Team : CreateTeam(t, m))
        \/ UNCHANGED <<members, team>>
    BY ZenonT(40) DEF StepOf, CreateOrganization, SeedDefaults, SeedFails, Orphan, Request, RequireMember, Abort,
           AddTeamMember, CreateRole, ValidateScope, AssignRole, RegisterOwnership, ServiceCheck,
           CheckOwner, CheckPermission, Reply, tables
  <1> QED
    BY Zenon, <1>5, <1>6, <1>7, <1>8, <1>9

LEMMA OthersGated ==
    ASSUME IInv, GateInv, NEW t \in Thread, StepOf(t), NEW q \in Thread \ {t}
    PROVE  Gated(q)'
  <1>1. pc'[q] = pc[q] /\ req'[q] = req[q] /\ Gated(q) /\ Served(q)
    BY ZenonT(40), MembersStay DEF GateInv, IInv, ServedInv
  <1>2. pc[q] \in {"validate", "write"} => IsMember(req[q])'
    <2> SUFFICES ASSUME pc[q] \in {"validate", "write"}, req[q].by # Root PROVE IsMember(req[q])'
      BY <1>1 DEF IsMember
    <2>1. <<req[q].by, req[q].org>> \in members /\ req[q].org \in Org /\ org[req[q].org] = "known"
      BY ZenonT(40), <1>1 DEF Gated, IsMember, Served, Serving, Wellformed
    <2> QED
      BY Zenon, <1>1, <2>1, MembersStay DEF IsMember
  <1>3. ASSUME pc[q] \in {"member", "write"}, req[q].op = "AddTeamMember"
        PROVE  team'[req[q].scope] = req[q].org
    <2>1. req[q].scope \in Team /\ req[q].org \in Org /\ team[req[q].scope] = req[q].org
      BY Zenon, <1>1, <1>3 DEF Gated, Served, Serving, Wellformed
    <2> QED
      BY <2>1, MembersStay, ConstantsOK DEF Scope
  <1> QED
    BY <1>1, <1>2, <1>3 DEF Gated

LEMMA StepGated ==
    ASSUME IInv, GateInv, NEW t \in Thread, StepOf(t)
    PROVE  Gated(t)'
  <1>1. pc \in [Thread -> PC] /\ req \in [Thread -> Req] /\ Gated(t) /\ Served(t)
    BY Zenon DEF IInv, TypeOK, Req, GateInv, ServedInv
  <1>2. CASE pc'[t] \in {"idle", "owner", "permission", "answered"}
    BY <1>2 DEF Gated, Creating
  <1>3. CASE \E o \in Org : CreateOrganization(t, o)
    <2>1. PICK o \in Org : CreateOrganization(t, o)
      BY <1>3
    <2> DEFINE q == NoReq
               new == [q EXCEPT !.op = "CreateOrganization", !.by = Root, !.org = o, !.n = 1]
    <2>2. pc'[t] = "seed" /\ req'[t] = new
      BY <1>1, <2>1 DEF CreateOrganization, Goto
    <2>3. q \in Req
      BY NoReqFacts
    <2> HIDE DEF q
    <2>4. new.by = Root
      BY <2>3 DEF Req
    <2> QED
      BY <2>2, <2>4 DEF Gated
  <1>4. CASE SeedDefaults(t) /\ pc'[t] # "idle"
    <2>1. pc[t] = "seed" /\ pc'[t] = "seed" /\ req' = [req EXCEPT ![t].n = @ + 1]
      BY <1>1, <1>4 DEF SeedDefaults, Done, Goto
    <2>2. req'[t].by = req[t].by
      BY <1>1, <2>1 DEF Req
    <2> QED
      BY Zenon, <1>1, <2>1, <2>2 DEF Gated, Creating
  <1>5. CASE SeedFails(t)
    BY ZenonT(40), <1>1, <1>5 DEF SeedFails, Goto, Gated, Creating
  <1>6. CASE Request(t)
    <2>1. PICK b \in Caller : AsksFor(t, b)
      BY ZenonT(40), <1>6 DEF Request
    <2>2. PICK r \in Req : /\ r.op = "AddTeamMember" => team[r.scope] = r.org
                          /\ req' = [req EXCEPT ![t] = r]
      BY <2>1, RequestFacts
    <2>3. pc'[t] = "member" /\ req'[t] = r /\ UNCHANGED team
      BY ZenonT(40), <1>1, <1>6, <2>2 DEF Request, Goto, tables
    <2> QED
      BY <2>2, <2>3 DEF Gated, Creating
  <1>7. CASE (RequireMember(t) \/ ValidateScope(t)) /\ pc'[t] \in {"validate", "write"}
    <2>1. /\ req' = req /\ UNCHANGED <<members, team>>
          /\ (pc[t] = "member" /\ IsMember(req[t])) \/ pc[t] = "validate"
      BY ZenonT(40), <1>1, <1>7 DEF RequireMember, ValidateScope, Done, Goto, tables
    <2>2. IsMember(req[t])
      BY Zenon, <1>1, <2>1 DEF Gated
    <2>3. pc[t] = "validate" => req[t].op = "AssignRole"
      BY Zenon, <1>1 DEF Served, Serving
    <2> QED
      BY ZenonT(40), <1>1, <1>7, <2>1, <2>2, <2>3 DEF Gated, Creating, IsMember
  <1>8. \/ pc'[t] \in {"idle", "owner", "permission", "answered"}
        \/ \E o \in Org : CreateOrganization(t, o)
        \/ SeedDefaults(t) /\ pc'[t] # "idle"
        \/ SeedFails(t) \/ Request(t)
        \/ (RequireMember(t) \/ ValidateScope(t)) /\ pc'[t] \in {"validate", "write"}
    BY <1>1 DEF StepOf, DeleteOrg, Orphan, RequireMember, AfterMember, Abort, CreateTeam, AddMember,
                AddTeamMember, CreateRole, ValidateScope, AssignRole, RegisterOwnership, ServiceCheck,
                CheckOwner, CheckPermission, Answer, Reply, Done, Goto
  <1> QED
    BY Zenon, <1>2, <1>3, <1>4, <1>5, <1>6, <1>7, <1>8

LEMMA GateKept ==
    ASSUME IInv, GateInv, [Next]_vars
    PROVE  GateInv'
  <1>1. CASE Next
    <2>1. PICK t \in Thread : StepOf(t)
      BY <1>1 DEF Next, Step, StepOf
    <2>2. \A q \in Thread : Gated(q)'
      BY <2>1, StepGated, OthersGated
    <2>3. \A m \in teamMembers' : team'[m[2]] # None
      <3> SUFFICES ASSUME NEW m \in teamMembers' PROVE team'[m[2]] # None
        OBVIOUS
      <3>1. CASE m \in teamMembers
        BY ZenonT(40), <2>1, <3>1, MembersStay DEF GateInv, IInv, TypeOK
      <3>2. CASE m \notin teamMembers
        <4>1. AddTeamMember(t)
          BY ZenonT(40), <2>1, <3>2 DEF StepOf, CreateOrganization, SeedDefaults, SeedFails, DeleteOrg,
             DeleteCascade, Orphan, Request, RequireMember, Abort, CreateTeam, AddMember, CreateRole,
             ValidateScope, AssignRole, RegisterOwnership, ServiceCheck, CheckOwner, CheckPermission,
             Reply, tables
        <4> QED
          BY <3>2, <4>1 DEF AddTeamMember, InsertTeamMember, Teams
      <3> QED
        BY Zenon, <3>1, <3>2
    <2> QED
      BY Zenon, <2>2, <2>3 DEF GateInv
  <1>2. CASE UNCHANGED vars
    BY ZenonT(40), <1>2 DEF vars, tables, GateInv, Gated, IsMember
  <1> QED
    BY <1>1, <1>2

\* What a step adds to an organisation is in one of its six tables.
LEMMA NothingAdded ==
    ASSUME NEW o \in Org,
           {m \in members' : m[2] = o} \subseteq {m \in members : m[2] = o},
           {m \in teamMembers' : team'[m[2]] = o} \subseteq {m \in teamMembers : team[m[2]] = o},
           {r \in roles' : r.id[1] = o} \subseteq {r \in roles : r.id[1] = o},
           {a \in assigned' : a.role[1] = o} \subseteq {a \in assigned : a.role[1] = o},
           \A x \in Resource : ownership'[x].org = o => ownership'[x] = ownership[x],
           {m \in Team : team'[m] = o} \subseteq {m \in Team : team[m] = o}
    PROVE  ~Adds(o)
  <1> DEFINE Owned == {<<r, ownership[r].owner>> : r \in {x \in Resource : ownership[x].org = o}}
  <1>1. Owned' \subseteq Owned
    BY ZenonT(40)
  <1>2. /\ Rows(o) = <<{m \in members : m[2] = o}, {m \in teamMembers : team[m[2]] = o},
                       {r \in roles : r.id[1] = o}, {a \in assigned : a.role[1] = o},
                       Owned, {m \in Team : team[m] = o}>>
        /\ Rows(o)' = <<{m \in members' : m[2] = o}, {m \in teamMembers' : team'[m[2]] = o},
                        {r \in roles' : r.id[1] = o}, {a \in assigned' : a.role[1] = o},
                        Owned', {m \in Team : team'[m] = o}>>
    BY ZenonT(40) DEF Rows
  <1> HIDE DEF Owned
  <1>3. DOMAIN Rows(o) = 1..6
    BY SMTT(30), <1>2
  <1>4. \A i \in 1..6 : i = 1 \/ i = 2 \/ i = 3 \/ i = 4 \/ i = 5 \/ i = 6
    OBVIOUS
  <1>5. \A i \in 1..6 : Rows(o)'[i] \subseteq Rows(o)[i]
    BY SMTT(30), <1>1, <1>2, <1>4
  <1> QED
    BY <1>3, <1>5 DEF Adds

\* A step adds to no organisation but the one it was let into.
LEMMA AddsToItsOrg ==
    ASSUME IInv, GateInv, NEW t \in Thread, StepOf(t), NEW o \in Org, Adds(o)
    PROVE  pc[t] \in {"seed", "write"} /\ req[t].org = o
  <1> SUFFICES ASSUME pc[t] \notin {"seed", "write"} \/ req[t].org # o PROVE ~Adds(o)
    BY Zenon
  <1>1. CASE UNCHANGED <<members, team, teamMembers, roles, assigned, ownership>>
    BY ZenonT(40), <1>1, NothingAdded
  <1>2. CASE DeleteOrg(t)
    <2>1. /\ roles' \subseteq roles /\ UNCHANGED <<team, assigned, ownership>>
          /\ members' \subseteq members /\ teamMembers' \subseteq teamMembers
      BY ZenonT(40), <1>2, CascadeFacts
    <2> QED
      BY <2>1, NothingAdded
  <1>3. CASE SeedDefaults(t)
    <2>1. /\ \A r \in roles' : r \in roles \/ r.id[1] = req[t].org
          /\ UNCHANGED <<members, team, teamMembers, assigned, ownership>> /\ pc[t] = "seed"
      BY <1>3 DEF SeedDefaults, InsertRole
    <2> QED
      BY Zenon, <2>1, NothingAdded
  <1>4. CASE \E m \in Team : CreateTeam(t, m)
    <2>1. PICK m \in Team : CreateTeam(t, m)
      BY <1>4
    <2>2. /\ team[m] = None /\ team' = [team EXCEPT ![m] = req[t].org] /\ pc[t] = "write"
          /\ UNCHANGED <<members, teamMembers, roles, assigned, ownership>>
      BY ZenonT(40), <2>1 DEF CreateTeam, InsertTeam, Writes
    <2>3. \A k \in Team : team'[k] = o => team[k] = o
      BY Zenon, <2>2 DEF IInv, TypeOK
    <2>4. \A k \in teamMembers : k[2] \in Team
      BY ZenonT(40) DEF IInv, TypeOK
    <2> QED
      BY Zenon, <2>2, <2>3, <2>4, NothingAdded
  <1>5. CASE AddMember(t)
    <2>1. /\ members' = members \cup {<<req[t].who, req[t].org>>} /\ pc[t] = "write"
          /\ UNCHANGED <<team, teamMembers, roles, assigned, ownership>>
      BY ZenonT(40), <1>5 DEF AddMember, InsertMember, Writes
    <2> QED
      BY SMTT(30), <2>1, NothingAdded
  <1>6. CASE AddTeamMember(t)
    <2>1. /\ teamMembers' = teamMembers \cup {<<req[t].who, req[t].scope>>} /\ pc[t] = "write"
          /\ UNCHANGED <<members, team, roles, assigned, ownership>> /\ req[t].op = "AddTeamMember"
      BY Zenon, <1>6 DEF AddTeamMember, InsertTeamMember, Writes
    <2>2. team[req[t].scope] = req[t].org
      BY ZenonT(40), <2>1 DEF GateInv, Gated
    <2> QED
      BY <2>1, <2>2, NothingAdded
  <1>7. CASE CreateRole(t)
    <2>1. /\ roles' = roles \cup {[id |-> req[t].role, perms |-> req[t].perms]} /\ pc[t] = "write"
          /\ UNCHANGED <<members, team, teamMembers, assigned, ownership>> /\ req[t].op = "CreateRole"
      BY ZenonT(40), <1>7 DEF CreateRole, InsertRole, Writes
    <2>2. req[t].role[1] = req[t].org
      BY ZenonT(40), <2>1, WriteFacts DEF Wellformed
    <2> QED
      BY SMTT(30), <2>1, <2>2, NothingAdded
  <1>8. CASE AssignRole(t)
    <2>1. /\ assigned' = assigned \cup {[who |-> req[t].who, role |-> req[t].role, scope |-> req[t].scope]}
          /\ UNCHANGED <<members, team, teamMembers, roles, ownership>> /\ req[t].op = "AssignRole"
          /\ pc[t] = "write"
      BY ZenonT(40), <1>8 DEF AssignRole, InsertAssignment, Writes
    <2>2. req[t].role[1] = req[t].org
      BY ZenonT(40), <2>1, WriteFacts DEF Wellformed
    <2> QED
      BY SMTT(30), <2>1, <2>2, NothingAdded
  <1>9. CASE RegisterOwnership(t)
    <2> DEFINE row == [owner |-> req[t].who, org |-> req[t].org]
    <2>1. /\ ownership' = [ownership EXCEPT ![req[t].res] = row] /\ row.org = req[t].org
          /\ UNCHANGED <<members, team, teamMembers, roles, assigned>> /\ pc[t] = "write"
      BY ZenonT(40), <1>9 DEF RegisterOwnership, UpsertOwnership, Writes
    <2> HIDE DEF row
    <2>2. \A x \in Resource : ownership'[x].org = o => ownership'[x] = ownership[x]
      BY <2>1 DEF IInv, TypeOK
    <2> QED
      BY <2>1, <2>2, NothingAdded
  <1>10. \/ UNCHANGED <<members, team, teamMembers, roles, assigned, ownership>>
         \/ DeleteOrg(t) \/ SeedDefaults(t) \/ (\E m \in Team : CreateTeam(t, m)) \/ AddMember(t)
         \/ AddTeamMember(t) \/ CreateRole(t) \/ AssignRole(t) \/ RegisterOwnership(t)
    BY ZenonT(40) DEF StepOf, CreateOrganization, SeedFails, Orphan, Request, RequireMember, Abort, ValidateScope,
           ServiceCheck, CheckOwner, CheckPermission, Reply, tables
  <1> QED
    BY ZenonT(40), <1>1, <1>2, <1>3, <1>4, <1>5, <1>6, <1>7, <1>8, <1>9, <1>10

\* A thread that writes goes on.
LEMMA WriterMoves ==
    ASSUME IInv, NEW t \in Thread, StepOf(t), pc[t] \in {"seed", "write"}
    PROVE  pc'[t] # pc[t] \/ req'[t] # req[t]
  <1>1. pc \in [Thread -> PC] /\ req \in [Thread -> Req]
    BY Zenon DEF IInv, TypeOK, Req
  <1>2. CASE SeedDefaults(t) /\ req' = [req EXCEPT ![t].n = @ + 1]
    <2>1. req'[t].n = req[t].n + 1 /\ req[t].n \in Nat
      BY Zenon, <1>1, <1>2 DEF Req
    <2> QED
      BY <2>1
  <1>3. CASE Done(t) \/ SeedFails(t)
    BY <1>1, <1>3 DEF Done, SeedFails, Goto
  <1>4. \/ SeedDefaults(t) /\ req' = [req EXCEPT ![t].n = @ + 1]
        \/ SeedFails(t) \/ Done(t)
    BY ZenonT(40) DEF StepOf, CreateOrganization, SeedDefaults, DeleteOrg, Orphan, Request, RequireMember, Abort,
           CreateTeam, AddMember, AddTeamMember, CreateRole, ValidateScope, AssignRole,
           RegisterOwnership, ServiceCheck, CheckOwner, CheckPermission, Reply
  <1> QED
    BY Zenon, <1>2, <1>3, <1>4

(***************************************************************************)
(* Whoever adds a row to an organisation is a member of it at that very    *)
(* moment, or holds the root token: what RequireMember has tested is still *)
(* true when a later statement writes, and that statement writes to the    *)
(* organisation that was tested (Handler in org, role and authz).          *)
(***************************************************************************)
THEOREM OnlyMembersWriteHolds == Spec => OnlyMembersWrite
  <1>1. Init => GateInv
    BY DEF Init, GateInv, Gated, Creating
  <1>2. IInv /\ GateInv /\ [Next]_vars => GateInv'
    BY ZenonT(40), GateKept
  <1>3. IInv /\ GateInv /\ [Next]_vars =>
           [\A o \in Org : tables' # tables /\ Adds(o) =>
              \E t \in Thread : /\ req[t].org = o /\ pc[t] \in {"seed", "write"}
                                /\ pc'[t] # pc[t] \/ req'[t] # req[t]
                                /\ IsMember(req[t])]_vars
    <2> SUFFICES ASSUME IInv, GateInv, Next, NEW o \in Org, Adds(o)
                 PROVE  \E t \in Thread : /\ req[t].org = o /\ pc[t] \in {"seed", "write"}
                                          /\ pc'[t] # pc[t] \/ req'[t] # req[t]
                                          /\ IsMember(req[t])
      BY Zenon
    <2>1. PICK t \in Thread : StepOf(t)
      BY Zenon DEF Next, Step, StepOf
    <2>2. pc[t] \in {"seed", "write"} /\ req[t].org = o
      BY Zenon, <2>1, AddsToItsOrg
    <2>3. IsMember(req[t])
      BY Zenon, <2>2 DEF GateInv, Gated, IsMember, Creating
    <2> QED
      BY <2>1, <2>2, <2>3, WriterMoves
  <1> QED
    BY <1>1, <1>2, <1>3, Invariant, PTL DEF Spec, OnlyMembersWrite
----------------------------------------------------------------------------
(* The refinement of Authority. *)

OwnerBar == [r \in Resource |-> ownership[r].owner]

PermsBar == {x \in Principal \X Action \X Scope :
                \E a \in assigned : a.who = x[1] /\ a.scope = x[3] /\ Grants(a, x[2])}

\* A role that is assigned stays what it is.
LEMMA PermsSame ==
    ASSUME UNCHANGED assigned,
           \A a \in assigned, r \in roles \cup roles' : r.id = a.role => (r \in roles <=> r \in roles')
    PROVE  PermsBar' = PermsBar
  <1>1. \A a \in assigned : \A act : Grants(a, act)' <=> Grants(a, act)
    BY Zenon DEF Grants
  <1> QED
    BY Zenon, <1>1 DEF PermsBar

LEMMA NewRole ==
    ASSUME IInv, NEW new, roles' = roles \cup {new}, ~RoleExists(new.id), UNCHANGED assigned
    PROVE  PermsBar' = PermsBar
  <1>1. \A a \in assigned : a.role # new.id
    BY Zenon DEF IInv, UsedInv
  <1>2. \A a \in assigned, r \in roles \cup roles' : r.id = a.role => (r \in roles <=> r \in roles')
    BY Zenon, <1>1
  <1> QED
    BY Zenon, <1>2, PermsSame

LEMMA GrantStep ==
    ASSUME IInv, NEW t \in Thread, AssignRole(t)
    PROVE  \E p \in Principal, acts \in SUBSET Action, s \in Scope :
              PermsBar' = PermsBar \cup ({p} \X acts \X {s}) /\ OwnerBar' = OwnerBar
  <1> DEFINE new == [who |-> req[t].who, role |-> req[t].role, scope |-> req[t].scope]
             acts == {act \in Action : Grants(new, act)}
  <1>1. assigned' = assigned \cup {new} /\ UNCHANGED <<roles, ownership>> /\ pc[t] = "write" /\ req[t].op = "AssignRole"
    BY Zenon DEF AssignRole, Writes, InsertAssignment
  <1>2. req[t].who \in Principal /\ req[t].scope \in Scope
    BY Zenon, <1>1, WriteFacts DEF Wellformed
  <1>3. new.who = req[t].who /\ new.scope = req[t].scope
    BY Zenon
  <1>4. acts \in SUBSET Action /\ \A act \in Action : act \in acts <=> Grants(new, act)
    BY Zenon
  <1> HIDE DEF new, acts
  <1>5. \A a, act : Grants(a, act)' <=> Grants(a, act)
    BY Zenon, <1>1 DEF Grants
  <1>6. \A x \in Principal \X Action \X Scope :
           x \in {new.who} \X acts \X {new.scope} <=>
              x[1] = new.who /\ x[3] = new.scope /\ Grants(new, x[2])
    BY Zenon, <1>4
  <1>7. {new.who} \X acts \X {new.scope} \subseteq Principal \X Action \X Scope
    BY ZenonT(40), <1>2, <1>3, <1>4
  <1>8. PermsBar' = {x \in Principal \X Action \X Scope :
                        \E a \in assigned \cup {new} : a.who = x[1] /\ a.scope = x[3] /\ Grants(a, x[2])}
    BY <1>1, <1>5 DEF PermsBar
  <1>9. PermsBar' = PermsBar \cup ({new.who} \X acts \X {new.scope})
    BY ZenonT(40), <1>6, <1>7, <1>8 DEF PermsBar
  <1>10. OwnerBar' = OwnerBar
    BY <1>1 DEF OwnerBar
  <1> QED
    BY Zenon, <1>2, <1>3, <1>4, <1>9, <1>10

LEMMA RegisterStep ==
    ASSUME IInv, NEW t \in Thread, RegisterOwnership(t)
    PROVE  \E p \in Principal, x \in Resource :
              OwnerBar' = [OwnerBar EXCEPT ![x] = p] /\ PermsBar' = PermsBar
  <1> DEFINE row == [owner |-> req[t].who, org |-> req[t].org]
  <1>1. /\ ownership' = [ownership EXCEPT ![req[t].res] = row] /\ UNCHANGED <<roles, assigned>>
        /\ pc[t] = "write" /\ req[t].op = "RegisterOwnership" /\ row.owner = req[t].who
    BY Zenon DEF RegisterOwnership, Writes, UpsertOwnership
  <1>2. req[t].who \in Principal /\ req[t].res \in Resource
    BY ZenonT(40), <1>1, WriteFacts DEF Wellformed
  <1> HIDE DEF row
  <1>3. OwnerBar' = [OwnerBar EXCEPT ![req[t].res] = req[t].who]
    BY Zenon, <1>1, <1>2 DEF OwnerBar, IInv, TypeOK
  <1>4. PermsBar' = PermsBar
    BY <1>1, PermsSame
  <1> QED
    BY ZenonT(40), <1>2, <1>3, <1>4

\* Every other step leaves owners and permissions as they are.
LEMMA AuthorityStep ==
    ASSUME IInv, Step
    PROVE  \/ OwnerBar' = OwnerBar /\ PermsBar' = PermsBar
           \/ \E p \in Principal, x \in Resource :
                 OwnerBar' = [OwnerBar EXCEPT ![x] = p] /\ PermsBar' = PermsBar
           \/ \E p \in Principal, acts \in SUBSET Action, s \in Scope :
                 PermsBar' = PermsBar \cup ({p} \X acts \X {s}) /\ OwnerBar' = OwnerBar
  <1>1. PICK t \in Thread :
        \/ \E o \in Org : CreateOrganization(t, o)
        \/ SeedDefaults(t) \/ SeedFails(t) \/ DeleteOrg(t) \/ Orphan(t)
        \/ Request(t) \/ RequireMember(t) \/ Abort(t)
        \/ \E m \in Team : CreateTeam(t, m)
        \/ AddMember(t) \/ AddTeamMember(t) \/ CreateRole(t)
        \/ ValidateScope(t) \/ AssignRole(t) \/ RegisterOwnership(t)
        \/ ServiceCheck(t) \/ Reply(t)
    BY Zenon DEF Step
  <1>2. CASE UNCHANGED <<roles, assigned, ownership>>
    BY Zenon, <1>2, PermsSame DEF OwnerBar
  <1>3. CASE SeedDefaults(t)
    <2> DEFINE new == [id |-> <<req[t].org, Name(req[t].n)>>, perms |-> DefaultRoles[req[t].n].perms]
    <2>1. roles' = roles \cup {new} /\ ~RoleExists(new.id)
      BY Zenon, <1>3, SeedFacts
    <2>2. UNCHANGED <<assigned, ownership>>
      BY <1>3 DEF SeedDefaults
    <2> HIDE DEF new
    <2> QED
      BY <2>1, <2>2, NewRole DEF OwnerBar
  <1>4. CASE DeleteOrg(t)
    <2>1. /\ req[t].org \in Org /\ org[req[t].org] = "stored" /\ UNCHANGED <<assigned, ownership>>
          /\ roles' = {r \in roles : r.id[1] # req[t].org}
      BY Zenon, <1>4, CascadeFacts
    <2>2. \A a \in assigned : a.role[1] # req[t].org
      BY Zenon, <2>1, Unreferenced
    <2>3. PermsBar' = PermsBar
      BY Zenon, <2>1, <2>2, PermsSame
    <2> QED
      BY ZenonT(40), <2>1, <2>3 DEF OwnerBar
  <1>5. CASE CreateRole(t)
    <2> DEFINE new == [id |-> req[t].role, perms |-> req[t].perms]
    <2>1. roles' = roles \cup {new} /\ ~RoleExists(new.id) /\ UNCHANGED <<assigned, ownership>>
      BY <1>5 DEF CreateRole, InsertRole
    <2> HIDE DEF new
    <2> QED
      BY Zenon, <2>1, NewRole DEF OwnerBar
  <1>6. CASE AssignRole(t)
    BY Zenon, <1>6, GrantStep
  <1>7. CASE RegisterOwnership(t)
    BY <1>7, RegisterStep
  <1>8. \/ SeedDefaults(t) \/ DeleteOrg(t) \/ CreateRole(t) \/ AssignRole(t) \/ RegisterOwnership(t)
        \/ UNCHANGED <<roles, assigned, ownership>>
    BY Zenon, <1>1 DEF CreateOrganization, SeedFails, Orphan, Request, RequireMember, Abort, CreateTeam,
                AddMember, AddTeamMember, ValidateScope, ServiceCheck, CheckOwner, CheckPermission,
                Reply, tables
  <1> QED
    BY Zenon, <1>2, <1>3, <1>4, <1>5, <1>6, <1>7, <1>8

(***************************************************************************)
(* The tables and statements of org, role and authz implement Authority,   *)
(* on which the checks of delegations rely: an owner is replaced only by a *)
(* registration, and no step, not even the cascade of a deleted            *)
(* organisation, takes a permission back.                                  *)
(***************************************************************************)
THEOREM ImplementsAuthorityHolds == Spec => ImplementsAuthority
  <1>1. Init => Auth!AuthorityInit
    <2> SUFFICES ASSUME Init PROVE Auth!AuthorityInit
      BY Zenon
    <2>1. OwnerBar = [r \in Resource |-> None]
      BY Zenon DEF Init, OwnerBar
    <2>2. PermsBar = {}
      BY Zenon DEF Init, PermsBar
    <2> QED
      BY <2>1, <2>2 DEF Auth!AuthorityInit, OwnerBar, PermsBar
  <1>2. IInv /\ [Next]_vars => [Auth!AuthorityNext]_(Auth!authority)
    <2> SUFFICES ASSUME IInv, [Next]_vars
                 PROVE  [Auth!AuthorityNext]_(Auth!authority)
      BY Zenon
    <2>1. \/ OwnerBar' = OwnerBar /\ PermsBar' = PermsBar
          \/ \E p \in Principal, x \in Resource :
                OwnerBar' = [OwnerBar EXCEPT ![x] = p] /\ PermsBar' = PermsBar
          \/ \E p \in Principal, acts \in SUBSET Action, s \in Scope :
                PermsBar' = PermsBar \cup ({p} \X acts \X {s}) /\ OwnerBar' = OwnerBar
      <3>1. CASE Next
        BY Zenon, <3>1, AuthorityStep DEF Next
      <3>2. CASE UNCHANGED vars
        BY <3>2, PermsSame DEF vars, tables, OwnerBar
      <3> QED
        BY Zenon, <3>1, <3>2
    <2>2. CASE OwnerBar' = OwnerBar /\ PermsBar' = PermsBar
      BY ZenonT(40), <2>2 DEF Auth!authority, OwnerBar, PermsBar
    <2>3. CASE \E p \in Principal, x \in Resource :
                  OwnerBar' = [OwnerBar EXCEPT ![x] = p] /\ PermsBar' = PermsBar
      BY ZenonT(40), <2>3 DEF Auth!AuthorityNext, Auth!Register, OwnerBar, PermsBar
    <2>4. CASE \E p \in Principal, acts \in SUBSET Action, s \in Scope :
                  PermsBar' = PermsBar \cup ({p} \X acts \X {s}) /\ OwnerBar' = OwnerBar
      BY Zenon, <2>4 DEF Auth!AuthorityNext, Auth!Grant, OwnerBar, PermsBar
    <2> QED
      BY <2>1, <2>2, <2>3, <2>4
  <1> QED
    BY <1>1, <1>2, Invariant, PTL DEF Spec, ImplementsAuthority, Auth!AuthoritySpec
============================================================================
