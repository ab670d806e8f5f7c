----------------------------- MODULE Principals -----------------------------
(***************************************************************************)
(* Creating principals: an identity in Keycloak first, then a row in       *)
(* Postgres, with nothing that undoes the first when the second fails. A   *)
(* human is a Keycloak user and needs the realm's user profile to keep     *)
(* unmanaged attributes, which each process sees to once, under a mutex; a *)
(* service or an agent is a client. (internal/principal,                   *)
(* internal/engine/keycloak/keycloak.go.)                                  *)
(*                                                                         *)
(* Identities are numbered in the order Keycloak creates them. Validate    *)
(* treats an agent's capabilities as it does the purpose, which stands for *)
(* both there. Past it they are left out: Keycloak is not told of them,    *)
(* and the table stores them as they come.                                 *)
(***************************************************************************)
EXTENDS Integers, Sequences

CONSTANTS
    Process, Thread,
    ProcOf,             \* the process each thread belongs to
    Input,              \* the requests that each thread may be given
    None,
    MaxIdentities       \* bound on the identities Keycloak ever creates

NewInput == [type : STRING, name : STRING, owner : STRING, purpose : STRING]

ASSUME PrincipalsConstants ==
    /\ ProcOf \in [Thread -> Process]
    /\ None \notin Thread
    /\ MaxIdentities \in Nat
    /\ Input \in [Thread -> SUBSET NewInput]

VARIABLES
    policy,         \* Keycloak: unmanagedAttributePolicy is ENABLED
    identities,     \* Keycloak: its users and clients
    rows,           \* the table principals
    mu,             \* unmanagedAttrsMu of each process: None or the thread in it
    ensured,        \* unmanagedAttrsEnsured of each process
    pc, req, got,   \* each thread's place, its request and the id it was given
    events,         \* ghost: the principals whose creation was handed to the recorder
    failed,         \* ghost: identities whose request failed, or died, after creating them
    reverted        \* ghost: an administrator has disabled the policy

vars == <<policy, identities, rows, mu, ensured, pc, req, got, events, failed, reverted>>

kc == <<policy, identities>>
ghosts == <<events, failed, reverted>>

\* Mutant: an agent needs no owner.
ValidateOwnerless(in) ==
    /\ in.type \in {"human", "service", "agent"}
    /\ in.name # ""
    /\ in.type = "agent" \/ (in.owner = "" /\ in.purpose = "")

Validate(in) ==
    /\ in.type \in {"human", "service", "agent"}
    /\ in.name # ""
    /\ IF in.type = "agent" THEN in.owner # "" ELSE in.owner = "" /\ in.purpose = ""

Labels == {"idle", "login", "mutex", "getProfile", "putProfile", "create", "insert", "answer"}
Ids == 1..Len(identities)
NoAttrs == [type |-> "", owner |-> "", purpose |-> ""]
Attributes == [type : STRING, owner : STRING, purpose : STRING] \cup {NoAttrs}
Identity == [kind : {"user", "client"}, name : STRING, attrs : Attributes]
Principal == [id : Ids, type : STRING, name : STRING, owner : STRING, purpose : STRING]

(***************************************************************************)
(* The types of the variables; and in the table, agents have an owner and  *)
(* nobody else does, although owner_principal_id has no constraint         *)
(* (Validate, 0001_principal.sql).                                         *)
(***************************************************************************)
TypeOK ==
    /\ policy \in BOOLEAN /\ reverted \in BOOLEAN
    /\ identities \in Seq(Identity)
    /\ rows \subseteq Principal
    /\ \A row \in rows : row.name # "" /\ (row.type = "agent" <=> row.owner # "")
    /\ mu \in [Process -> Thread \cup {None}]
    /\ ensured \in [Process -> BOOLEAN]
    /\ pc \in [Thread -> Labels]
    /\ req \in [Thread -> NewInput \cup {None}]
    /\ got \in [Thread -> 0..Len(identities)]
    /\ events \subseteq Ids /\ failed \subseteq Ids

Init ==
    /\ policy \in BOOLEAN
    /\ identities = <<>> /\ rows = {}
    /\ mu = [p \in Process |-> None]
    /\ ensured = [p \in Process |-> FALSE]
    /\ pc = [t \in Thread |-> "idle"]
    /\ req = [t \in Thread |-> None]
    /\ got = [t \in Thread |-> 0]
    /\ events = {} /\ failed = {} /\ reverted = FALSE

Goto(t, label) == pc' = [pc EXCEPT ![t] = label]

\* The handler returns.
Returns(t) ==
    /\ Goto(t, "idle")
    /\ req' = [req EXCEPT ![t] = None]
    /\ got' = [got EXCEPT ![t] = 0]
-----------------------------------------------------------------------------
\* A request that is not valid is refused on the spot.
Create(t) ==
    /\ pc[t] = "idle"
    /\ \E in \in Input[t] :
         /\ Validate(in)
         /\ req' = [req EXCEPT ![t] = in]
    /\ Goto(t, "login")
    /\ UNCHANGED <<kc, rows, mu, ensured, got, ghosts>>

login(t) ==
    /\ pc[t] = "login"
    /\ Goto(t, IF req[t].type = "human" THEN "mutex" ELSE "create")
    /\ UNCHANGED <<kc, rows, mu, ensured, req, got, ghosts>>

\* ensureUnmanagedUserAttributes, as far as the flag.
LockMu(t) ==
    /\ pc[t] = "mutex" /\ mu[ProcOf[t]] = None
    /\ IF ensured[ProcOf[t]]
       THEN Goto(t, "create") /\ UNCHANGED mu
       ELSE Goto(t, "getProfile") /\ mu' = [mu EXCEPT ![ProcOf[t]] = t]
    /\ UNCHANGED <<kc, rows, ensured, req, got, ghosts>>

UnlockMu(t) == mu' = [mu EXCEPT ![ProcOf[t]] = None]

Ensured(t) ==
    /\ ensured' = [ensured EXCEPT ![ProcOf[t]] = TRUE]
    /\ UnlockMu(t)
    /\ Goto(t, "create")

\* Mutant: the flag is set as soon as the profile has been read.
GetProfileFlags(t) ==
    /\ pc[t] = "getProfile"
    /\ IF policy THEN Ensured(t)
       ELSE Goto(t, "putProfile") /\ ensured' = [ensured EXCEPT ![ProcOf[t]] = TRUE] /\ UNCHANGED mu
    /\ UNCHANGED <<kc, rows, req, got, ghosts>>

GetProfile(t) ==
    /\ pc[t] = "getProfile"
    /\ IF policy THEN Ensured(t) ELSE Goto(t, "putProfile") /\ UNCHANGED <<mu, ensured>>
    /\ UNCHANGED <<kc, rows, req, got, ghosts>>

PutProfile(t) ==
    /\ pc[t] = "putProfile"
    /\ policy' = TRUE
    /\ Ensured(t)
    /\ UNCHANGED <<identities, rows, req, got, ghosts>>

\* Mutant: the error returns leave the mutex locked.
ProfileFailsLocked(t) ==
    /\ pc[t] \in {"getProfile", "putProfile"}
    /\ policy' \in {policy, policy \/ pc[t] = "putProfile"}
    /\ Returns(t)
    /\ UNCHANGED <<identities, rows, mu, ensured, ghosts>>

\* A PUT that is reported failed may have been done.
ProfileFails(t) ==
    /\ pc[t] \in {"getProfile", "putProfile"}
    /\ policy' \in {policy, policy \/ pc[t] = "putProfile"}
    /\ UnlockMu(t)
    /\ Returns(t)
    /\ UNCHANGED <<identities, rows, ensured, ghosts>>

KindOf(in) == IF in.type = "human" THEN "user" ELSE "client"
Attrs(in) == [type |-> in.type, owner |-> in.owner, purpose |-> in.purpose]

\* Keycloak: a name is taken once among the users and once among the clients, and a
\* user's attributes are dropped unless the policy keeps them.
Taken(in) == \E i \in Ids : identities[i].kind = KindOf(in) /\ identities[i].name = in.name

NewIdentity(t) ==
    /\ ~Taken(req[t]) /\ Len(identities) < MaxIdentities
    /\ identities' = Append(identities,
            [kind |-> KindOf(req[t]), name |-> req[t].name,
             attrs |-> IF KindOf(req[t]) = "client" \/ policy THEN Attrs(req[t]) ELSE NoAttrs])

\* CreateUser or CreateClient.
CreateIdentity(t) ==
    /\ pc[t] = "create"
    /\ NewIdentity(t)
    /\ got' = [got EXCEPT ![t] = Len(identities')]
    /\ Goto(t, "insert")
    /\ UNCHANGED <<policy, rows, mu, ensured, req, ghosts>>

\* Mutant: a name that is taken is taken over.
CreateFailsAdopts(t) ==
    \/ /\ pc[t] = "create" /\ Taken(req[t])
       /\ got' = [got EXCEPT ![t] = CHOOSE i \in Ids : /\ identities[i].kind = KindOf(req[t])
                                                       /\ identities[i].name = req[t].name]
       /\ Goto(t, "insert")
       /\ UNCHANGED <<identities, failed, policy, rows, mu, ensured, req, events, reverted>>
    \/ /\ pc[t] \in {"login", "create"}
       /\ Returns(t)
       /\ UNCHANGED <<identities, failed, policy, rows, mu, ensured, events, reverted>>

\* The name is taken, Keycloak refuses, or its answer is never seen.
CreateFails(t) ==
    /\ pc[t] \in {"login", "create"}
    /\ \/ UNCHANGED <<identities, failed>>
       \/ /\ pc[t] = "create" /\ NewIdentity(t)
          /\ failed' = failed \cup {Len(identities')}
    /\ Returns(t)
    /\ UNCHANGED <<policy, rows, mu, ensured, events, reverted>>

Row(t) == [id |-> got[t], type |-> req[t].type, name |-> req[t].name, owner |-> req[t].owner,
           purpose |-> req[t].purpose]

InsertPrincipal(row) ==
    /\ \A other \in rows : other.id # row.id
    /\ rows' = rows \cup {row}

Insert(t) ==
    /\ pc[t] = "insert"
    /\ InsertPrincipal(Row(t))
    /\ Goto(t, "answer")
    /\ UNCHANGED <<kc, mu, ensured, req, got, ghosts>>

\* Mutant: the error of the insert is logged and dropped.
InsertFailsQuietly(t) ==
    /\ pc[t] = "insert"
    /\ Goto(t, "answer")
    /\ UNCHANGED <<kc, rows, mu, ensured, req, got, ghosts>>

InsertFails(t) ==
    /\ pc[t] = "insert"
    /\ UNCHANGED rows \/ InsertPrincipal(Row(t))
    /\ failed' = failed \cup {got[t]}
    /\ Returns(t)
    /\ UNCHANGED <<kc, mu, ensured, events, reverted>>

\* CreatePrincipal records the event and answers.
Answer(t) ==
    /\ pc[t] = "answer"
    /\ events' = events \cup {got[t]}
    /\ Returns(t)
    /\ UNCHANGED <<kc, rows, mu, ensured, failed, reverted>>

\* A process dies. A call that was under way and takes effect all the same is the
\* failure of that call, followed by this.
Crash(p) ==
    LET dead == {t \in Thread : ProcOf[t] = p} IN
    /\ \E t \in dead : pc[t] # "idle"
    /\ failed' = failed \cup {got[t] : t \in {t \in dead : got[t] # 0}}
    /\ pc' = [t \in Thread |-> IF t \in dead THEN "idle" ELSE pc[t]]
    /\ req' = [t \in Thread |-> IF t \in dead THEN None ELSE req[t]]
    /\ got' = [t \in Thread |-> IF t \in dead THEN 0 ELSE got[t]]
    /\ mu' = [mu EXCEPT ![p] = None]
    /\ ensured' = [ensured EXCEPT ![p] = FALSE]
    /\ UNCHANGED <<kc, rows, events, reverted>>

\* An administrator disables unmanaged attributes.
Revert ==
    /\ policy
    /\ policy' = FALSE /\ reverted' = TRUE
    /\ UNCHANGED <<identities, rows, mu, ensured, pc, req, got, events, failed>>

Runs(t) ==
    \/ login(t) \/ LockMu(t) \/ GetProfile(t) \/ PutProfile(t) \/ ProfileFails(t)
    \/ CreateIdentity(t) \/ CreateFails(t) \/ Insert(t) \/ InsertFails(t) \/ Answer(t)

Next ==
    \/ \E t \in Thread : Create(t) \/ Runs(t)
    \/ \E p \in Process : Crash(p)
    \/ Revert

Spec == Init /\ [][Next]_vars

\* A thread keeps running; a sync.Mutex does not starve a waiter.
FairSpec == Spec /\ \A t \in Thread : WF_vars(Runs(t)) /\ SF_vars(LockMu(t))
-----------------------------------------------------------------------------
\* What Service.Get and TypeOf answer for a principal.
Get(id) == {row \in rows : row.id = id}

\* What Adapter.GetPrincipal reads back from Keycloak: the user, else the client.
GetPrincipal(id) == identities[id].attrs

(***************************************************************************)
(* The two stores agree: every row has its identity, of the right kind,    *)
(* and Keycloak gives back the type, the owner and the purpose the row     *)
(* holds. No user is ever created by a process that only believes the      *)
(* policy is in place, as long as no administrator disables it (the        *)
(* comments on unmanagedAttrsEnsured).                                     *)
(***************************************************************************)
RowMatchesIdentity ==
    \A row \in rows :
        /\ identities[row.id].kind = KindOf(row) /\ identities[row.id].name = row.name
        /\ GetPrincipal(row.id) = Attrs(row) \/ (reverted /\ row.type = "human")

(***************************************************************************)
(* Every identity is accounted for: it has a row, its request is about to  *)
(* write one, or that request failed or died; and every row has its audit  *)
(* event, with the same exceptions. What is recorded as created is there   *)
(* (Service.Create, Handler.CreatePrincipal).                              *)
(***************************************************************************)
Accounted ==
    /\ \A i \in Ids \ failed :
          \/ i \in events
          \/ \E t \in Thread : got[t] = i /\ pc[t] = IF Get(i) = {} THEN "insert" ELSE "answer"
    /\ \A i \in events : \E row \in rows : Get(i) = {row}

Stranded == {i \in failed : Get(i) = {}}

(***************************************************************************)
(* An identity whose row was not written stays without one, and its name   *)
(* stays taken: no later request makes a principal of that name and kind,  *)
(* however often the client retries (there is no compensation in Create).  *)
(***************************************************************************)
StrandedStays ==
    [][\A i \in Stranded :
          /\ i \in Stranded'
          /\ \A row \in rows' : ~(KindOf(row) = identities[i].kind /\ row.name = identities[i].name)]_vars

(***************************************************************************)
(* Every request ends, though the mutex is held across two calls of        *)
(* Keycloak that may fail (the deferred unlock).                           *)
(***************************************************************************)
RequestsEnd == \A t \in Thread : pc[t] # "idle" ~> pc[t] = "idle"
=============================================================================
