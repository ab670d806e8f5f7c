----------------------------- MODULE Provision -----------------------------
(***************************************************************************)
(* Adapter.EnsureProvisioned, run by every replica as it starts: the realm *)
(* and the two OIDC clients in the one Keycloak that all replicas share.   *)
(* Each call of Keycloak's admin API is a step; creating what is there is  *)
(* a conflict. (internal/engine/keycloak/provision.go.)                    *)
(*                                                                         *)
(* A client's settings are "none" (there is no client), "want" (what       *)
(* ensureClients asks for) or "other" (edited by an administrator).        *)
(***************************************************************************)
EXTENDS Replicas, Integers, Sequences

VARIABLES
    realm,          \* the realm exists
    clients,        \* the settings of the two clients
    prov            \* where each replica is in EnsureProvisioned

keycloak == <<realm, clients>>

\* The order in which ensureClients upserts them.
Client == <<"login", "service">>
NotProvisioning == [pc |-> "idle", i |-> 1, err |-> FALSE]

ProvisionTypeOK ==
    /\ realm \in BOOLEAN
    /\ clients \in [1..2 -> {"none", "want", "other"}]
    /\ prov \in [Replica -> [pc : {"idle", "login", "getRealm", "createRealm", "getClients",
                                   "createClient", "updateClient", "returned"},
                             i : 1..2, err : BOOLEAN]]

ProvisionInit ==
    /\ realm = FALSE /\ clients = [i \in 1..2 |-> "none"]
    /\ prov = [r \in Replica |-> NotProvisioning]

Call(r, label) == prov' = [prov EXCEPT ![r].pc = label]

Refused(r) == prov' = [prov EXCEPT ![r].pc = "returned", ![r].err = TRUE]
----------------------------------------------------------------------------
Login(r) ==
    /\ prov[r].pc = "login"
    /\ Call(r, "getRealm")
    /\ UNCHANGED keycloak

GetRealm(r) ==
    /\ prov[r].pc = "getRealm"
    /\ Call(r, IF realm THEN "getClients" ELSE "createRealm")
    /\ UNCHANGED keycloak

\* Any error of GetRealm is taken for "no such realm".
GetRealmFails(r) ==
    /\ prov[r].pc = "getRealm" /\ realm
    /\ Call(r, "createRealm")
    /\ UNCHANGED keycloak

\* Mutant: a create whose answer is slow is sent again.
CreateRealmResent(r) ==
    /\ prov[r].pc = "createRealm" /\ ~realm
    /\ realm' = TRUE
    /\ Call(r, "getClients") \/ UNCHANGED prov
    /\ UNCHANGED clients

CreateRealm(r) ==
    /\ prov[r].pc = "createRealm" /\ ~realm
    /\ realm' = TRUE
    /\ Call(r, "getClients")
    /\ UNCHANGED clients

GetClients(r) ==
    /\ prov[r].pc = "getClients"
    /\ Call(r, IF clients[prov[r].i] = "none" THEN "createClient" ELSE "updateClient")
    /\ UNCHANGED keycloak

\* The next client, or the end of ensureClients.
Upserted(r) ==
    \/ prov[r].i = Len(Client) /\ Call(r, "returned")
    \/ /\ prov[r].i < Len(Client)
       /\ prov' = [prov EXCEPT ![r].pc = "getClients", ![r].i = @ + 1]

Wanted(r) == clients' = [clients EXCEPT ![prov[r].i] = "want"]

CreateClient(r) ==
    /\ prov[r].pc = "createClient" /\ clients[prov[r].i] = "none"
    /\ Wanted(r)
    /\ Upserted(r)
    /\ UNCHANGED realm

\* Mutant: a client that is there is left as it is.
UpdateClientKeeps(r) ==
    /\ prov[r].pc = "updateClient"
    /\ Upserted(r)
    /\ UNCHANGED keycloak

UpdateClient(r) ==
    /\ prov[r].pc = "updateClient"
    /\ Wanted(r)
    /\ Upserted(r)
    /\ UNCHANGED realm

\* Somebody else created it first.
Conflict(r) ==
    /\ \/ prov[r].pc = "createRealm" /\ realm
       \/ prov[r].pc = "createClient" /\ clients[prov[r].i] # "none"
    /\ Refused(r)
    /\ UNCHANGED keycloak

\* What a call whose answer is never seen has done: nothing, or all of it.
Unseen(r) ==
    \/ UNCHANGED keycloak
    \/ prov[r].pc = "createRealm" /\ ~realm /\ realm' = TRUE /\ UNCHANGED clients
    \/ /\ \/ prov[r].pc = "createClient" /\ clients[prov[r].i] = "none"
          \/ prov[r].pc = "updateClient"
       /\ Wanted(r) /\ UNCHANGED realm

CallFails(r) ==
    /\ prov[r].pc \notin {"idle", "getRealm", "returned"}
    /\ Unseen(r)
    /\ Refused(r)

\* An administrator edits a client.
Drift(i) ==
    /\ clients[i] # "none"
    /\ clients' = [clients EXCEPT ![i] = "other"]
    /\ UNCHANGED <<realm, prov>>

EnsureProvisioned(r) ==
    \/ Login(r) \/ GetRealm(r) \/ CreateRealm(r) \/ GetClients(r) \/ CreateClient(r)
    \/ UpdateClient(r)
=============================================================================
