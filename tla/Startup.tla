------------------------------ MODULE Startup ------------------------------
(***************************************************************************)
(* runServer up to the moment it serves, in every replica: configuration,  *)
(* migrations, the signing key, provisioning of Keycloak, then the HTTP    *)
(* server. Replicas start, fail, are stopped and are killed at any time    *)
(* and in any order; they share one database and one Keycloak.             *)
(* (cmd/base-servers/main.go, internal/config.)                            *)
(*                                                                         *)
(* The store of signing keys is only "there is an active key" here; what   *)
(* EnsureActive does to it is the subject of SigningKeys.                  *)
(***************************************************************************)
EXTENDS Migrate, Provision, FiniteSets

CONSTANT Environment    \* the sets of settings each replica may be started without

\* The settings without which config.Load or runServer gives up.
Required == {"DATABASE_URL", "KEYCLOAK_URL", "BS_SIGNING_KEK", "BS_SERVICE_CLIENT_SECRET",
             "BS_PUBLIC_ISSUER", "BS_APIKEY_PEPPER"}

\* The root token is read and never looked at before it is used, although README.md
\* counts it among the secrets "the service refuses to start without".
Setting == Required \cup {"BS_ROOT_TOKEN"}

ASSUME EnvironmentConstants == Environment \in [Replica -> SUBSET SUBSET Setting]

VARIABLES
    boot,           \* where each replica is in runServer
    missing,        \* the settings it was started without
    activeKey,      \* signing_keys has an active row
    since,          \* ghost: clients edited after the replica upserted them
    fault,          \* ghost: something other than a lost race has ended a start
    lost            \* ghost: a replica has lost a race to create

keycloakVars == <<realm, clients, prov>>
migrateVars == <<lock, ledger, schema, mig>>
own == <<boot, missing, activeKey, since, fault, lost>>
vars == <<migrateVars, keycloakVars, own>>

TypeOK ==
    /\ MigrateTypeOK /\ ProvisionTypeOK
    /\ boot \in [Replica -> {"down", "config", "migrate", "keys", "secret", "provision",
                             "issuer", "serving"}]
    /\ missing \in [Replica -> SUBSET Setting]
    /\ since \in [Replica -> SUBSET (1..Len(Client))]
    /\ activeKey \in BOOLEAN /\ fault \in BOOLEAN /\ lost \in BOOLEAN
    /\ \A r \in Replica : /\ mig[r].pc # "idle" <=> boot[r] = "migrate"
                          /\ prov[r].pc # "idle" <=> boot[r] = "provision"

Init ==
    /\ MigrateInit /\ ProvisionInit
    /\ boot = [r \in Replica |-> "down"]
    /\ missing = [r \in Replica |-> {}]
    /\ since = [r \in Replica |-> {}]
    /\ activeKey = FALSE /\ fault = FALSE /\ lost = FALSE

BootTo(r, label) == boot' = [boot EXCEPT ![r] = label]

\* log.Fatalf, or the end of runServer.
Exits(r) ==
    /\ BootTo(r, "down")
    /\ missing' = [missing EXCEPT ![r] = {}]
    /\ since' = [since EXCEPT ![r] = {}]
----------------------------------------------------------------------------
Start(r) ==
    /\ boot[r] = "down"
    /\ BootTo(r, "config")
    /\ \E s \in Environment[r] : missing' = [missing EXCEPT ![r] = s]
    /\ UNCHANGED <<migrateVars, keycloakVars, activeKey, since, fault, lost>>

\* config.Load and KEKFromEnv.
Load(r) ==
    /\ boot[r] = "config"
    /\ IF missing[r] \cap {"DATABASE_URL", "KEYCLOAK_URL", "BS_SIGNING_KEK"} = {}
       THEN /\ BootTo(r, "migrate")
            /\ mig' = [mig EXCEPT ![r].pc = "acquire"]
            /\ UNCHANGED <<missing, since, fault>>
       ELSE Exits(r) /\ fault' = TRUE /\ UNCHANGED mig
    /\ UNCHANGED <<database, keycloakVars, activeKey, lost>>

MigrateStep(r) ==
    /\ Apply(r)
    /\ UNCHANGED <<keycloakVars, own>>

MigrateFault(r) ==
    /\ AcquireFails(r) \/ ApplyFails(r)
    /\ fault' = TRUE
    /\ UNCHANGED <<keycloakVars, boot, missing, activeKey, since, lost>>

\* Mutant: a failed Apply is tried again, for as long as it fails.
MigratedRetries(r) ==
    /\ mig[r].pc = "returned"
    /\ mig' = [mig EXCEPT ![r] = IF @.err THEN [NotApplying EXCEPT !.pc = "acquire"] ELSE NotApplying]
    /\ IF mig[r].err THEN UNCHANGED boot ELSE BootTo(r, "keys")
    /\ UNCHANGED <<database, keycloakVars, missing, activeKey, since, fault, lost>>

Migrated(r) ==
    /\ mig[r].pc = "returned"
    /\ mig' = [mig EXCEPT ![r] = NotApplying]
    /\ IF mig[r].err THEN Exits(r) ELSE BootTo(r, "keys") /\ UNCHANGED <<missing, since>>
    /\ UNCHANGED <<database, keycloakVars, activeKey, fault, lost>>

\* A replica that fails may have minted the key before its refresh failed.
EnsureActive(r) ==
    /\ boot[r] = "keys"
    /\ \/ activeKey' = TRUE /\ BootTo(r, "secret") /\ UNCHANGED <<missing, since, fault>>
       \/ activeKey' \in {activeKey, TRUE} /\ Exits(r) /\ fault' = TRUE
    /\ UNCHANGED <<migrateVars, keycloakVars, lost>>

Secret(r) ==
    /\ boot[r] = "secret"
    /\ IF "BS_SERVICE_CLIENT_SECRET" \notin missing[r]
       THEN /\ BootTo(r, "provision")
            /\ prov' = [prov EXCEPT ![r].pc = "login"]
            /\ UNCHANGED <<missing, since, fault>>
       ELSE Exits(r) /\ fault' = TRUE /\ UNCHANGED prov
    /\ UNCHANGED <<migrateVars, realm, clients, activeKey, lost>>

ProvisionStep(r) ==
    /\ EnsureProvisioned(r)
    /\ UNCHANGED <<migrateVars, own>>

LosesRace(r) ==
    /\ Conflict(r)
    /\ lost' = TRUE
    /\ UNCHANGED <<migrateVars, boot, missing, activeKey, since, fault>>

ProvisionFault(r) ==
    /\ GetRealmFails(r) \/ CallFails(r)
    /\ fault' = TRUE
    /\ UNCHANGED <<migrateVars, boot, missing, activeKey, since, lost>>

Provisioned(r) ==
    /\ prov[r].pc = "returned"
    /\ prov' = [prov EXCEPT ![r] = NotProvisioning]
    /\ IF prov[r].err THEN Exits(r) ELSE BootTo(r, "issuer") /\ UNCHANGED <<missing, since>>
    /\ UNCHANGED <<migrateVars, realm, clients, activeKey, fault, lost>>

\* The issuer, the pepper, and ListenAndServe.
Serve(r) ==
    /\ boot[r] = "issuer"
    /\ \/ /\ missing[r] \cap {"BS_PUBLIC_ISSUER", "BS_APIKEY_PEPPER"} = {}
          /\ BootTo(r, "serving")
          /\ UNCHANGED <<missing, since, fault>>
       \/ Exits(r) /\ fault' = TRUE
    /\ UNCHANGED <<migrateVars, keycloakVars, activeKey, lost>>

\* Killed at any moment; a replica that serves may also be stopped.
Crash(r) ==
    /\ boot[r] # "down"
    /\ Killed(r)
    /\ Unseen(r)
    /\ prov' = [prov EXCEPT ![r] = NotProvisioning]
    /\ Exits(r)
    /\ fault' = TRUE
    /\ UNCHANGED <<activeKey, lost>>

Reaped == SessionEnds /\ UNCHANGED <<keycloakVars, own>>

HasUpserted(r, i) == boot[r] \in {"issuer", "serving"} \/ prov[r].pc = "returned" \/ prov[r].i > i

Edited(i) ==
    /\ Drift(i)
    /\ since' = [r \in Replica |-> since[r] \cup {j \in {i} : HasUpserted(r, j)}]
    /\ UNCHANGED <<migrateVars, boot, missing, activeKey, fault, lost>>

Runs(r) ==
    \/ Load(r) \/ MigrateStep(r) \/ Migrated(r) \/ EnsureActive(r) \/ Secret(r)
    \/ ProvisionStep(r) \/ LosesRace(r) \/ Provisioned(r) \/ Serve(r)

Next ==
    \/ \E r \in Replica : Start(r) \/ Runs(r) \/ MigrateFault(r) \/ ProvisionFault(r) \/ Crash(r)
    \/ \E i \in 1..Len(Client) : Edited(i)
    \/ Reaped

Spec == Init /\ [][Next]_vars

\* A replica keeps running, Postgres queues the sessions that wait for a lock and
\* ends those whose client is gone.
Fairness ==
    /\ \A r \in Replica : WF_vars(Runs(r)) /\ SF_vars(Lock(r) /\ UNCHANGED <<keycloakVars, own>>)
    /\ WF_vars(Reaped)

FairSpec == Spec /\ Fairness
----------------------------------------------------------------------------
(***************************************************************************)
(* A replica that serves has all it needs: its settings, the migrations of *)
(* its release, a signing key, the realm and both clients; a client that   *)
(* is not as the replica wants it was edited after the replica had         *)
(* upserted it, however many other replicas provision and fail meanwhile   *)
(* (runServer's order of steps and its fail-closed comments, the "drift"   *)
(* comment of upsertClient). The one setting it may lack is the root       *)
(* token: without it the service starts, with no root access.              *)
(***************************************************************************)
ServesOnBaseline ==
    \A r \in Replica : boot[r] = "serving" =>
        /\ missing[r] \subseteq {"BS_ROOT_TOKEN"}
        /\ 1..Embedded[r] \subseteq ledger
        /\ activeKey
        /\ realm
        /\ \A i \in 1..Len(Client) : clients[i] = "want" \/ (clients[i] = "other" /\ i \in since[r])

(***************************************************************************)
(* Replicas that start together against an empty Keycloak may lose a race  *)
(* to create the realm or a client, and exit; but unless something else    *)
(* fails too, they never all do (upsertClient, ensureRealm).               *)
(***************************************************************************)
SomeoneWins == lost /\ ~fault => \E r \in Replica : boot[r] # "down" /\ ~prov[r].err

(***************************************************************************)
(* Every start ends: the replica serves or is down again, whoever holds    *)
(* the advisory lock and whatever became of that session.                  *)
(***************************************************************************)
StartsEnd == \A r \in Replica : boot[r] # "down" ~> boot[r] \in {"down", "serving"}
=============================================================================
