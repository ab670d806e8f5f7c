----------------------------- MODULE MCStartup -----------------------------
(***************************************************************************)
(* Two replicas of different releases, started with every setting or       *)
(* without one of them.                                                    *)
(***************************************************************************)
EXTENDS Startup

CONSTANTS old, new

MCReplica == {old, new}
TwoReleases == [r \in MCReplica |-> IF r = old THEN 1 ELSE 2]
OneMissing == [r \in MCReplica |-> {{}} \cup IF r = old THEN {} ELSE
                 {{s} : s \in {"KEYCLOAK_URL", "BS_SERVICE_CLIENT_SECRET", "BS_PUBLIC_ISSUER",
                              "BS_ROOT_TOKEN"}}]
=============================================================================
