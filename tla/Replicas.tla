------------------------------ MODULE Replicas ------------------------------
(***************************************************************************)
(* The processes of one deployment that run base-servers side by side,     *)
(* against one Postgres and one Keycloak.                                  *)
(***************************************************************************)
CONSTANT Replica
=============================================================================
