----------------------------- MODULE MCCluster -----------------------------
(***************************************************************************)
(* A cluster of three servers that may be restarted, and one client.       *)
(***************************************************************************)
EXTENDS Cluster

=============================================================================
