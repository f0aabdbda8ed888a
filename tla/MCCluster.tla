------------------------------- MODULE MCCluster -------------------------------
(***************************************************************************)
(* A small instance of Cluster: two processes of successive releases.      *)
(***************************************************************************)
EXTENDS Cluster, TLC

CONSTANTS a, b

\* a is a release behind b.
TwoReleases == (a :> 1) @@ (b :> 2)

=============================================================================
