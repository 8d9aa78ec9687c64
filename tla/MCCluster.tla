------------------------------ MODULE MCCluster ------------------------------
(* The default image and one other a user passes with --image.             *)
EXTENDS Cluster

MCUserImages == {DefaultImage, "other"}

=============================================================================
