--------------------------- MODULE MCClusterCtrl ---------------------------
(* Instance of ClusterCtrl for TLC. *)
EXTENDS ClusterCtrl
=============================================================================
