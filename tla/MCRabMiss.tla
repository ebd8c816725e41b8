----------------------------- MODULE MCRabMiss -----------------------------
(* Instance of RabMiss for TLC. *)
EXTENDS RabMiss

FirstSlice == {0}
=============================================================================
