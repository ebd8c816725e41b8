---------------------------- MODULE MCLibMailbox ----------------------------
(* Instance of LibMailbox for TLC. *)
EXTENDS LibMailbox
=============================================================================
