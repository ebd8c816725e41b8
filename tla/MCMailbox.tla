----------------------------- MODULE MCMailbox -----------------------------
(* Instance of Mailbox for TLC. *)
EXTENDS Mailbox
=============================================================================
