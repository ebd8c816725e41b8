------------------------------- MODULE MCVmm -------------------------------
(* Bounded instance of Vmm: three pages compete for the two entries of one   *)
(* set; page 8 has no translation.                                           *)
EXTENDS Vmm
=============================================================================
