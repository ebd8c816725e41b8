------------------------------- MODULE MCTeam -------------------------------
(* Bounded instance of Team: five cores and the four descriptors of the      *)
(* hardware.                                                                 *)
EXTENDS Team
=============================================================================
