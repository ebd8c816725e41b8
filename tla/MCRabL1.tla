------------------------------ MODULE MCRabL1 ------------------------------
(* Instance of RabL1 for TLC. *)
EXTENDS RabL1

\* The stack slot of flags_drv happens to be clear.
NoStray == {{}}

\* Mappings that are valid now and that the date of a release reaches.
ValidDates == {d \in Dates \X Dates : 0 < d[1] /\ d[1] <= d[2] /\ d[2] < MaxDate - 1}

\* Two requests with two switches, and three without a switch.
Explored == nreq < 3 \/ nswitch = 0
=============================================================================
