----------------------------- MODULE MCWorkShare -----------------------------
(* Bounded instance of WorkShare: three threads, a pool of one descriptor,   *)
(* regions of up to three constructs.                                        *)
EXTENDS WorkShare

CONSTANTS t1, t2, t3

MCThreads == {t1, t2, t3}
Loop(s, e, i, c, nw) == [kind |-> "loop", start |-> s, end |-> e, incr |-> i,
                         chunk |-> c, nowait |-> nw]
Sections(n, nw) == [kind |-> "sections", count |-> n, nowait |-> nw]
Single(nw) == [kind |-> "single", nowait |-> nw]

\* Three constructs without barriers let a thread run two descriptors ahead of
\* another; chunks that do not divide the loop, loops that count down and
\* loops without iterations are among them.
MCPrograms ==
  {[combined |-> FALSE, body |-> <<Loop(0, 3, 2, 2, TRUE), Single(TRUE), Loop(1, 0, 1, 1, TRUE)>>],
   [combined |-> TRUE,  body |-> <<Sections(1, TRUE), Loop(3, 0, -1, 2, FALSE)>>]}
=============================================================================
