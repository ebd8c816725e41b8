------------------------------- MODULE MCOmpRt -------------------------------
(* Bounded instance of OmpRt.                                                *)
EXTENDS OmpRt

Single(nw) == [kind |-> "single", nowait |-> nw]
Dynamic(u, ch, nw) == [kind |-> "dynamic", lower |-> 0, upper |-> u, chunk |-> ch,
                       nowait |-> nw]
Static(u, ch, nw) == [kind |-> "static", lower |-> 0, upper |-> u, incr |-> 1,
                      chunk |-> ch, sched |-> IF ch = 0 THEN 34 ELSE 33, nowait |-> nw]

\* Two singles without a barrier let a thread run ahead by two epochs; static
\* loops are shorter than, as long as and longer than the team.
MCBodies ==
  {<<Single(TRUE), Single(TRUE), Dynamic(2, 2, FALSE)>>,
   <<Static(0, 0, TRUE), Static(4, 0, FALSE), Static(6, 2, TRUE)>>,
   <<Dynamic(1, 1, FALSE), Static(1, 1, TRUE), Single(FALSE)>>}

\* One loop is enough for a thread that comes late.
LateBodies == {<<Dynamic(1, 1, FALSE)>>}
=============================================================================
