---------------------------- MODULE MCRabStripe ----------------------------
(* Instance of RabStripe for TLC. *)
EXTENDS RabStripe

\* Stripes of sz bytes, the last one a byte shorter, each starting ov bytes
\* before the end of the one before; gaps are the pages whose frame does not
\* follow the frame of the page before.
Buf(a, sz, ov, n, gaps) ==
    [lo |-> [j \in 0 .. n - 1 |-> a + j * (sz - ov)],
     hi |-> [j \in 0 .. n - 1 |-> a + j * (sz - ov) + (IF j = n - 1 /\ sz > 1 THEN sz - 1 ELSE sz)],
     frame |-> [i \in 0 .. 9 |-> i + 20 * Cardinality({g \in gaps : g <= i})]]

SmallBuffers == {Buf(a, so[1], so[2], n, g) :
    a \in 0 .. 1, so \in {<<2, 0>>, <<3, 0>>, <<3, 1>>, <<4, 1>>},
    n \in 1 .. 5, g \in {{}, {1}, {1, 2}, {1, 3, 4}}}

OneId == {0}
=============================================================================
