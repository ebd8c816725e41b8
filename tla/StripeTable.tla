---------------------------- MODULE StripeTable ----------------------------
(***************************************************************************)
(* How the driver cuts a user buffer into the slices of a striped element: *)
(* pulp_mem_map_sg splits the buffer into segments of physically           *)
(* contiguous pages, and pulp_rab_req_striped intersects every stripe with *)
(* them.  A buffer is                                                      *)
(*   lo, hi : start and end address of every stripe, ascending, relative   *)
(*            to the first page                                            *)
(*   frame  : the physical frame of every page                             *)
(* Pages, segments, stripes and slices are numbered from 0, as in the code.*)
(***************************************************************************)
EXTENDS Integers, FiniteSets

CONSTANT P      \* PAGE_SIZE

ASSUME PageAssumption == P \in Nat \ {0}

Page(a)    == a \div P
InPage(a)  == a % P
Stripes(b) == DOMAIN b.lo
Start(b)   == b.lo[0]
End(b)     == b.hi[Cardinality(Stripes(b)) - 1]
----------------------------------------------------------------------------
(***************************************************************************)
(* pulp_mem_map_sg                                                         *)
(***************************************************************************)
NPages(b)  == (InPage(Start(b)) + (End(b) - Start(b)) + P - 1) \div P
Breaks(b)  == {0} \cup {i \in 1 .. NPages(b) - 1 : b.frame[i] # b.frame[i - 1] + 1}
NSegs(b)   == Cardinality(Breaks(b))
SegPage(b, s) == CHOOSE i \in Breaks(b) : Cardinality({j \in Breaks(b) : j < i}) = s

SegLo(b, s) == IF s = 0 THEN Start(b) ELSE P * SegPage(b, s)
SegHi(b, s) == IF s = NSegs(b) - 1 THEN End(b) ELSE P * SegPage(b, s + 1)
SegOffset(b, s) == P * b.frame[SegPage(b, s)] + (IF s = 0 THEN InPage(Start(b)) ELSE 0)

\* The buffers of a request: stripes ascend, and every page has a frame.
IsBuffer(b) ==
    LET n == Cardinality(Stripes(b))
    IN  /\ n \in Nat \ {0} /\ Stripes(b) = 0 .. n - 1
        /\ b.lo \in [0 .. n - 1 -> Nat] /\ b.hi \in [0 .. n - 1 -> Nat]
        /\ Start(b) < P
        /\ \A j \in 0 .. n - 1 : b.lo[j] < b.hi[j]
        /\ \A i, j \in 0 .. n - 1 : i <= j => b.lo[i] <= b.lo[j] /\ b.hi[i] <= b.hi[j]
        /\ \A i \in 0 .. NPages(b) - 1 : b.frame[i] \in Nat
----------------------------------------------------------------------------
(***************************************************************************)
(* The striping table.  The two segment indices are carried from stripe to *)
(* stripe and only ever advance.                                           *)
(***************************************************************************)
FirstSeg(b, j) == Cardinality({s \in 1 .. NSegs(b) - 1 :
                      \E i \in 0 .. j : b.lo[i] >= SegLo(b, s)})

\* Mutant: a stripe that ends with a segment is taken to touch the next one.
LastSegTouching(b, j) == Cardinality({s \in 0 .. NSegs(b) - 2 :
                             \E i \in 0 .. j : b.hi[i] >= SegHi(b, s)})

LastSeg(b, j)  == Cardinality({s \in 0 .. NSegs(b) - 1 :
                      \E i \in 0 .. j : b.hi[i] > SegHi(b, s)})

NSlices(b, j) == LastSeg(b, j) - FirstSeg(b, j) + 1

\* slice_configs[k] of stripe j
SliceLo(b, j, k) == IF k = 0 THEN b.lo[j] ELSE SegLo(b, FirstSeg(b, j) + k)
SliceHi(b, j, k) == IF k = NSlices(b, j) - 1 THEN b.hi[j] ELSE SegHi(b, FirstSeg(b, j) + k)

\* Mutant: every stripe is taken to start on the first page of its segment.
SliceOffsetFirstPage(b, j, k) ==
    LET s == FirstSeg(b, j)
    IN  IF k = 0
        THEN SegOffset(b, s) + (IF j = 0 THEN 0 ELSE InPage(b.lo[j]))
        ELSE SegOffset(b, s + k)

SliceOffset(b, j, k) ==
    LET s == FirstSeg(b, j)
    IN  IF k = 0
        THEN SegOffset(b, s) + P * (Page(b.lo[j]) - Page(SegLo(b, s)))
                + (IF j = 0 THEN 0 ELSE InPage(b.lo[j]))
        ELSE SegOffset(b, s + k)

MaxStripe(b) == CHOOSE n \in {b.hi[j] - b.lo[j] : j \in Stripes(b)} :
                    \A j \in Stripes(b) : n >= b.hi[j] - b.lo[j]

\* Mutant: no slice for the page more that an unaligned stripe touches.
SlicesPerStripeAligned(b) == (MaxStripe(b) + P - 1) \div P

\* n_slices_per_stripe: the remainder, and one more as stripes are not aligned
SlicesPerStripe(b) == (MaxStripe(b) + P - 1) \div P + 1
----------------------------------------------------------------------------
(***************************************************************************)
(* The slices of a stripe follow each other without gap or overlap, from   *)
(* its start to its end.                                                   *)
(***************************************************************************)
Covers(b) ==
    \A j \in Stripes(b) :
        /\ SliceLo(b, j, 0) = b.lo[j] /\ SliceHi(b, j, NSlices(b, j) - 1) = b.hi[j]
        /\ \A k \in 0 .. NSlices(b, j) - 1 : SliceLo(b, j, k) < SliceHi(b, j, k)
        /\ \A k \in 1 .. NSlices(b, j) - 1 : SliceHi(b, j, k - 1) = SliceLo(b, j, k)

\* A stripe touches no more segments than slices are reserved for it.
Suffices(b) == \A j \in Stripes(b) : NSlices(b, j) \in 1 .. SlicesPerStripe(b)

(***************************************************************************)
(* Every slice translates to the frames of its pages.  The hardware takes  *)
(* page numbers, the low bits of the offset are dropped.                   *)
(***************************************************************************)
TranslatesSlice(b, j, k) ==
    \A i \in Page(SliceLo(b, j, k)) .. Page(SliceHi(b, j, k) - 1) :
        Page(SliceOffset(b, j, k)) + (i - Page(SliceLo(b, j, k))) = b.frame[i]
=============================================================================
