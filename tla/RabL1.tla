------------------------------- MODULE RabL1 -------------------------------
(***************************************************************************)
(* Level 1 of the RAB: the slices of port 1, through which the accelerator *)
(* reaches host memory, as pulp_rab.c manages them.  There are two         *)
(* mappings, of which one is active in hardware.  A slice refers to the    *)
(* array of pinned user pages it maps by an index into page_ptrs, whose    *)
(* references are counted per mapping.  One host thread issues the ioctls, *)
(* each a sequence of steps; on request of the accelerator the mailbox     *)
(* interrupt, which takes no lock and may run on another CPU, switches the *)
(* active mapping at any of them.  It reads the slices, and reads and      *)
(* writes mapping_active and the hardware; every access of an ioctl to     *)
(* these is a step of its own, as is the unpinning of pages.  What only    *)
(* the ioctls use (page_ptrs, the counters) changes along with a step.     *)
(*                                                                         *)
(* Every segment of a user buffer is one page here, and a page array is    *)
(* named by the number of the request that pinned it.                      *)
(***************************************************************************)
EXTENDS Integers, FiniteSets

CONSTANTS
    NSlices,     \* RAB_L1_N_SLICES_PORT_1
    MaxDate,     \* RAB_MAX_DATE
    NConst,      \* constant mappings the driver sets up for itself
    NStriped,    \* slices a striped element asks for
    MaxSeg,      \* bound: segments of a buffer
    MaxReqs,     \* bound: requests
    MaxSwitches, \* bound: RAB_SWITCH requests of the accelerator
    StrayFlags,  \* what flags_drv may hold, which RAB_REQ does not initialise
    Dating,      \* pairs of current and expiry date that callers use
    Unaligned    \* may it have several segments while the mappings use
                 \* different fields of page_ptrs, as after a striped request?

Mappings == {0, 1}
Slices   == 0 .. NSlices - 1
Dates    == 0 .. MaxDate
Segs     == 0 .. MaxSeg - 1
Arrays   == 1 .. MaxReqs
DrvFlags == {"const", "striped", "every", "fixed"}

NoPages == 0        \* a null page_ptrs entry
NoArray == -1       \* no configuration
DrvMem  == 0        \* what a constant mapping of the driver reaches, e.g. L3

ASSUME RabAssumption ==
    /\ NSlices \in Nat \ {0} /\ NConst \in Nat /\ MaxDate \in Nat /\ MaxDate > 2
    /\ NStriped \in Nat \ {0} /\ MaxSeg \in Nat \ {0} /\ MaxReqs \in Nat
    /\ MaxSwitches \in Nat
    /\ StrayFlags \subseteq SUBSET DrvFlags
    /\ Dating \subseteq Dates \X Dates
    /\ Unaligned \in BOOLEAN

VARIABLES
    sl,             \* l1.port_1.mappings[m].slices[s]
    ptr,            \* l1.port_1.mappings[m].page_ptrs[f]
    ref,            \* l1.port_1.mappings[m].page_ptr_ref_cntrs[f]
    mapping_active, \* l1.port_1.mapping_active
    stripe,         \* slice_idxs of the element of rab_stripe_req[m], an ascending list
    hw,             \* what the slices of the hardware translate to
    switching,      \* a switch has written the hardware, but not yet mapping_active
    op,             \* the slice_free or slice_setup in progress
    pin,            \* pins of each page of each array
    live,           \* page arrays that are allocated
    pc, rq,         \* the ioctl in progress and its request
    nreq,           \* requests made
    nswitch,        \* switches made
    released,       \* history: no request since the last pulp_rab_release
    lost,           \* history: arrays of requests that failed, or that lost a slice
                    \* to a later request after they had expired
    torn            \* history: hardware slices that a switch and a slice_free or
                    \* slice_setup were at together, and that neither has put in
                    \* order since

l1Vars  == <<sl, ptr, ref>>
memVars == <<pin, live>>
portVars  == <<hw, mapping_active, switching, op, torn>>
rabVars == <<l1Vars, stripe, portVars, memVars, pc, rq, nreq, nswitch, released, lost>>

\* A translation: the array and the pages it reaches, and RAB_FLAGS_HW_EN.
Cfg(a, pg, en) == [arr |-> a, pages |-> pg, en |-> en]
NoCfg == Cfg(NoArray, {}, FALSE)

\* What it is at, its slice, whether a slice_free has yet to write the hardware and to
\* put pages, and the configuration a slice_setup writes.
NoOp == [at |-> "none", m |-> 0, s |-> 0, off |-> FALSE, put |-> FALSE, cfg |-> NoCfg]

\* A cleared slice keeps "fixed"; its page range is 0..0.
Cleared(fixed) == [exp |-> 0, fixed |-> fixed, idx |-> 0, pg |-> {0}, fl |-> {},
                   cfg |-> NoCfg]

Idle == [i |-> 0, j |-> 0, m |-> 0, slice |-> 0, idx |-> 0, arr |-> NoArray,
         nseg |-> 0, exp |-> 0, cur |-> 0, fl |-> {}, got |-> {}, by |-> "none"]

\* pulp_rab_l1_init: the management structures, but for "fixed".
L1Cleared(fixed) == [m \in Mappings |-> [s \in Slices |-> Cleared(fixed[m][s])]]
NoPtrs == [m \in Mappings |-> [f \in Slices |-> NoPages]]
NoRefs == [m \in Mappings |-> [f \in Slices |-> 0]]

RabInit ==
    /\ sl = L1Cleared([m \in Mappings |-> [s \in Slices |-> FALSE]])
    /\ ptr = NoPtrs /\ ref = NoRefs /\ mapping_active = 0
    /\ stripe = [m \in Mappings |-> {}]
    /\ hw = [s \in Slices |-> NoCfg] /\ switching = FALSE /\ op = NoOp /\ torn = {}
    /\ pin = [a \in Arrays |-> [p \in Segs |-> 0]] /\ live = {}
    /\ pc = "setup" /\ rq = Idle
    /\ nreq = 0 /\ nswitch = 0 /\ released = FALSE /\ lost = {}
----------------------------------------------------------------------------
InUse(m, s) == sl[m][s].cfg # NoCfg

\* pulp_rab_slice_check
SliceCheck(m, s, fl, cur) ==
    /\ \/ cur > sl[m][s].exp
       \/ cur = 0 /\ sl[m][s].exp = MaxDate - 2
    /\ sl[m][s].fixed => "fixed" \in fl

IsLeast(x, S) == x \in S /\ \A y \in S : x <= y

FreeFields(m) == {f \in Slices : ref[m][f] = 0}

FreeSlices(m, fl, cur) == {s \in Slices : SliceCheck(m, s, fl, cur)}

(***************************************************************************)
(* pulp_rab_slice_free tests whether the slice is active, disables it in   *)
(* hardware, puts the pages and clears the entry.  The flags are those of  *)
(* the caller, not those the slice was set up with.                        *)
(***************************************************************************)
\* A slice operation of s begins, maybe while a switch is at work.
Overlapped(s) == torn' = IF switching THEN torn \cup {s} ELSE torn

\* It writes what agrees with the active mapping, maybe while no switch is at work.
Settles(s, agrees) == torn' = IF agrees /\ ~switching THEN torn \ {s} ELSE torn

Pages(m, s) == ptr[m][sl[m][s].idx]

\* Which of the three tests makes it write 0 to the flags of the hardware slice.
HwOff(m, s, fl) == IF Pages(m, s) # NoPages \/ "const" \in fl THEN mapping_active = m
                                                              ELSE hw[s] # NoCfg

\* Pages are unlocked neither for an inner slice of a striped element nor for
\* any but the last mapping of a request that is set up in every mapping.
UnlocksNow(fl) == fl \cap {"striped", "every"} = {}

SliceTest(m, s, fl) ==
    /\ op = NoOp
    /\ op' = [NoOp EXCEPT !.at = "free", !.m = m, !.s = s, !.off = HwOff(m, s, fl),
                          !.put = Pages(m, s) # NoPages /\ UnlocksNow(fl)]
    /\ Overlapped(s)

SliceOff ==
    /\ op.at = "free" /\ op.off
    /\ hw' = [hw EXCEPT ![op.s] = NoCfg]
    /\ Settles(op.s, TRUE)
    /\ op' = [op EXCEPT !.off = FALSE]
    /\ UNCHANGED pin

PutPages == pin' = [pin EXCEPT ![Pages(op.m, op.s)] = [p \in Segs |->
                       IF p \in sl[op.m][op.s].pg THEN @[p] - 1 ELSE @[p]]]

\* Mutant: the pages are put while the slice may still be enabled.
SlicePutEarly ==
    /\ op.at = "free" /\ op.put
    /\ PutPages
    /\ op' = [op EXCEPT !.put = FALSE]
    /\ UNCHANGED <<hw, torn>>

SlicePut ==
    /\ op.at = "free" /\ ~op.off /\ op.put
    /\ PutPages
    /\ op' = [op EXCEPT !.put = FALSE]
    /\ UNCHANGED <<hw, torn>>

\* Mutant: the page array is freed with the first mapping.
KfreesNowAny(fl) == TRUE

KfreesNow(fl) == "every" \notin fl

\* The rest of it, and the return to the caller.
SliceFree(m, s, fl) ==
    LET f == sl[m][s].idx
        a == ptr[m][f]
        last == ref[m][f] = 1
    IN  /\ op.at = "free" /\ ~op.off /\ ~op.put
        /\ op' = NoOp
        /\ sl' = [sl EXCEPT ![m][s] = Cleared(@.fixed)]
        /\ \/ /\ a # NoPages
              /\ ref' = [ref EXCEPT ![m][f] = @ - 1]
              /\ ptr' = (IF last THEN [ptr EXCEPT ![m][f] = NoPages] ELSE ptr)
              /\ live' = (IF last /\ KfreesNow(fl) THEN live \ {a} ELSE live)
           \/ /\ a = NoPages /\ "const" \in fl
              /\ ref' = [ref EXCEPT ![m][f] = IF @ > 0 THEN @ - 1 ELSE @]
              /\ UNCHANGED <<ptr, live>>
           \/ /\ a = NoPages /\ "const" \notin fl
              /\ UNCHANGED <<ptr, ref, live>>

(***************************************************************************)
(* pulp_rab_slice_setup occupies the entry, tests whether its mapping is   *)
(* active and writes the registers.  The caller's progress, which no other *)
(* thread sees, is booked with the first of these steps.                   *)
(***************************************************************************)
\* "Selected reference list entry not free": it sees odd counters only.
SetupRefused(m, i, fl) == ref[m][rq.idx] % 2 = 1 /\ i = 0 /\ "striped" \notin fl

\* Mutant: the counter is set rather than incremented.
SliceSetupOneRef(m, s, new, a, refused) ==
    /\ op = NoOp
    /\ sl' = [sl EXCEPT ![m][s] = new]
    /\ Overlapped(s)
    /\ IF refused
       THEN UNCHANGED <<ref, ptr, op>>
       ELSE /\ ref' = [ref EXCEPT ![m][new.idx] = 1]
            /\ ptr' = [ptr EXCEPT ![m][new.idx] = IF "const" \in new.fl THEN NoPages ELSE a]
            /\ op' = [NoOp EXCEPT !.at = "test", !.m = m, !.s = s, !.cfg = new.cfg]

\* When it refuses, it has already occupied the slice.
SliceSetup(m, s, new, a, refused) ==
    /\ op = NoOp
    /\ sl' = [sl EXCEPT ![m][s] = new]
    /\ Overlapped(s)
    /\ IF refused
       THEN UNCHANGED <<ref, ptr, op>>
       ELSE /\ ref' = [ref EXCEPT ![m][new.idx] = @ + 1]
            /\ ptr' = [ptr EXCEPT ![m][new.idx] = IF "const" \in new.fl THEN NoPages ELSE a]
            /\ op' = [NoOp EXCEPT !.at = "test", !.m = m, !.s = s, !.cfg = new.cfg]

SetupTest ==
    /\ op.at = "test"
    /\ op' = IF mapping_active = op.m THEN [op EXCEPT !.at = "write"] ELSE NoOp
    /\ UNCHANGED <<hw, torn>>

SetupWrite ==
    /\ op.at = "write"
    /\ hw' = [hw EXCEPT ![op.s] = IF op.cfg.en THEN op.cfg ELSE NoCfg]
    /\ Settles(op.s, mapping_active = op.m)
    /\ op' = NoOp

\* An ioctl returns; pulp_rab_setup goes on with its next mapping (m counts).
Return == IF rq.by = "setup" THEN pc' = "setup" /\ rq' = [Idle EXCEPT !.m = rq.m]
                             ELSE pc' = "idle" /\ rq' = Idle

Loses(a) == lost' = lost \cup ({a} \cap Arrays)

\* It returns an error and leaves everything as it is.
Fail == Return /\ Loses(rq.arr)
----------------------------------------------------------------------------
(***************************************************************************)
(* RAB_REQ: pins the user pages, then sets up one slice per segment in     *)
(* each mapping.  page_ptr_idx is looked up for the first segment only and *)
(* carried over to the next ones.  Errors return at once.                  *)
(***************************************************************************)
ReqCall(n, exp, cur, stray) ==
    /\ pc = "idle" /\ nreq < MaxReqs
    /\ Unaligned \/ n = 1 \/ FreeFields(0) = FreeFields(1)
    /\ nreq' = nreq + 1 /\ released' = FALSE
    /\ IF "const" \in stray
       THEN UNCHANGED memVars
       ELSE /\ pin' = [pin EXCEPT ![nreq + 1] = [p \in Segs |-> IF p < n THEN 1 ELSE 0]]
            /\ live' = live \cup {nreq + 1}
    /\ rq' = [Idle EXCEPT !.arr = nreq + 1, !.exp = exp, !.cur = cur,
                          !.nseg = IF "const" \in stray THEN 1 ELSE n,
                          !.fl = stray \cup {"every"}]
    /\ pc' = "reqget"
    /\ UNCHANGED <<l1Vars, stripe, portVars, nswitch, lost>>

\* pulp_rab_setup requests its constant mappings in the same way.
SetupCall ==
    /\ pc = "setup" /\ rq.m < NConst
    /\ rq' = [Idle EXCEPT !.m = rq.m + 1, !.arr = DrvMem, !.nseg = 1, !.by = "setup",
                          !.exp = MaxDate, !.cur = MaxDate,
                          !.fl = {"const", "every", "fixed"}]
    /\ pc' = "reqget"
    /\ UNCHANGED <<l1Vars, stripe, portVars, memVars, nreq, nswitch, released, lost>>

SetupDone ==
    /\ pc = "setup" /\ rq.m = NConst
    /\ pc' = "idle" /\ rq' = Idle
    /\ UNCHANGED <<l1Vars, stripe, portVars, memVars, nreq, nswitch, released, lost>>

ReqGet ==
    /\ pc = "reqget"
    /\ LET free == FreeSlices(rq.j, rq.fl, rq.cur)
       IN \/ /\ rq.i > 0 \/ FreeFields(rq.j) # {}
             /\ \E s \in Slices, f \in Slices :
                   /\ IsLeast(s, free)
                   /\ IF rq.i = 0 THEN IsLeast(f, FreeFields(rq.j)) ELSE f = rq.idx
                   /\ rq' = [rq EXCEPT !.slice = s, !.idx = f]
             /\ pc' = "reqfree" /\ UNCHANGED lost
          \/ /\ \/ rq.i = 0 /\ FreeFields(rq.j) = {}
                \/ free = {}
             /\ Fail
    /\ UNCHANGED <<l1Vars, stripe, portVars, memVars, nreq, nswitch, released>>

ReqFree ==
    /\ pc = "reqfree"
    /\ SliceFree(rq.j, rq.slice, rq.fl)
    /\ Loses(sl[rq.j][rq.slice].cfg.arr)
    /\ pc' = "reqsetup"
    /\ UNCHANGED <<hw, mapping_active, switching, torn, pin, stripe, rq, nreq, nswitch, released>>

ReqSetup ==
    /\ pc = "reqsetup"
    /\ LET new == [exp |-> rq.exp, fixed |-> "fixed" \in rq.fl, idx |-> rq.idx,
                   pg |-> {rq.i}, fl |-> rq.fl, cfg |-> Cfg(rq.arr, {rq.i}, TRUE)]
       IN /\ SliceSetup(rq.j, rq.slice, new, rq.arr, SetupRefused(rq.j, rq.i, rq.fl))
          /\ \/ SetupRefused(rq.j, rq.i, rq.fl) /\ Fail
             \/ /\ ~SetupRefused(rq.j, rq.i, rq.fl)
                /\ IF rq.j = 1 /\ rq.i = rq.nseg - 1
                   THEN Return
                   ELSE /\ pc' = "reqget"
                        /\ rq' = (IF rq.j = 0 THEN [rq EXCEPT !.j = 1]
                                              ELSE [rq EXCEPT !.j = 0, !.i = @ + 1])
                /\ UNCHANGED lost
    /\ UNCHANGED <<hw, mapping_active, switching, stripe, memVars, nreq, nswitch, released>>

(***************************************************************************)
(* RAB_REQ_STRIPED: NStriped slices of one mapping share one page array;   *)
(* the first is enabled, the others are held for later stripes.  They are  *)
(* freed by RAB_FREE_STRIPED only.  The caller frees the elements of a     *)
(* mapping before it asks for new ones: the driver does not check, and     *)
(* would forget the old ones.                                              *)
(***************************************************************************)
StripedCall(m, n) ==
    /\ pc = "idle" /\ nreq < MaxReqs
    /\ stripe[m] = {}
    /\ nreq' = nreq + 1 /\ released' = FALSE
    /\ pin' = [pin EXCEPT ![nreq + 1] = [p \in Segs |-> IF p < n THEN 1 ELSE 0]]
    /\ live' = live \cup {nreq + 1}
    /\ \/ FreeFields(m) = {} /\ Return /\ Loses(nreq + 1)
       \/ \E f \in Slices :
             /\ IsLeast(f, FreeFields(m))
             /\ rq' = [Idle EXCEPT !.m = m, !.idx = f, !.arr = nreq + 1, !.nseg = n,
                                   !.exp = MaxDate, !.cur = 1]
             /\ pc' = "strget" /\ UNCHANGED lost
    /\ UNCHANGED <<l1Vars, stripe, portVars, nswitch>>

StripedFlags == IF rq.j > 0 THEN {"striped"} ELSE {}

StripedGet ==
    /\ pc = "strget"
    /\ LET free == FreeSlices(rq.m, StripedFlags, rq.cur)
       IN \/ \E s \in Slices : /\ IsLeast(s, free)
                               /\ rq' = [rq EXCEPT !.slice = s]
                               /\ pc' = "strfree" /\ UNCHANGED lost
          \/ free = {} /\ Fail
    /\ UNCHANGED <<l1Vars, stripe, portVars, memVars, nreq, nswitch, released>>

StripedFree ==
    /\ pc = "strfree"
    /\ SliceFree(rq.m, rq.slice, StripedFlags)
    /\ Loses(sl[rq.m][rq.slice].cfg.arr)
    /\ pc' = "strsetup"
    /\ UNCHANGED <<hw, mapping_active, switching, torn, pin, stripe, rq, nreq, nswitch, released>>

\* slice_idxs collects the slices; the request is recorded at the end.
StripedSetup ==
    /\ pc = "strsetup"
    /\ LET pages == 0 .. rq.nseg - 1
           new == [exp |-> rq.exp, fixed |-> FALSE, idx |-> rq.idx, pg |-> pages,
                   fl |-> StripedFlags, cfg |-> Cfg(rq.arr, pages, rq.j = 0)]
           refused == SetupRefused(rq.m, rq.j, StripedFlags)
       IN /\ SliceSetup(rq.m, rq.slice, new, rq.arr, refused)
          /\ \/ refused /\ Fail /\ UNCHANGED stripe
             \/ /\ ~refused /\ rq.j < NStriped - 1
                /\ rq' = [rq EXCEPT !.j = @ + 1, !.got = @ \cup {rq.slice}]
                /\ pc' = "strget"
                /\ UNCHANGED <<stripe, lost>>
             \/ /\ ~refused /\ rq.j = NStriped - 1
                /\ stripe' = [stripe EXCEPT ![rq.m] = rq.got \cup {rq.slice}]
                /\ Return
                /\ UNCHANGED lost
    /\ UNCHANGED <<hw, mapping_active, switching, memVars, nreq, nswitch, released>>
----------------------------------------------------------------------------
(***************************************************************************)
(* pulp_rab_free: frees what has expired at a date, one slice per step.    *)
(* It is RAB_FREE, or the last part of pulp_rab_release (by = "release"    *)
(* or, with the driver's own slices, "reset").                             *)
(***************************************************************************)
FreeCall(date) ==
    /\ pc = "idle"
    /\ rq' = [Idle EXCEPT !.cur = date, !.by = "free"]
    /\ pc' = "free"
    /\ UNCHANGED <<l1Vars, stripe, portVars, memVars, nreq, nswitch, released, lost>>

\* Mutant: every mapping counts as the last one.
FreeFlagsNoEvery(m, s) ==
    IF rq.by = "reset" THEN (sl[m][s].fl \ {"every"}) \cup {"fixed"}
                       ELSE (sl[m][s].fl \ {"every"}) \ {"fixed"}

\* Mutant: no mapping does (j = n_mappings).
FreeFlagsKeepEvery(m, s) == IF rq.by = "reset" THEN sl[m][s].fl \cup {"fixed"}
                                               ELSE sl[m][s].fl \ {"fixed"}

FreeFlags(m, s) ==
    LET every == IF m = 1 THEN {"every"} ELSE {}
    IN  IF rq.by = "reset" THEN (sl[m][s].fl \ every) \cup {"fixed"}
                           ELSE (sl[m][s].fl \ every) \ {"fixed"}

FreeAdvance ==
    \/ /\ rq.slice < NSlices - 1
       /\ rq' = [rq EXCEPT !.slice = @ + 1] /\ UNCHANGED <<pc, released>>
    \/ /\ rq.slice = NSlices - 1 /\ rq.m = 0
       /\ rq' = [rq EXCEPT !.slice = 0, !.m = 1] /\ UNCHANGED <<pc, released>>
    \/ /\ rq.slice = NSlices - 1 /\ rq.m = 1 /\ rq.by # "reset"
       /\ Return /\ released' = (released \/ rq.by = "release")
    \/ /\ rq.slice = NSlices - 1 /\ rq.m = 1 /\ rq.by = "reset"
       /\ pc' = "reinit" /\ UNCHANGED <<rq, released>>

FreeStep ==
    /\ pc = "free"
    /\ IF SliceCheck(rq.m, rq.slice, FreeFlags(rq.m, rq.slice), rq.cur)
       THEN SliceFree(rq.m, rq.slice, FreeFlags(rq.m, rq.slice))
       ELSE op = NoOp /\ UNCHANGED <<l1Vars, op, live>>
    /\ FreeAdvance
    /\ UNCHANGED <<hw, mapping_active, switching, torn, pin, stripe, nreq, nswitch, lost>>

(***************************************************************************)
(* pulp_rab_free_striped: pages are unlocked with the last slice.          *)
(***************************************************************************)
FreeStripedCall(m) ==
    /\ pc = "idle"
    /\ rq' = [Idle EXCEPT !.m = m, !.by = "free"]
    /\ pc' = "freestr"
    /\ UNCHANGED <<l1Vars, stripe, portVars, memVars, nreq, nswitch, released, lost>>

FreeStripedFlags(s) == IF stripe[rq.m] = {s} THEN {} ELSE {"striped"}

FreeStripedStep(s) ==
    /\ pc = "freestr" /\ IsLeast(s, stripe[rq.m])
    /\ SliceFree(rq.m, s, FreeStripedFlags(s))
    /\ stripe' = [stripe EXCEPT ![rq.m] = @ \ {s}]
    /\ UNCHANGED <<hw, mapping_active, switching, torn, pin, pc, rq, nreq, nswitch, released, lost>>

FreeStripedDone ==
    /\ pc = "freestr" /\ stripe[rq.m] = {}
    /\ \/ rq.by = "free" /\ Return
       \/ /\ rq.by # "free" /\ rq.m = 0
          /\ rq' = [rq EXCEPT !.m = 1] /\ UNCHANGED pc
       \/ /\ rq.by # "free" /\ rq.m = 1
          /\ rq' = [rq EXCEPT !.m = 0, !.cur = MaxDate - 1] /\ pc' = "free"
    /\ UNCHANGED <<l1Vars, stripe, portVars, memVars, nreq, nswitch, released, lost>>

\* pulp_rab_release, from release() and from CTRL_RESET.
ReleaseCall(by) ==
    /\ pc = "idle"
    /\ rq' = [Idle EXCEPT !.by = by]
    /\ pc' = "freestr"
    /\ UNCHANGED <<l1Vars, stripe, portVars, memVars, nreq, nswitch, released, lost>>

\* The rest of CTRL_RESET: the hardware is reset, pulp_rab_init starts over.
Reinit ==
    /\ pc = "reinit"
    /\ sl' = L1Cleared([m \in Mappings |-> [s \in Slices |-> sl[m][s].fixed]])
    /\ ptr' = NoPtrs /\ ref' = NoRefs /\ mapping_active' = 0
    /\ hw' = [s \in Slices |-> NoCfg] /\ torn' = (IF switching THEN Slices ELSE {})
    /\ released' = TRUE
    /\ pc' = "setup" /\ rq' = Idle
    /\ UNCHANGED <<switching, op, stripe, memVars, nreq, nswitch, lost>>
----------------------------------------------------------------------------
(***************************************************************************)
(* The steps of pulp_rab_slice_free that its four callers have in common,  *)
(* up to the last one, and those of pulp_rab_slice_setup.                  *)
(***************************************************************************)
SliceFreeCall ==
    \/ pc = "reqfree" /\ SliceTest(rq.j, rq.slice, rq.fl)
    \/ pc = "strfree" /\ SliceTest(rq.m, rq.slice, StripedFlags)
    \/ /\ pc = "free" /\ SliceCheck(rq.m, rq.slice, FreeFlags(rq.m, rq.slice), rq.cur)
       /\ SliceTest(rq.m, rq.slice, FreeFlags(rq.m, rq.slice))
    \/ \E s \in Slices : /\ pc = "freestr" /\ IsLeast(s, stripe[rq.m])
                         /\ SliceTest(rq.m, s, FreeStripedFlags(s))

SliceStep ==
    /\ \/ SliceFreeCall /\ UNCHANGED <<hw, pin>>
       \/ SliceOff \/ SlicePut
       \/ (SetupTest \/ SetupWrite) /\ UNCHANGED pin
    /\ UNCHANGED <<l1Vars, mapping_active, switching, stripe, live, pc, rq, nreq, nswitch,
                   released, lost>>

(***************************************************************************)
(* pulp_rab_switch, called by the mailbox interrupt handler, or by read(): *)
(* it writes the hardware, then mapping_active.  None starts once a        *)
(* release has turned the mailbox off.                                     *)
(***************************************************************************)
SwitchHw ==
    /\ ~switching /\ nswitch < MaxSwitches /\ rq.by \notin {"release", "reset"}
    /\ LET to == 1 - mapping_active
           writes == {s \in Slices : sl[to][s].cfg.en \/ InUse(mapping_active, s)}
       IN /\ hw' = [s \in Slices |->
                       IF sl[to][s].cfg.en THEN sl[to][s].cfg
                       ELSE IF s \in writes THEN NoCfg ELSE hw[s]]
          /\ torn' = (torn \ writes) \cup {s \in Slices : op # NoOp /\ s = op.s}
    /\ switching' = TRUE /\ nswitch' = nswitch + 1
    /\ UNCHANGED <<l1Vars, mapping_active, op, stripe, memVars, pc, rq, nreq, released, lost>>

SwitchDone ==
    /\ switching /\ switching' = FALSE
    /\ mapping_active' = 1 - mapping_active
    /\ UNCHANGED <<l1Vars, hw, op, torn, stripe, memVars, pc, rq, nreq, nswitch, released, lost>>

Ioctl ==
    \/ \E n \in 1 .. MaxSeg, d \in Dating, stray \in StrayFlags :
          ReqCall(n, d[2], d[1], stray)
    \/ \E m \in Mappings, n \in 1 .. MaxSeg : StripedCall(m, n)
    \/ \E date \in Dates : FreeCall(date)
    \/ \E m \in Mappings : FreeStripedCall(m)
    \/ \E by \in {"release", "reset"} : ReleaseCall(by)

Work == \/ SetupCall \/ SetupDone \/ ReqGet \/ ReqSetup
        \/ StripedGet \/ StripedSetup \/ FreeStripedDone \/ Reinit

\* The steps that begin with the return from pulp_rab_slice_free.
Freed == \/ ReqFree \/ StripedFree \/ FreeStep
         \/ \E s \in Slices : FreeStripedStep(s)

RabNext == \/ op = NoOp /\ (Ioctl \/ Work)
           \/ Freed \/ SliceStep
           \/ SwitchHw \/ SwitchDone

RabSpec == RabInit /\ [][RabNext]_rabVars
----------------------------------------------------------------------------
CfgSet == [arr : Arrays \cup {NoArray, DrvMem}, pages : SUBSET Segs, en : BOOLEAN]

(***************************************************************************)
(* Types; a page is pinned once and unpinned at most once, and a reference *)
(* counter never wraps.                                                    *)
(***************************************************************************)
RabTypeOK ==
    /\ sl \in [Mappings -> [Slices -> [exp : Dates, fixed : BOOLEAN, idx : Slices,
                   pg : SUBSET Segs, fl : SUBSET DrvFlags, cfg : CfgSet]]]
    /\ ptr \in [Mappings -> [Slices -> Arrays \cup {NoPages}]]
    /\ ref \in [Mappings -> [Slices -> 0 .. NSlices]]
    /\ mapping_active \in Mappings
    /\ stripe \in [Mappings -> SUBSET Slices]
    /\ hw \in [Slices -> CfgSet] /\ switching \in BOOLEAN /\ torn \subseteq Slices
    /\ op \in [at : {"none", "free", "test", "write"}, m : Mappings, s : Slices,
              off : BOOLEAN, put : BOOLEAN, cfg : CfgSet]
    /\ pin \in [Arrays -> [Segs -> 0 .. 1]] /\ live \in SUBSET Arrays
    /\ nreq \in 0 .. MaxReqs /\ nswitch \in 0 .. MaxSwitches
    /\ released \in BOOLEAN /\ lost \in SUBSET Arrays

(***************************************************************************)
(* A reference counter of page_ptrs counts the slices of its mapping that  *)
(* refer to the field, so the array is freed with the last of them.        *)
(***************************************************************************)
RefsExact ==
    \A m \in Mappings, f \in Slices :
        ref[m][f] = Cardinality({s \in Slices : InUse(m, s) /\ sl[m][s].idx = f})

(***************************************************************************)
(* The page list a slice will unlock is the one of the memory it maps, and *)
(* has not been freed.                                                     *)
(***************************************************************************)
UnlocksItsOwn ==
    \A m \in Mappings, s \in Slices :
        sl[m][s].cfg.arr \in Arrays =>
            /\ ptr[m][sl[m][s].idx] = sl[m][s].cfg.arr
            /\ sl[m][s].cfg.arr \in live

(***************************************************************************)
(* The accelerator has no access to a user page that is not pinned: a      *)
(* slice is disabled before its pages are put, and a switch enables only   *)
(* what is pinned.  The exception are hardware slices that a switch and an *)
(* ioctl were at together, as no lock keeps the two apart.                 *)
(***************************************************************************)
HwPinned ==
    \A s \in Slices \ torn : hw[s].arr \in Arrays =>
        \A p \in hw[s].pages : pin[hw[s].arr][p] > 0

\* No page of the array is pinned, and but for those torn no hardware slice translates
\* to it.
Gone(a) == /\ a \notin live
           /\ \A p \in Segs : pin[a][p] = 0
           /\ \A s \in Slices \ torn : hw[s].arr # a

(***************************************************************************)
(* After pulp_rab_release the pages of every request that succeeded and    *)
(* kept its slices are unpinned and out of reach, whatever other requests  *)
(* failed or took over slices in between.                                  *)
(***************************************************************************)
ReleaseUnpins ==
    pc = "idle" /\ released => \A a \in Arrays \ lost : Gone(a)
=============================================================================
