----------------------------- MODULE RabStripe -----------------------------
(***************************************************************************)
(* Striped elements of the RAB.  The stripes of an element are mapped one  *)
(* after the other into sets of slices that were allocated with the        *)
(* request: two sets for double buffering, four if the data also goes      *)
(* back.  The accelerator asks for the next stripe with RAB_UPDATE and for *)
(* the other mapping with RAB_SWITCH; the mailbox interrupt handler serves *)
(* both.  Each mapping holds at most one element here, and an update works *)
(* on one slice per step, as the accelerator goes on with other stripes    *)
(* meanwhile.                                                              *)
(***************************************************************************)
EXTENDS StripeTable, Sequences

CONSTANTS
    Buffers,     \* the buffers that are striped
    Ids,         \* the mapping that striped requests name; libpulp names 0 only
    MaxSlices,   \* bound: slices of a set
    Rewinds      \* may the accelerator switch to a mapping whose next stripe
                 \* does not go into the second set of slices?

Mappings == {0, 1}
Sets     == 0 .. 3
None     == -1

VARIABLES
    elem,    \* rab_stripe_req[m].elements[0], or NoElem
    idx,     \* its stripe_idx
    off,     \* its set_offset
    active,  \* l1.port_1.mapping_active
    hw,      \* stripe that slice k of set s of the active mapping translates to
    at,      \* next slice of the update in progress, or None
    recent   \* history: stripes of the active mapping since it was activated,
             \* latest first, as many as there are sets

stripeVars == <<elem, idx, off, active, hw, at, recent>>

ElemTypes == {"in", "out", "inout"}
NoElem == [type |-> "none"]
Elem(t, b) == [type |-> t, buf |-> b, per |-> SlicesPerStripe(b),
               n |-> Cardinality(Stripes(b)),
               ns |-> [j \in Stripes(b) |-> NSlices(b, j)]]

\* Number of sets of slices.
NSets(e) == IF e.type = "inout" THEN 4 ELSE 2

Slots == 0 .. MaxSlices - 1

ASSUME StripeAssumption ==
    /\ \E m \in Mappings : Ids = {m}
    /\ MaxSlices \in Nat \ {0} /\ Rewinds \in BOOLEAN
    /\ \A b \in Buffers : IsBuffer(b) /\ SlicesPerStripe(b) \in 1 .. MaxSlices

\* The slices of a set once stripe j is mapped.
Mapped(e, j) == [k \in Slots |-> IF k < e.ns[j] THEN j ELSE None]
Empty == [k \in Slots |-> None]

\* The active mapping has stripe 0 in its first set, the others are reserved.
FirstStripe(e) == [s \in Sets |-> IF e # NoElem /\ s = 0 THEN Mapped(e, 0) ELSE Empty]
FirstRecent(e) == IF e = NoElem THEN <<>> ELSE <<0>>

StripeInit ==
    /\ elem = [m \in Mappings |-> NoElem]
    /\ idx = [m \in Mappings |-> 0] /\ off = [m \in Mappings |-> 0]
    /\ active = 0 /\ hw = [s \in Sets |-> Empty] /\ at = None /\ recent = <<>>
----------------------------------------------------------------------------
\* RAB_REQ_STRIPED.  As all requests name one mapping there is no element whose
\* hardware slices a request for the other mapping could disturb.
RequestStriped(m, t, b) ==
    /\ at = None /\ elem[m] = NoElem
    /\ elem' = [elem EXCEPT ![m] = Elem(t, b)]
    /\ idx' = [idx EXCEPT ![m] = 1] /\ off' = [off EXCEPT ![m] = 0]
    /\ IF m = active
       THEN hw' = FirstStripe(Elem(t, b)) /\ recent' = <<0>>
       ELSE UNCHANGED <<hw, recent>>
    /\ UNCHANGED <<active, at>>

\* RAB_FREE_STRIPED, when the accelerator has finished
FreeStriped(m) ==
    /\ at = None /\ elem[m] # NoElem
    /\ elem' = [elem EXCEPT ![m] = NoElem]
    /\ IF m = active
       THEN hw' = [s \in Sets |-> Empty] /\ recent' = <<>>
       ELSE UNCHANGED <<hw, recent>>
    /\ UNCHANGED <<idx, off, active, at>>
----------------------------------------------------------------------------
(***************************************************************************)
(* pulp_rab_update for the element of the active mapping.                  *)
(***************************************************************************)
SetSel == (idx[active] + off[active]) % NSets(elem[active])

\* The accelerator asks for another stripe if there is more than one.
UpdateStart ==
    /\ at = None /\ elem[active] # NoElem /\ elem[active].n > 1
    /\ at' = 0
    /\ UNCHANGED <<elem, idx, off, active, hw, recent>>

\* Mutant: only the slices that the new stripe needs are written.
UpdateSliceUsed ==
    /\ at # None /\ at < elem[active].per
    /\ hw' = (IF at < elem[active].ns[idx[active]]
              THEN [hw EXCEPT ![SetSel][at] = idx[active]] ELSE hw)
    /\ at' = at + 1
    /\ UNCHANGED <<elem, idx, off, active, recent>>

UpdateSlice ==
    /\ at # None /\ at < elem[active].per
    /\ hw' = [hw EXCEPT ![SetSel][at] = Mapped(elem[active], idx[active])[at]]
    /\ at' = at + 1
    /\ UNCHANGED <<elem, idx, off, active, recent>>

\* Mutant: the sets are not shifted on wrap around.
WrapOffsetSame(e, o) == o

\* set_offset when the stripes start over
WrapOffset(e, o) == IF e.type = "inout" THEN (o + (e.n % 4)) % 4
                    ELSE IF (e.n % 2) = 1 THEN 1 - o ELSE o

Latest(q, w) == IF Len(q) > w THEN SubSeq(q, 1, w) ELSE q

UpdateDone ==
    /\ at # None /\ at = elem[active].per
    /\ LET e == elem[active]
           wraps == idx[active] + 1 = e.n
       IN /\ idx' = [idx EXCEPT ![active] = IF wraps THEN 0 ELSE @ + 1]
          /\ off' = [off EXCEPT ![active] = IF wraps THEN WrapOffset(e, @) ELSE @]
          /\ recent' = Latest(<<idx[active]>> \o recent, NSets(e))
    /\ at' = None
    /\ UNCHANGED <<elem, active, hw>>

(***************************************************************************)
(* pulp_rab_switch: stripe_idx starts over, set_offset does not.           *)
(***************************************************************************)
StartsAt(e) == IF e.type = "out" THEN 0 ELSE 1

Switch ==
    /\ at = None
    /\ LET to == 1 - active
       IN /\ \/ Rewinds
             \/ elem[to] = NoElem
             \/ off[to] = 0 /\ elem[to].type # "out"
          /\ active' = to
          /\ idx' = [idx EXCEPT ![to] = IF elem[to] = NoElem THEN @ ELSE StartsAt(elem[to])]
          /\ hw' = FirstStripe(elem[to]) /\ recent' = FirstRecent(elem[to])
    /\ UNCHANGED <<elem, off, at>>

StripeNext ==
    \/ \E m \in Ids, t \in ElemTypes, b \in Buffers : RequestStriped(m, t, b)
    \/ \E m \in Mappings : FreeStriped(m)
    \/ UpdateStart \/ UpdateSlice \/ UpdateDone
    \/ Switch

StripeSpec == StripeInit /\ [][StripeNext]_stripeVars
----------------------------------------------------------------------------
(***************************************************************************)
(* Types; a stripe index stays inside the striping table.                  *)
(***************************************************************************)
StripeTypeOK ==
    /\ active \in Mappings
    /\ at \in (0 .. MaxSlices) \cup {None}
    /\ hw \in [Sets -> [Slots -> Nat \cup {None}]]
    /\ recent \in Seq(Nat)
    /\ idx \in [Mappings -> Nat] /\ off \in [Mappings -> Sets]
    /\ \A m \in Mappings : elem[m] # NoElem =>
          /\ elem[m].type \in ElemTypes /\ elem[m].buf \in Buffers
          /\ elem[m].n > 1 => idx[m] < elem[m].n
          /\ off[m] < NSets(elem[m])

(***************************************************************************)
(* While an update is under way the stripes the accelerator may be working *)
(* on, the latest ones but one per set, are completely mapped.             *)
(***************************************************************************)
WindowMapped ==
    elem[active] # NoElem =>
        \A d \in DOMAIN recent : d < NSets(elem[active]) =>
            \E s \in Sets : hw[s] = Mapped(elem[active], recent[d])

(***************************************************************************)
(* The accelerator reaches no stripe but the ones of its window and the    *)
(* one an update is mapping: slices a shorter stripe leaves are disabled.  *)
(***************************************************************************)
OnlyWindow ==
    \A s \in Sets, k \in Slots : hw[s][k] # None =>
        \/ \E d \in DOMAIN recent : hw[s][k] = recent[d]
        \/ at # None /\ hw[s][k] = idx[active]

ElemBufs == {elem[m].buf : m \in {m \in Mappings : elem[m] # NoElem}}

(***************************************************************************)
(* The striping table of pulp_rab_req_striped: the slices of a stripe      *)
(* cover exactly the stripe, and are never more than were reserved.        *)
(***************************************************************************)
TableCovers == \A b \in ElemBufs : Covers(b)
SlicesSuffice == \A b \in ElemBufs : Suffices(b)

(***************************************************************************)
(* Every slice of the table translates to the right frames, if the buffer  *)
(* starts on a page border.                                                *)
(***************************************************************************)
AlignedTranslates ==
    \A b \in ElemBufs : InPage(Start(b)) = 0 =>
        \A j \in Stripes(b) : \A k \in 0 .. NSlices(b, j) - 1 : TranslatesSlice(b, j, k)
=============================================================================
