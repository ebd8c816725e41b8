------------------------------ MODULE RabMiss ------------------------------
(***************************************************************************)
(* RAB miss handling by the host.  An access of the accelerator to a page  *)
(* that no slice maps is entered into the miss FIFO of the RAB and raises  *)
(* an interrupt; the core sleeps.  pulp_isr schedules a work item, whose   *)
(* handler, pulp_rab_handle_miss, empties the FIFO, pins and maps the      *)
(* pages and wakes the cores.  Slices are replaced in rounds: rab_mh_date  *)
(* counts the rounds, a slice whose date is older is free to take.         *)
(* Slices are those of the active mapping; levels 0 and 1 are modelled     *)
(* (level 2 skips pulp_rab_slice_get and leaves the slice unset).          *)
(***************************************************************************)
EXTENDS Integers, Sequences, FiniteSets

CONSTANTS
    PEs,         \* cores of the accelerator
    Pages,       \* pages of the user process
    BadPages,    \* pages that get_user_pages cannot get
    N,           \* RAB_L1_N_SLICES_PORT_1
    Kept,        \* slices of constant mappings, which expire at RAB_MAX_DATE
    MaxDateMh,   \* RAB_MAX_DATE_MH
    Depth,       \* RAB_MH_FIFO_DEPTH, also the depth of the hardware FIFO
    Overlap,     \* may the host change the mode while misses are handled?
    Reenables    \* may it enable miss handling while slices are still mapped?

ASSUME MissAssumption ==
    /\ BadPages \subseteq Pages
    /\ N \in Nat \ {0} /\ Kept \subseteq 0 .. N - 2
    /\ MaxDateMh \in Nat \ {0} /\ Depth \in Nat \ {0}
    /\ Overlap \in BOOLEAN /\ Reenables \in BOOLEAN

Slices  == 0 .. N - 1
MaxDate == MaxDateMh + 2
NoPage  == "none"
ASSUME NoPageAssumption == NoPage \notin Pages
ASSUME PEsAssumption == "prefetch" \notin PEs /\ "other" \notin PEs

VARIABLES
    mh,     \* rab_mh, which is 1 exactly in mode MH_HOST_RAB
    lvl,    \* rab_mh_lvl
    date,   \* rab_mh_date
    sl,     \* page and date_exp of every slice
    pins,   \* references to each page that misses have taken
    wait,   \* the page whose miss a core sleeps for, or NoPage
    fifo,   \* the miss FIFO
    irq,    \* the miss interrupt is pending
    sched,  \* the work item is pending
    wpc,    \* where its handler is
    n,      \* its i: misses read in this execution
    seen,   \* rab_mh_addr[0 .. i - 1]
    cur,    \* the miss it works on
    req     \* date and slice of its rab_slice_req
            \* (n, seen, cur and req are reset where the code drops them)

hostVars == <<mh, lvl>>
workVars == <<wpc, n, seen, cur, req>>
missVars == <<mh, lvl, date, sl, pins, wait, fifo, irq, sched, wpc, n, seen, cur, req>>

\* A miss of a core's load or store, of a prefetch (axuser is set) or of another
\* master or port.
Others == {"prefetch", "other"}
Misses == [from : PEs \cup Others, page : Pages]
NoMiss == [from |-> "none", page |-> NoPage]
NoReq  == [date |-> 0, slice |-> 0]

Free(s) == [page |-> NoPage, exp |-> IF s \in Kept THEN MaxDate ELSE 0]
Mapped(p) == \E s \in Slices : sl[s].page = p

\* pulp_rab_slice_check for a request of the miss handler
Expired(d, exp) == d > exp \/ (d = 0 /\ exp = MaxDateMh)

MissInit ==
    /\ mh = FALSE /\ lvl = 0 /\ date = 0
    /\ sl = [s \in Slices |-> Free(s)]
    /\ pins = [p \in Pages |-> 0]
    /\ wait = [c \in PEs |-> NoPage]
    /\ fifo = <<>> /\ irq = FALSE /\ sched = FALSE
    /\ wpc = "idle" /\ n = 0 /\ seen = {} /\ cur = NoMiss
    /\ req = NoReq
----------------------------------------------------------------------------
(***************************************************************************)
(* The accelerator.  It runs while miss handling is enabled.               *)
(***************************************************************************)
Miss(f, p) ==
    /\ Overlap \/ mh
    /\ ~Mapped(p) /\ Len(fifo) < Depth
    /\ fifo' = Append(fifo, [from |-> f, page |-> p])
    /\ irq' = TRUE
    /\ UNCHANGED <<hostVars, date, sl, pins, sched, workVars>>

\* A core that misses sleeps in pulp_tryx_slowpath.
Access(c, p) ==
    /\ wait[c] = NoPage
    /\ wait' = [wait EXCEPT ![c] = p]
    /\ Miss(c, p)

Prefetch(p)  == Miss("prefetch", p) /\ UNCHANGED wait
OtherMiss(p) == Miss("other", p) /\ UNCHANGED wait

\* pulp_isr and pulp_rab_mh_sched
IsrMiss ==
    /\ irq /\ irq' = FALSE
    /\ sched' = (sched \/ mh)
    /\ UNCHANGED <<hostVars, date, sl, pins, wait, fifo, workVars>>
----------------------------------------------------------------------------
(***************************************************************************)
(* pulp_rab_handle_miss.  A work item stops being pending when its         *)
(* execution starts.                                                       *)
(***************************************************************************)
WorkStart ==
    /\ sched /\ wpc = "idle"
    /\ sched' = FALSE
    /\ wpc' = "read"
    /\ UNCHANGED <<hostVars, date, sl, pins, wait, fifo, irq, n, seen, cur, req>>

\* Mutant: the last entry of a full FIFO is left to the next execution.
BatchEndsShort == fifo = <<>> \/ n >= Depth - 1

BatchEnds == fifo = <<>> \/ n = Depth

WorkEnd ==
    /\ wpc = "read" /\ BatchEnds
    /\ wpc' = "idle" /\ n' = 0 /\ seen' = {}
    /\ UNCHANGED <<hostVars, date, sl, pins, wait, fifo, irq, sched, cur, req>>

\* Mutant: nobody is woken for a page that has just been handled.
WorkReadNoWake ==
    /\ wpc = "read" /\ ~BatchEnds
    /\ fifo' = Tail(fifo) /\ n' = n + 1
    /\ seen' = seen \cup {Head(fifo).page}
    /\ IF Head(fifo).from = "other" \/ Head(fifo).page \in seen
       THEN wpc' = "read" /\ cur' = NoMiss
       ELSE wpc' = "pin" /\ cur' = Head(fifo)
    /\ UNCHANGED <<hostVars, date, sl, pins, wait, irq, sched, req>>

\* The next miss: skipped if it is no core's, already handled, or new.
WorkRead ==
    /\ wpc = "read" /\ ~BatchEnds
    /\ fifo' = Tail(fifo) /\ n' = n + 1
    /\ seen' = seen \cup {Head(fifo).page}
    /\ IF Head(fifo).from = "other"
       THEN wpc' = "read" /\ cur' = NoMiss
       ELSE /\ wpc' = IF Head(fifo).page \in seen THEN "wake" ELSE "pin"
            /\ cur' = Head(fifo)
    /\ UNCHANGED <<hostVars, date, sl, pins, wait, irq, sched, req>>

\* miss_handling_error: the core is not woken.
GiveUp == wpc' = "read" /\ cur' = NoMiss

\* get_user_pages_remote, which may sleep
WorkPin ==
    /\ wpc = "pin"
    /\ IF cur.page \in BadPages
       THEN GiveUp /\ UNCHANGED pins
       ELSE /\ wpc' = "get" /\ UNCHANGED cur
            /\ pins' = [pins EXCEPT ![cur.page] = @ + 1]
    /\ UNCHANGED <<hostVars, date, sl, wait, fifo, irq, sched, n, seen, req>>

Takeable == {s \in Slices : Expired(date, sl[s].exp)}

Unpin(s) == IF sl[s].page = NoPage THEN pins ELSE [pins EXCEPT ![sl[s].page] = @ - 1]

\* Mutant: the page of the slice that is taken over stays pinned.
WorkFreeKeepsPin(s) ==
    /\ sl' = [sl EXCEPT ![s] = [page |-> NoPage, exp |-> 0]]
    /\ UNCHANGED pins

\* pulp_rab_slice_free
WorkFree(s) ==
    /\ sl' = [sl EXCEPT ![s] = [page |-> NoPage, exp |-> 0]]
    /\ pins' = Unpin(s)

Take(s) ==
    /\ WorkFree(s)
    /\ req' = [date |-> date, slice |-> s]
    /\ wpc' = "setup" /\ UNCHANGED cur

\* The first expired slice.  If there is none pulp_rab_slice_get leaves the last
\* one in the request, which level 1 takes for an error and level 0 does not.
WorkGet ==
    /\ wpc = "get"
    /\ \/ \E s \in Takeable : (\A t \in Takeable : s <= t) /\ Take(s)
       \/ Takeable = {} /\ lvl = 0 /\ Take(N - 1)
       \/ Takeable = {} /\ lvl = 1 /\ GiveUp /\ UNCHANGED <<sl, pins, req>>
    /\ UNCHANGED <<hostVars, date, wait, fifo, irq, sched, n, seen>>

\* Mutant: the dates do not start over.
NextDateUnbounded(d) == d + 1

\* Mutant: the dates start over at one.
NextDateFromOne(d) == IF d + 1 > MaxDateMh THEN 1 ELSE d + 1

NextDate(d) == IF d + 1 > MaxDateMh THEN 0 ELSE d + 1

\* pulp_rab_slice_setup; the last slice ends the round.
WorkSetup ==
    /\ wpc = "setup"
    /\ sl' = [sl EXCEPT ![req.slice] = [page |-> cur.page, exp |-> req.date]]
    /\ date' = IF lvl = 1 /\ req.slice = N - 1 THEN NextDate(date) ELSE date
    /\ wpc' = "wake" /\ req' = NoReq
    /\ UNCHANGED <<hostVars, pins, wait, fifo, irq, sched, n, seen, cur>>

\* A prefetch has no core to wake.
WorkWake ==
    /\ wpc = "wake"
    /\ wait' = IF cur.from \in PEs THEN [wait EXCEPT ![cur.from] = NoPage] ELSE wait
    /\ wpc' = "read" /\ cur' = NoMiss
    /\ UNCHANGED <<hostVars, date, sl, pins, fifo, irq, sched, n, seen, req>>

Work == \/ WorkStart \/ WorkEnd \/ WorkRead \/ WorkPin \/ WorkGet
        \/ WorkSetup \/ WorkWake
----------------------------------------------------------------------------
(***************************************************************************)
(* The host.                                                               *)
(***************************************************************************)
Quiet == wpc = "idle" /\ ~sched /\ ~irq /\ fifo = <<>>

Disable == mh' = FALSE /\ date' = 0 /\ UNCHANGED lvl

\* pulp_rab_mh_ena, and its failure to allocate a work queue
Enable == /\ lvl' \in {0, 1}
          /\ \/ mh' = TRUE /\ date' = 1
             \/ mh' = FALSE /\ date' = 0

\* VM_SET_MH_MODE with MH_HOST_RAB, MH_NONE
SetModeHost ==
    /\ Overlap \/ Quiet
    /\ Reenables \/ \A s \in Slices : sl[s] = Free(s)
    /\ Enable
    /\ UNCHANGED <<sl, pins, wait, fifo, irq, sched, workVars>>

SetModeNone ==
    /\ Overlap \/ Quiet
    /\ Disable
    /\ UNCHANGED <<sl, pins, wait, fifo, irq, sched, workVars>>

\* The references that slices hold.
Holds(p) == Cardinality({s \in Slices : sl[s].page = p})

FreeAll == /\ sl' = [s \in Slices |-> Free(s)]
           /\ pins' = [p \in Pages |-> pins[p] - Holds(p)]

\* release(), which clears no FIFO, and CTRL_RESET
Release ==
    /\ Overlap \/ Quiet
    /\ Disable /\ FreeAll
    /\ UNCHANGED <<wait, fifo, irq, sched, workVars>>

CtrlReset ==
    /\ Overlap \/ Quiet
    /\ mh' = FALSE /\ date' = 0 /\ lvl' = 0 /\ FreeAll
    /\ wait' = [c \in PEs |-> NoPage] /\ fifo' = <<>>
    /\ UNCHANGED <<irq, sched, workVars>>

MissNext ==
    \/ \E c \in PEs, p \in Pages : Access(c, p)
    \/ \E p \in Pages : Prefetch(p) \/ OtherMiss(p)
    \/ IsrMiss \/ Work
    \/ SetModeHost \/ SetModeNone \/ Release \/ CtrlReset

MissSpec == MissInit /\ [][MissNext]_missVars

(***************************************************************************)
(* Interrupts are served and the kernel executes pending work.             *)
(***************************************************************************)
MissFairSpec == MissSpec /\ WF_missVars(IsrMiss) /\ WF_missVars(Work)
----------------------------------------------------------------------------
(***************************************************************************)
(* Types; the date of the miss handler never becomes one of the two dates  *)
(* that mark other mappings, and mappings of others keep theirs.           *)
(***************************************************************************)
MissTypeOK ==
    /\ mh \in BOOLEAN /\ irq \in BOOLEAN /\ sched \in BOOLEAN
    /\ lvl \in {0, 1} /\ date \in 0 .. MaxDateMh
    /\ sl \in [Slices -> [page : Pages \cup {NoPage}, exp : 0 .. MaxDate]]
    /\ \A s \in Kept : sl[s] = Free(s)
    /\ pins \in [Pages -> Int]
    /\ wait \in [PEs -> Pages \cup {NoPage}]
    /\ fifo \in Seq(Misses)
    /\ wpc \in {"idle", "read", "pin", "get", "setup", "wake"}
    /\ n \in 0 .. Depth /\ seen \subseteq Pages
    /\ cur \in Misses \cup {NoMiss}
    /\ req \in [date : 0 .. MaxDateMh, slice : Slices]

(***************************************************************************)
(* The dates always leave a slice to take, also when they start over: no   *)
(* miss is refused for want of a slice.                                    *)
(***************************************************************************)
NeverRefused == wpc = "get" /\ lvl = 1 => Takeable # {}

(***************************************************************************)
(* A miss in the FIFO is never forgotten: an interrupt or the work item is *)
(* pending, or the execution under way still reads it.                     *)
(***************************************************************************)
NoMissForgotten ==
    fifo # <<>> => irq \/ sched \/ (wpc # "idle" /\ n + Len(fifo) <= Depth)

(***************************************************************************)
(* Every page is pinned exactly once per slice that maps it, plus once     *)
(* while the handler is about to map it.                                   *)
(***************************************************************************)
PinsExact ==
    \A p \in Pages :
        pins[p] = Holds(p) + (IF wpc \in {"get", "setup"} /\ cur.page = p THEN 1 ELSE 0)

(***************************************************************************)
(* A core that misses a page that can be pinned is woken.                  *)
(***************************************************************************)
MissAnswered ==
    \A c \in PEs : (wait[c] \in Pages \ BadPages) ~> (wait[c] = NoPage)
=============================================================================
