--------------------------------- MODULE Vmm ---------------------------------
(***************************************************************************)
(* Shared virtual memory on the accelerator: RAB misses handled by its own  *)
(* cores (libvmm/src/vmm.c with VMM_RAB_LVL 2, hal/rab/rab_v1.h,            *)
(* hal/tryx/tryx_v1.[ch]).                                                  *)
(*                                                                         *)
(* An access to a page without an entry in the second level of the RAB      *)
(* fails and leaves a miss in a hardware FIFO; the core sleeps until a      *)
(* miss handler has mapped the page, and tries again.  Entries of a set     *)
(* are replaced in FIFO order.  A list of recently mapped pages spares      *)
(* the handler from looking into the RAB.                                   *)
(***************************************************************************)
EXTENDS Integers, Sequences, FiniteSets

CONSTANTS
  Workers,         \* cores that access shared memory
  Handlers,        \* cores that run handle_rab_misses
  Dma,             \* a master that is not a core
  Pages,           \* page frame numbers; zero is not among them
  Unmapped,        \* pages without a translation in the host's page table
  NumSets,         \* RAB_L2_N_SETS
  EntriesPerSet,   \* RAB_L2_N_ENTRIES_PER_SET
  NumRecent,       \* ARCHI_NB_PE, the length of recently_mapped_pages
  MaxAccesses,     \* bound on the accesses that miss
  MaxQueued        \* bound on the queue when a prefetch or the DMA misses

NoPage == 0
Sets == 0 .. NumSets - 1
Slots == 0 .. EntriesPerSet - 1
Recent == 0 .. NumRecent - 1
Cores == Workers \cup Handlers
page_set(p) == p % NumSets

ASSUME CoresAssumption == Workers \cap Handlers = {} /\ Dma \notin Cores
ASSUME PagesAssumption == /\ Pages \subseteq Nat \ {0}
                          /\ Pages # {}
                          /\ Unmapped \subseteq Pages
ASSUME SizesAssumption == /\ NumSets \in Nat \ {0}
                          /\ NumRecent \in Nat \ {0}
                          /\ EntriesPerSet \in Nat
                          /\ NumRecent < EntriesPerSet

VARIABLES
  entry,      \* the page of each entry of each set
  i_set,      \* page_rab_cfg_l2_i_set
  recent,     \* recently_mapped_pages
  rmp_wptr,
  metas,      \* miss FIFO: who missed, and whether it was a prefetch
  addrs,      \* miss FIFO: on which page
  event,      \* cores with a buffered RAB_WAKEUP event
  wpc,        \* workers: "run" or "asleep" in pulp_tryx_slowpath
  want,       \* the page each sleeping worker accesses
  hpc,        \* where each handler is
  meta, page, idx,   \* its locals
  accesses

rabVars == <<entry, i_set>>
rmpVars == <<recent, rmp_wptr>>
fifoVars == <<metas, addrs>>
workerVars == <<event, wpc, want, accesses>>
handlerVars == <<hpc, meta, page, idx>>
vars == <<rabVars, rmpVars, fifoVars, workerVars, handlerVars>>

NoMeta == [core |-> Dma, prefetch |-> FALSE]
Metas == [core : Cores \cup {Dma}, prefetch : BOOLEAN]

IsMapped(p) == \E e \in Slots : entry[page_set(p)][e] = p

-----------------------------------------------------------------------------
(* The RAB seen by its masters *)

\* An access of core c: a miss is queued.
Misses(c, p, prefetch) ==
  /\ metas' = Append(metas, [core |-> c, prefetch |-> prefetch])
  /\ addrs' = Append(addrs, p)

\* pulp_tryread and pulp_trywrite, the first attempt; it changes nothing if the
\* page is mapped.
TryAccess(w, p) ==
  /\ wpc[w] = "run"
  /\ accesses < MaxAccesses
  /\ ~IsMapped(p)
  /\ accesses' = accesses + 1
  /\ want' = [want EXCEPT ![w] = p]
  /\ Misses(w, p, FALSE)
  /\ wpc' = [wpc EXCEPT ![w] = "asleep"]
  /\ UNCHANGED <<rabVars, rmpVars, event, handlerVars>>

\* pulp_tryread_prefetch and pulp_trywrite_prefetch
Prefetch(w, p) ==
  /\ wpc[w] = "run"
  /\ accesses < MaxAccesses
  /\ Len(metas) < MaxQueued
  /\ accesses' = accesses + 1
  /\ ~IsMapped(p)
  /\ Misses(w, p, TRUE)
  /\ UNCHANGED <<rabVars, rmpVars, event, wpc, want, handlerVars>>

\* Mutant: the access is not repeated.
RetryNever(w) ==
  /\ wpc[w] = "asleep"
  /\ w \in event
  /\ event' = event \ {w}
  /\ UNCHANGED <<rabVars, rmpVars, fifoVars, wpc, want, accesses, handlerVars>>

\* The event ends pulp_tryx_slowpath; the access is tried again.
Retry(w) ==
  /\ wpc[w] = "asleep"
  /\ w \in event
  /\ event' = event \ {w}
  /\ \/ /\ IsMapped(want[w])
        /\ wpc' = [wpc EXCEPT ![w] = "run"]
        /\ want' = [want EXCEPT ![w] = NoPage]
        /\ UNCHANGED fifoVars
     \/ /\ ~IsMapped(want[w])
        /\ Misses(w, want[w], FALSE)
        /\ UNCHANGED <<wpc, want>>
  /\ UNCHANGED <<rabVars, rmpVars, accesses, handlerVars>>

\* Misses of other masters reach the same FIFO; nobody looks at their page.
DmaMiss ==
  /\ accesses < MaxAccesses
  /\ Len(metas) < MaxQueued
  /\ accesses' = accesses + 1
  /\ Misses(Dma, CHOOSE p \in Pages : TRUE, FALSE)
  /\ UNCHANGED <<rabVars, rmpVars, event, wpc, want, handlerVars>>

-----------------------------------------------------------------------------
(* handle_rab_misses, called over and over again *)

\* The handler is done with a miss and with its locals.
Done(h) ==
  /\ hpc' = [hpc EXCEPT ![h] = "idle"]
  /\ meta' = [meta EXCEPT ![h] = NoMeta]
  /\ page' = [page EXCEPT ![h] = NoPage]
  /\ idx' = [idx EXCEPT ![h] = 0]

\* get_rab_miss reads the two parts of a miss one after the other.
GetMeta(h) ==
  /\ hpc[h] = "idle"
  /\ metas # <<>>
  /\ meta' = [meta EXCEPT ![h] = Head(metas)]
  /\ metas' = Tail(metas)
  /\ hpc' = [hpc EXCEPT ![h] = "addr"]
  /\ UNCHANGED <<rabVars, rmpVars, addrs, workerVars, page, idx>>

\* Misses of other masters end the call with -EFAULT, those of the handler
\* itself are skipped.
GetAddr(h) ==
  /\ hpc[h] = "addr"
  /\ addrs' = Tail(addrs)
  /\ \/ meta[h].core \in {Dma, h} /\ Done(h)
     \/ /\ meta[h].core \notin {Dma, h}
        /\ page' = [page EXCEPT ![h] = Head(addrs)]
        /\ hpc' = [hpc EXCEPT ![h] = "recent"]
        /\ UNCHANGED <<meta, idx>>
  /\ UNCHANGED <<rabVars, rmpVars, metas, workerVars>>

\* page_has_recently_been_mapped
LookRecent(h) ==
  /\ hpc[h] = "recent"
  /\ hpc' = [hpc EXCEPT ![h] = IF \E k \in Recent : recent[k] = page[h]
                               THEN "wake" ELSE "probe"]
  /\ UNCHANGED <<rabVars, rmpVars, fifoVars, workerVars, meta, page, idx>>

\* Mutant: the list of recently mapped pages is taken for all of them.
ProbeSkipped(h) ==
  /\ hpc[h] = "probe"
  /\ hpc' = [hpc EXCEPT ![h] = "map"]
  /\ UNCHANGED <<rabVars, rmpVars, fifoVars, workerVars, meta, page, idx>>

\* page_is_mapped: a prefetch by the handler, whose miss is queued as well
Probe(h) ==
  /\ hpc[h] = "probe"
  /\ \/ /\ IsMapped(page[h])
        /\ hpc' = [hpc EXCEPT ![h] = "wake"]
        /\ UNCHANGED fifoVars
     \/ /\ ~IsMapped(page[h])
        /\ hpc' = [hpc EXCEPT ![h] = "map"]
        /\ Misses(h, page[h], TRUE)
  /\ UNCHANGED <<rabVars, rmpVars, workerVars, meta, page, idx>>

\* map_page and config_page_rab_entry, up to the load of the index: without a
\* translation the call ends and nobody is woken.
LoadIndex(h) ==
  LET s == page_set(page[h])
  IN  /\ hpc[h] = "map"
      /\ \/ page[h] \in Unmapped /\ Done(h)
         \/ /\ page[h] \notin Unmapped
            /\ hpc' = [hpc EXCEPT ![h] = "write"]
            /\ idx' = [idx EXCEPT ![h] = IF i_set[s] >= EntriesPerSet THEN 0 ELSE i_set[s]]
            /\ UNCHANGED <<meta, page>>
      /\ UNCHANGED <<rabVars, rmpVars, fifoVars, workerVars>>

\* Mutant: the index is not incremented.
WriteEntrySame(h) ==
  LET s == page_set(page[h])
  IN  /\ hpc[h] = "write"
      /\ i_set' = [i_set EXCEPT ![s] = idx[h]]
      /\ entry' = [entry EXCEPT ![s][idx[h]] = page[h]]
      /\ hpc' = [hpc EXCEPT ![h] = "add"]
      /\ UNCHANGED <<rmpVars, fifoVars, workerVars, meta, page, idx>>

\* The incremented index is stored and the entry is written.
WriteEntry(h) ==
  LET s == page_set(page[h])
  IN  /\ hpc[h] = "write"
      /\ i_set' = [i_set EXCEPT ![s] = idx[h] + 1]
      /\ entry' = [entry EXCEPT ![s][idx[h]] = page[h]]
      /\ hpc' = [hpc EXCEPT ![h] = "add"]
      /\ UNCHANGED <<rmpVars, fifoVars, workerVars, meta, page, idx>>

\* add_to_recently_mapped_pages
AddRecent(h) ==
  /\ hpc[h] = "add"
  /\ recent' = [recent EXCEPT ![rmp_wptr] = page[h]]
  /\ rmp_wptr' = IF rmp_wptr + 1 >= NumRecent THEN 0 ELSE rmp_wptr + 1
  /\ hpc' = [hpc EXCEPT ![h] = "wake"]
  /\ UNCHANGED <<rabVars, fifoVars, workerVars, meta, page, idx>>

\* wake_up_core, unless the miss was a prefetch
WakeUp(h) ==
  /\ hpc[h] = "wake"
  /\ event' = IF meta[h].prefetch THEN event ELSE event \cup {meta[h].core}
  /\ Done(h)
  /\ UNCHANGED <<rabVars, rmpVars, fifoVars, wpc, want, accesses>>

-----------------------------------------------------------------------------
\* After reset_vmm
Init ==
  /\ entry = [s \in Sets |-> [e \in Slots |-> NoPage]]
  /\ i_set = [s \in Sets |-> 0]
  /\ recent = [k \in Recent |-> NoPage]
  /\ rmp_wptr = 0
  /\ metas = <<>>
  /\ addrs = <<>>
  /\ event = {}
  /\ wpc = [w \in Workers |-> "run"]
  /\ want = [w \in Workers |-> NoPage]
  /\ hpc = [h \in Handlers |-> "idle"]
  /\ meta = [h \in Handlers |-> NoMeta]
  /\ page = [h \in Handlers |-> NoPage]
  /\ idx = [h \in Handlers |-> 0]
  /\ accesses = 0

Handle(h) ==
  \/ GetMeta(h)
  \/ GetAddr(h)
  \/ LookRecent(h)
  \/ Probe(h)
  \/ LoadIndex(h)
  \/ WriteEntry(h)
  \/ AddRecent(h)
  \/ WakeUp(h)

Next ==
  \/ \E w \in Workers : \/ \E p \in Pages : TryAccess(w, p) \/ Prefetch(w, p)
                        \/ Retry(w)
  \/ DmaMiss
  \/ \E h \in Handlers : Handle(h)

Spec == Init /\ [][Next]_vars

\* Sleeping workers are woken by their event, and handlers keep calling
\* handle_rab_misses; nothing forces a worker to access anything.
FairSpec ==
  /\ Spec
  /\ \A w \in Workers : WF_vars(Retry(w))
  /\ \A h \in Handlers : WF_vars(Handle(h))

-----------------------------------------------------------------------------
(* Properties *)

\* Types of all variables
VmmTypeOK ==
  /\ entry \in [Sets -> [Slots -> Pages \cup {NoPage}]]
  /\ i_set \in [Sets -> 0 .. EntriesPerSet]
  /\ recent \in [Recent -> Pages \cup {NoPage}]
  /\ rmp_wptr \in Recent
  /\ metas \in Seq(Metas)
  /\ addrs \in Seq(Pages)
  /\ event \subseteq Cores
  /\ wpc \in [Workers -> {"run", "asleep"}]
  /\ want \in [Workers -> Pages \cup {NoPage}]
  /\ hpc \in [Handlers -> {"idle", "addr", "recent", "probe", "map", "write",
                           "add", "wake"}]
  /\ meta \in [Handlers -> Metas]
  /\ page \in [Handlers -> Pages \cup {NoPage}]
  /\ idx \in [Handlers -> Slots]
  /\ accesses \in Nat

\* A page in the list of recently mapped pages has an entry in the RAB: a
\* stale one would make the handler wake its core without mapping the page,
\* again and again.  With a single handler that is the only one to map pages
\* it is enough that the list is shorter than a set of entries.
RecentIsMapped ==
  \A k \in Recent : recent[k] # NoPage => IsMapped(recent[k])

\* vmm.h:42 "the *caller* must make sure that this function is not called on
\* pages that are already mapped": no page has two entries, although a miss
\* may be queued for a page that is mapped by the time it is handled.
OneEntryPerPage ==
  \A s \in Sets : \A e, f \in Slots :
    (e # f /\ entry[s][e] = entry[s][f]) => entry[s][e] = NoPage

\* A worker that sleeps for a page with a translation gets its access, even
\* if the entry was replaced before it tried again or other accesses fault.
MissServed ==
  \A w \in Workers :
    (wpc[w] = "asleep" /\ want[w] \notin Unmapped) ~> (wpc[w] = "run")

=============================================================================
