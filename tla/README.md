# TLA+ models of the HERO driver and runtime

HERO couples a Linux host with PULP, a programmable many-core accelerator.  The
host offloads OpenMP target regions; the accelerator shares the host's virtual
memory through a remapping address block (RAB).  This directory holds TLA+
modules of the parts of HERO in which several actors share state, the TLC
configurations that check them on small instances, and TLAPS proofs of the
results that matter most for every instance.  Everything is translated from the
source; `PROJECT.json` maps each definition to its lines.

## Inventory

| component | source | state | operations | what is hard |
|---|---|---|---|---|
| Mailbox driver | `support/pulp-driver/pulp_mbox.c`, hardware `axi_lite_mailbox.sv` | ring `mbox_fifo`, read and write pointer, full flag, transfer counters, mode | interrupt handler, `read()`, clear, set mode | handler and reader share the ring, copy outside the lock, latched interrupt, reset |
| libpulp mailbox | `support/libpulp/src/pulp.c` | byte counters | read, write | partial reads |
| Cluster control | `pulp_module.c` (`CTRL_*` ioctls, EOC interrupt), `pulp_ctrl.c` | GPIO value, `active_cluster_mask`, start and finish times, completion | start, stop, wait, reset, set frequency | interrupt against ioctl, timeout against end of computation |
| RAB L1 | `pulp_rab.c` | slices per port and mapping, page pointers with reference counts, pinned pages | request, striped request, free, update, switch, release | shared page lists, partial failure, expiry dates, pin balance |
| RAB L2 | `pulp_rab.c` | sets of entries | setup, invalidate | capacity of a set |
| RAB miss handling | `pulp_rab.c`, `pulp_module.c` | miss FIFO, work queue, mode | enable, disable, schedule, handle | work pending after disable, overflow |
| SoC miss handling | `pulp_rab.c` | reserved slices, page table slices | enable, disable | partial failure |
| SMMU | `pulp_smmu.c` | fault handlers, context bank | enable, disable, fault | fault against disable |
| DMA | `pulp_dma.c` | channels, descriptors, pages | transfer, callback | completion callback against cleanup |
| Driver memory | `pulp_mem.c` | user page arrays | cache flush, map | partial failure |
| Device session | `pulp_module.c` (`open`, `release`, `mmap`) | the singletons of the driver | open, release | release against a running accelerator |
| libpulp offload | `pulp.c` | task and data descriptors | offload in and out, RAB setup, pass descriptors, L3 allocation | order of the descriptors, sorting of elements |
| Device offload managers | `libgomp/config/pulp/hero/offload-manager.c`, `libomptarget-pulp-rtl/main.c` | command loop, number of miss handlers, `offload_rab_miss_sync` | receive, start handlers, run, report, stop | protocol with the host over the mailbox, handlers that outlive an offload |
| libgomp, work sharing | `libgomp/work.c`, `loop.c`, `iter.c`, `sections.c`, `single.c` | list of descriptors per team, their locks, pool of all teams | loops, sections, single, with and without a barrier | hand-over-hand locking, reuse of a descriptor under a slow thread |
| libgomp, teams | `libgomp/team.c`, `parallel.c`, `libgomp.c`, `bar-hw.h` | thread pool, `idle_cores`, team descriptors, `curr_team`, hardware barriers | start and end of (nested) regions, docking, exit | short cut for the last team, handlers counted but not marked, barriers |
| LLVM device runtime | `libomptarget-pulp-rtl/kmp.c`, `pulp-rt/include/omp.h`, `pulp-rt/libs/omp/omp.c` | epochs, bounds of the dynamic loop, barrier, dispatcher | fork, single, static and dynamic loops, teams of fewer cores | partition of the iterations, late threads, restored configuration |
| Device VMM | `libvmm/src/vmm.c`, `hal/rab`, `hal/tryx` | sets of second-level entries, list of recent pages, miss FIFO, sleeping cores | access, prefetch, handle a miss, map, unmap | replacement against a cached list, several misses to a page, two halves of a miss |
| Device library | `libhero-target` | DMA jobs, performance counters, allocators | memcpy, wait, perf alloc | job identifiers that wrap |
| Heaps | `vendor/o1heap`, `pulp-rt` | free lists | allocate, free | vendored or target-runtime code |
| Hardware, toolchain, examples | `hardware/`, `toolchain/`, `openmp-examples/`, `apps/`, `board/` | | | not the project's own control logic |

Interactions: the accelerator writes words to the mailbox; the mailbox interrupt
handler stores payload in `mbox_fifo` and serves RAB requests itself; a user
thread reads the payload with `read()`; ioctls start, stop and reset the
accelerator and program the RAB; the end-of-computation and miss interrupts come
back through `pulp_isr`; libpulp and the device runtime run a request and
completion protocol over the mailbox; on the device the offload manager runs the
offloaded function, whose regions use the cores that do not handle misses.

## Modules

### Mailbox, WordChannel, MailboxProofs

`Mailbox` has four actors that interleave freely: the accelerator (`Dev*`), the
interrupt handler (`Isr*`), one reading thread (`Read*`) and a thread that issues
`CTRL_RESET` (`SetModeOff` to `SetModeDriver`), plus the hardware that latches the
interrupt (`HwLatch`).  A section under `mbox_fifo_mtx` that cannot be interleaved
with another access is one step; the loops over the hardware FIFO are one step per
word, because the accelerator keeps writing meanwhile; `copy_to_user` runs outside
the lock and is one step per word.  The variables keep the names of the C
variables where they have one; `ring`, `wr`, `rd`, `full`, `nwritten`, `nto` are
`mbox_fifo`, `mbox_fifo_wr`, `mbox_fifo_rd`, `mbox_fifo_full`, `n_words_written`,
`n_words_to_write`.  Words are records whose `seq` and `sess` number the payload; the code
never looks at them, they make the properties expressible.  `ConcurrentReset` lets a reset
fall into a `read()`; `LateService` lets the clearing of the mailbox find the handler still
at a RAB request, although `pulp_reset` sleeps for at least 100 ms before it
(`pulp_ctrl.c:48`).

`WordChannel` is the abstract specification: a FIFO channel of numbered words that
a reset empties.  `ImplementsChannel` is the refinement.

### LibMailbox

`pulp_mbox_read()` of libpulp, which calls the driver's `read()` until it has all
words, composed with the driver below it.

`nchar` and `left` are `n_char` and `n_char_left`; the caller's memory is a function
of word cells, so that the place of a word can be told from its value.

### ClusterCtrl, DriverProofs

The `CTRL_START`, `CTRL_STOP`, `CTRL_WAIT` and `CTRL_RESET` ioctls, `release()` and
the end-of-computation part of `pulp_isr()`.  The host thread, the clusters and the
interrupt handler interleave.  The handler does not take `ctrl_lock`, and the ioctls
drop it in the middle of every iteration of their profiling loops, so every access to
shared state is a step of its own; clearing a bit of `active_cluster_mask` in the
handler is a load (`IsrFinish`) and a store (`IsrStore`).  `gpioval`, `active`,
`done`, `hfin`, `afin` are `gpio_value`, `active_cluster_mask`, `ctrl_finished.done`
and the finish times.  The host is of one of two kinds, fixed in the initial state
(`host`): "patient", which stops and resets only what it has awaited, as libpulp's
callers do, or "hasty", which does so at any time.

### RabL1, DriverProofs

The slices of port 1 in both mappings, the `page_ptrs` lists with their reference
counters, the hardware slices and the pins of user pages.  `RAB_REQ`,
`RAB_REQ_STRIPED`, `RAB_FREE`, `RAB_FREE_STRIPED`, `pulp_rab_release` and the
reinitialisation of `CTRL_RESET` are sequences of steps.  A request may fail at any
slice, and what it has set up so far stays, as in the code.

The interrupt handler may switch the active mapping at any time, on another CPU and
without a lock.  Every access of an ioctl to what the two share is therefore a step:
`pulp_rab_slice_free` tests `mapping_active` (`SliceTest`), disables the slice
(`SliceOff`), puts the pages (`SlicePut`) and clears the entry (`SliceFree`);
`pulp_rab_slice_setup` fills the entry (`SliceSetup`), tests `mapping_active`
(`SetupTest`) and writes the registers (`SetupWrite`).  `op` says which of them is in
progress, with what it has decided from its test.  The switch writes the hardware
(`SwitchHw`) and then `mapping_active` (`SwitchDone`); `switching` holds in between.  The
history variable `torn` has the hardware slices that a switch and one of these functions
were at together, until one that ran alone has put them in order: the code does not keep
the two apart, and such a slice may stay enabled (Findings).  `HwPinned` and
`ReleaseUnpins` speak of all other slices.

`StrayFlags`, `Dating`, `Unaligned` and `NConst` select callers; their comments say which
code leaves the choice open.  `StripedCall` is the one of a caller that frees the elements
of a mapping before it asks for new ones; the driver does not check, and would forget the
old elements.

`DriverProofs` holds the theorems about `ClusterCtrl` and those about `RabL1`, one part
each; the two models have nothing in common but the driver.

### StripeTable, RabStripe, RabStripeProofs

`StripeTable` holds the pure part of `pulp_rab_req_striped`: the segments that
`pulp_mem_map_sg` makes of the page frames of a buffer, and for every stripe its
slices, addresses and offsets.  `RabStripe` is the double buffering on top: the striped
request, `pulp_rab_update` slice by slice while the accelerator works, the wrap around
with `set_offset`, `pulp_rab_switch` and `RAB_FREE_STRIPED`.  The window is the
stripe the accelerator works on and the ones mapped ahead of it.

### RabMiss, RabMissProofs

Miss handling by the host.  Cores, prefetches and other masters enter misses into the
FIFO; `IsrMiss` is the miss part of `pulp_isr`, `Work*` are the steps of
`pulp_rab_handle_miss`, split where it sleeps or where others may act: reading an entry,
pinning the page, taking a slice, setting it up, waking the core.  `mh`, `lvl`, `date`
are `rab_mh`, `rab_mh_lvl`, `rab_mh_date`.  `Overlap` lets the host change the mode
while misses are outstanding, `Reenables` lets it enable miss handling while slices of an
earlier period are mapped.  With either a miss may be refused, and its page stays pinned.

### WorkShare, WorkShareProofs

The work-sharing constructs of libgomp with `OMP_NOWAIT_SUPPORT`, for one team whose
threads run the same sequence of constructs at their own pace.  `desc` holds the fields
of each `gomp_work_share_t`, `lock` its lock, `curr` the `CURR_WS` of each thread, `pool`
the list `ws_pool_list`, from which other teams take and give too (`OtherAlloc`,
`OtherFree`).  A critical section is one step, except `gomp_work_share_start`, which holds
one lock while it waits for the next and is two (`WorkShareStart`, then `LoopStart` or
`SingleStart`).  `serves` and `handed` are history: which construct a descriptor stands
for, and the iterations handed out.

### Team, TeamProofs

The parallel regions of libgomp under the offload manager: `OffloadStart` and `OffloadEnd`
on core 0, `TeamStart`, `ParallelEnd`, `TeamEnd` and `TeamFree` on the core that runs a
region, and docking, waking, running and the exit on all others.  Variables have the names of
the C code; `event` is the buffered event of the event unit, `job` the local copy of
`curr_team[pid]` a core made when it woke, `arrived` the state of the hardware barriers.
Regions nest up to the number of descriptors.

### Vmm, VmmProofs

Misses handled by the accelerator itself, at the second level of the RAB.  Workers access
pages, miss, sleep in `pulp_tryx_slowpath` and try again; prefetches and another master
miss without waiting.  A handler reads the two words of a miss in two steps, looks into the
list of recently mapped pages, probes the page, takes the next entry of its set and wakes
the core: each access to shared state is a step (`GetMeta` to `WakeUp`).  The page table of
the host is the set `Unmapped` of pages it does not translate.

### OmpRt, OmpRtProofs

The runtime that LLVM code uses: `Fork` and `ForkReturn` are the two halves of
`__kmpc_fork_call`, with the reconfiguration of barrier and dispatcher for a team of fewer
cores (`Reconfigured`, `Restored`); `Wake`, `TaskDone`, `HandlerDone` and `Barrier` are the
other cores, as threads or as miss handlers, and the event unit (the barrier as
`hw_barrier_unit.sv` has it: released when the arrivals equal the mask); `SingleStart`, `DispatchInit`, `DispatchNext` and `ForStatic` the
constructs.  What is done under the hardware mutex is one step.  The dispatcher is a FIFO
without bound per core; the hardware has one of four words, two of which a fork takes, and
does not notice an overflow (`hw_dispatch.sv:138`), so that a core which has not fetched its
entry two pushes later loses it.  That case is not modelled.  `StaticEven` and
`StaticChunked` are the arithmetic of `__kmpc_for_static_init_4`; `Executed` is the loop the
compiler puts around it.  `handed` is history: the iterations each thread was given.
`Mixed` says whether teams of fewer cores may follow full ones, `Again` whether offloads
follow one with miss handlers.  `OmpRtProofs` has the proofs.

## Runs

| run | instance | checks |
|---|---|---|
| `mailbox` | FIFO and ring of 2 words, transfers of up to 2, 3 messages, 1 reset, reads of up to 2 words (836,370 states) | types, order, no loss, framing, one RAB request served at a time, refinement of `WordChannel` |
| `lib_mailbox` | `pulp_mbox_read` of up to 3 words over the driver of `Mailbox`, 2 messages | exactly the words asked for are taken; every word sent is eventually read |
| `lib_read_partial` | the same | violated: the words are stored at the wrong place after a partial read |
| `cluster` | 2 clusters, 2 runs, 1 reset, both kinds of host (116,485 states) | a completion means that all have ended, the profile belongs to the run, and the completion is never lost |
| `rab_l1` | 5 slices, 1 constant mapping, dates 0 to 4, requests of up to 2 segments, 2 slices per stripe: 2 requests with up to 2 switches, or 3 without a switch (2,492,757 states) | exact reference counts, own pages unlocked, hardware reaches pinned pages only, nothing left after a release |
| `rab_stripe` | 160 buffers of 1 to 5 stripes, pages of 2 bytes, 3 slices per element (18,680 states) | window mapped, nothing but the window, coverage, number of slices and translation of the table |
| `rab_miss` | 2 cores, prefetch and another master, 2 good pages and 1 bad one, 3 slices of which 1 is constant, dates 0 to 2, FIFO of 2 (811,308 states) | types and date range, no miss refused or forgotten, exact pins, every core woken |
| `work_share` | 3 threads, a pool of 1 descriptor, 2 regions of up to 3 constructs, 1 descriptor in the hands of other teams (about a million states) | every iteration handed out once, no descriptor used after it was freed, each returned once, every region ends |
| `team` | 5 cores, 4 descriptors of which 3 are in use at a time, 3 offloads with 0, 1, 2 or all miss handlers, 4 regions of 2, 3 or all cores (252,602 states) | no core in two places, every core of a region joins it, every offload returns and every core leaves at the end |
| `vmm` | 2 cores, prefetch and another master, 5 pages of which 1 has no translation, 2 sets of 2 entries, a list of 1, 4 accesses (1,297,540 states) | the list of recent pages is never stale, no page has two entries, every access is served |
| `omp_rt` | 3 cores, 2 offloads, the last with 0 or 1 miss handlers, 3 regions of 3 constructs, clauses for 1, 2, 5 threads and none, teams that grow only (193,677 states) | a single is run once, static loops are divided exactly, no dynamic iteration is lost, every region returns |
| `omp_dynamic` | 2 cores, 1 region with 1 dynamic loop | violated: iterations are run twice |

The bounds are the smallest at which the hard cases occur.  Mailbox: a ring of 2 wraps
and gets full, a transfer is larger than what is left in the ring, and three messages
put a request between two transfers.  Cluster control: with two clusters one ends
while the handler is between load and store of the other; two runs let an end of the
first reach the second.  RAB: five slices leave room for a constant
mapping, a striped element and a request in two slices that takes over another; two
switches go there and back, and three requests are needed for what one leaves behind to
meet the next two.  As either multiplies the interleavings, the constraint `Explored` leaves
out runs with three requests and a switch.  Striping: with up to five stripes on two or three sets both
parities of the wrap around occur, and pages of two bytes are enough for every position
of a stripe border in a page.  Misses: two slices make a round, dates 0 to 2 start over
after three rounds, and a FIFO of two fills while the handler runs.  Work sharing: with
three constructs without a barrier a thread is two descriptors ahead of another, a pool of
one runs empty and a freed descriptor is in use again while a slow thread is still behind;
chunks that do not divide the loop, loops that count down and loops without iterations
occur.  Teams: five cores hold a nested region besides its parent and two handlers, four
regions are enough for a reuse of the last team after a nested one, a third offload
follows one whose handlers are late.  VMM: three pages compete for the two entries of a set, so a
page is mapped, listed, replaced and missed again.  LLVM runtime: two singles without a
barrier put a thread two epochs ahead; static loops are shorter than, as long as and
longer than the team; three regions go from a small team over another small one to the full one.
`MaxMsgs`, `MaxResets`, `MaxRuns`, `MaxReqs`, `MaxSwitches`, `MaxRegions`, `MaxOffloads`,
`MaxWs`, `MaxOther`, `MaxTeams`, `MaxAccesses` and `MaxQueued` are bounds; everything else
is a parameter of the code.

The runs of `RabL1`, `WorkShare`, `Team`, `Vmm` and `OmpRt` go without the deadlock check: the
system stops when the requests, regions, offloads or accesses of the bound are used up,
or in `Team` when the host has sent `PULP_STOP`.  That nobody waits for ever before that is what
their liveness properties say.

Every property has a mutant of the code that breaks it (`PROJECT.json`, `mutants`).

### Fairness

- `lib_mailbox`: the interrupt handler and a call of `read()` go on (weak fairness), each
  in the end gets `mbox_fifo_mtx` although the other takes it again and again, and a copy
  does not fault for ever (strong fairness: the spin lock is fair, a page that is faulted
  in stays); the hardware latches a pending interrupt, the user keeps calling
  `pulp_mbox_read`, and the accelerator completes a transfer it has announced but need not
  start one.
- `cluster`: the handler runs and an ioctl that was entered returns; the host need not call
  anything and no cluster need end.
- `rab_miss`: interrupts are served and pending work is executed, as the kernel promises for
  `schedule_work`; no core need miss.
- `work_share`, `team`, `omp_rt`: weak fairness of each core's next step: every core is a
  processor of its own and runs nothing else.  In `work_share` the master also starts the
  next region; in `team` the host need not send anything; in `omp_rt` the serial code need
  not fork or end.  The hardware locks need no strong fairness in these models, because a
  thread takes part in a lock only a bounded number of times per region.
- `vmm`: a woken core tries again and the handler goes on; no core need access anything.

## Proofs

All proofs are for every value of the constants that satisfies the `ASSUME`s of the
module.

- `MailboxProofs`.  `TypeCorrect` and `FramingKept` hold with racing resets.
  `ReadInOrder`, `ReadLosesNothing` and `MailboxIsChannel` assume `~ConcurrentReset`.
  Order alone is not inductive: the invariant `IInv` says that what was read, what the
  ring holds from `rd` to `wr`, what a copy in progress has taken, and what is in the
  hardware FIFO are consecutive pieces of the words sent, and which of the two equal
  pointers' meanings (`full`) holds at each step of the handler and the reader.
  `RabRequestsSerial` assumes `~LateService` too.  Its invariant `RabOnce` follows one
  request through its places: the accelerator that waits, the hardware FIFO, the hands of
  the handler or of the reader, and back; it is in exactly one of them.
  `LibTakesExactly` is about `pulp_mbox_read` over the driver (`LibInv`: what was taken and
  what is left add up in the middle of a `read()` as well), and `LibUsesMailbox` says that
  it is a user of the driver, so that every other theorem holds below it.
- `DriverProofs`, first part.  `CtrlTypeCorrect` holds for any host; `CompletionSound` and
  `ProfileSound` speak of the patient host.  `CtrlInv` relates the clusters that have
  ended to the bits still in the interrupt register, in the handler's hands and in
  `active_cluster_mask`: each is in exactly one place.
- `DriverProofs`, second part.  `RabTyped`, `ReferencesExact`, `UnlocksOwnPages`,
  `HardwarePinned` and `ReleaseUnpinsAll`, for any number of slices, segments, requests
  and switches, under `Plain`: `flags_drv` happens to be clear when `RAB_REQ` is entered,
  the driver has the one constant mapping of port 1 that `pulp_rab_setup` makes on every
  platform but Ariane, a request of several segments finds the same fields of `page_ptrs`
  free in both mappings, and its dates are valid and below that of a release.  The
  first three are findings below; pages with a later date than that of a release outlive it.
  The invariant `RabInv` has two parts.  `RabI` is about what only the ioctls use.  It says
  what a slice can be (`Forms`): cleared, the constant mapping, a page of a `RAB_REQ`, or a
  slice of a `RAB_REQ_STRIPED`.  A slice's field holds the array the slice maps, and its
  pages are pinned (`Owns`); the slices of one array expire together and share a page only
  between the two mappings or within a striped element (`Sames`), so that what
  `pulp_rab_free` unlocks with a slice of mapping 1 is needed by no other.  For the
  release, `Kept`: as long as an array is alive or a page of it pinned there is a slice
  that will unlock it, unless the array is in the hands of the ioctl or lost.  The rest
  says what holds at each step of an ioctl (`UserOK`, `StrOK`, `FreeOK`, ...), such as that
  the field chosen for the first segment in mapping 0 is the one mapping 1 will choose.
  `FreeMapped` and `SetupEffect` are the lemmas about `SliceFree` and `SliceSetup` that
  every ioctl uses.

  `HwI` is about what the ioctls share with the interrupt.  A hardware slice that is not
  torn is off or what the mapping in hardware says (`HwIs`); during a switch that mapping
  is ahead of `mapping_active` (`HwMap`).  `FreeOpOK` says which slice, with which flags, a
  slice_free in progress is at and that its pages are put when there is nothing left to put;
  `SetOpOK`, that a slice_setup in progress has the entry filled; and `AloneOK`, the heart
  of `HardwarePinned`, that for a slice that is not torn what the test of `mapping_active`
  said is still true, so that the slice is off in hardware from then until its entry is
  cleared, or belongs to the active mapping when the registers are written.  `HwFreed`,
  `HwSet` and `PutEffect` are its lemmas.  TLC has checked `RabI` and `HwI` on small
  instances.
- `RabStripeProofs`.  The tables: `TablesCover`, `SlicesDoSuffice` and `AlignedDoTranslate`,
  for every page size, every layout of frames and any number of ascending stripes
  (`IsBuffer`).  The segment indices that the code carries from stripe to stripe count an
  initial part of the segments (`CountPrefix`), so the stripe lies between the segments
  `FirstSeg` and `LastSeg` (`SegsOfStripe`); the segments are numbered by the breaks in
  the frames, each break by the breaks before it (`RankExists`).  The double buffering:
  `StripeTypes`, `WindowKept`, `NoStaleStripe`, with `~Rewinds`; they need that no stripe
  has more slices than its set, which is `ReservedSlicesSuffice`.  `StripeInv` says which
  stripe is in which set as a function of `stripe_idx` and `set_offset`; the wrap around
  is the modular arithmetic in its lemmas.
- `RabMissProofs`.  `MissTypes`, `SliceForEveryMiss`, `EveryMissSeen`, with `~Overlap`
  and `~Reenables`.  That a slice is free for every miss is not inductive; `MissInv`
  adds that the slices are split at some index into those of this round and, behind it,
  those of the last one (`Rounds`), that the slice being set up is the border, that
  misses are outstanding only while miss handling is enabled, and that the handler counts
  from zero.  The start over of the dates is the lemma `RoundExpires`.  `MissPinsExact`
  adds `PinInv`: between pinning and the set up of the slice the handler's own pin is the
  only one without a slice, and a slice taken over has given its pin back.  It rests on
  `SliceForEveryMiss`, because a refused miss keeps its pin.
- `VmmProofs`.  `VmmTypeCorrect`, `VmmOneEntry`, `VmmRecentIsMapped`, for one handler, any
  number of cores, pages and sets, and a list shorter than a set (`SizesAssumption`; the
  list has one place per core, a set has 32).  Neither property is inductive.  `IInv` adds
  that the two FIFOs have the same length except between the two reads of the handler
  (`FifoInv`), that a set's entries other than the free ones hold pages of that set
  (`EntryInv`), and the argument proper (`AgeInv`): the k-th youngest place of the list
  holds a page whose entry is at most the k-th youngest of its set, so that an entry is
  replaced only after its page has left the list.
- `WorkShareProofs`.  `IterationsOnce`, `NoneStale`, `PoolIsExact`, for any number of threads,
  any pool, any regions that `ProgramAssumption` allows, and a team whose root is `Embedded`.
  None of the three is inductive.  The invariant `IInv` has these parts: `Phases`, `Spots` and
  `Together` say where the threads are and that a barrier is passed by all or by none; `Chain`,
  that the descriptors in use serve successive constructs and are linked in that order; `Ends`,
  that `completed` is the number of threads that have called the end, so that the last thread,
  and only the last, frees the descriptor before, which is still the right one; `At`, that
  every thread is at the descriptor of its construct, and that a thread which allocated the
  next one is ahead of nobody; `Locks`, that who waits holds the lock it came from, which keeps
  a second thread away from a descriptor that is not initialised yet; and `Pools`, that each
  descriptor is in one place.  `Iters` comes on top: what has been handed out of a loop is cut
  off at `next` (`Cut`), or complete once a thread was told so, even if the descriptor is gone.
  That the next chunk continues the loop is modular arithmetic (`IterSplit`, `ChunkFacts`).
- `TeamProofs`.  `CoresAreExact`, `MembersDoJoin`, for any number of cores, descriptors,
  offloads, regions and levels of nesting, if the host asks every offload for the same number
  of miss handlers and team 0 is never taken (`Steady`; the findings say what happens without
  each).  `TeamInvariant` proves the invariant `TInv`, whose parts are: `PoolInv`, that the
  pool holds no descriptor twice; `OwnInv`, that the regions a core is the master of are
  stacked, level upon level, on the task it was woken for; `CoreInv` and `MembInv`, what each
  core runs, and that a worker of a region waits to be woken for it, runs its task, or has
  docked again behind the barrier; `BarInv`, that a core a barrier has seen waits at it, so
  that the last arrival releases the cores of this region and no others; `RestInv`, that all
  other cores are docked without an event or are miss handlers; and `LruInv`, that a region
  of level 1 has the lowest cores and that these have its descriptor in `curr_team` until the
  next one starts, which is what the short cut relies on.  From the stacking it follows, by
  the least level (`NoneActive`, `OnlyTop`), that core 0 outside of regions means that there
  is none.  That the scan finds as many cores as it looks for, and no handler among them, is
  counting (`LowestCount`, `LowestAvoids`, `PickedFree`).
- `OmpRtProofs`.  `SinglesRunOnce`, `StaticLoopsExact`, `NoneLost`, for any number of cores,
  any bodies that `BodiesAssumption` allows and any clauses, with `~Mixed`, `~Again` and
  `DynamicsWait` (no dynamic loop has a `nowait` clause); the findings say what happens
  without each.  `OmpInvariant` proves the invariant `IInv`, whose parts are: `Config`, which
  cores take part and that nobody else is anywhere in the region; `Places`, which orders the
  places of a region and says that a barrier is passed by all threads together or by none;
  `Epochs`, that the epoch of a core is the base of its team plus the singles it has passed
  and `loop_epoch` the greatest of them, which makes the comparison in `singleStart` tell the
  first thread from the others however far they are apart; `DynCover`, that the shared bounds
  belong to the one dynamic loop threads are in and everything before the next chunk has been
  handed out; and `Dealt`, that each thread which has entered a static loop was given its
  share once.  That the shares make up the loop is arithmetic (`EvenShare`, `ChunkShare`,
  `SharesExact`).

Checked by TLC only: all liveness (`Delivery`, `EocCompletes`, `MissAnswered`, `RegionsEnd`,
`RuntimeProgress`, `MissServed`, `RegionReturns`), because TLAPS does not prove liveness
under fairness, and the refutations of the findings.

## Findings

With a run:

- `lib_read_partial`: `pulp_mbox_read` indexes a word buffer by a byte count after a
  partial read.
- `omp_dynamic`: a thread that enters a dynamic loop after another has found it exhausted
  sets it up again and runs its iterations a second time (`omp.h:348`).

Met while modelling, without a run of their own (the constants named reach them):

Driver and libpulp

- A request that takes over an expired slice frees it with its own flags, in which "in every
  mapping" is always set: the old pages are never unpinned (`pulp_rab.c:1412`, against
  `pulp_rab.h:203`; `ReleaseUnpins` of `RabL1` leaves the arrays in `lost` out).
- No lock keeps `RAB_SWITCH`, served in the mailbox interrupt, apart from an ioctl.  One
  between the test of `mapping_active` in `pulp_rab_slice_free` (`pulp_rab.c:499`) and the
  clearing of `flags_hw` (`:575`) enables the slice again, or for the first time, from an
  entry whose pages are then put.  One between the test in `pulp_rab_slice_setup` (`:650`)
  and the writes (`:657`), or in the middle of its own writes (`:720` to `:754`), leaves a
  slice of the inactive mapping enabled, which is later freed without being disabled.  `HwPinned` and
  `ReleaseUnpins` of `RabL1` leave such slices out (`torn`); without that both are violated.
- Setting up a request in every mapping clears the hardware slice it has just set up for
  the active one (`pulp_rab.c:547`).
- The in-page offset of an unaligned buffer is added twice for later stripes of its first
  segment (`pulp_rab.c:1818`; `AlignedTranslates` has the aligned ones).
- A `CTRL_RESET` between `copy_to_user` and the update of the read pointer breaks the
  order of the next session (`ConcurrentReset`).  One that found the interrupt handler still
  at a RAB request would let its `HOST_READY` answer the first request of the next session,
  and handler and reader could then serve two at a time (`LateService = TRUE` violates
  `RabSerial`, for a ring of 1, a hardware FIFO of 3 and 4 messages).
- `CTRL_WAIT` returns 0 after a timeout, although `libpulp/inc/pulp.h:330` promises
  `-ETIME`.
- `RAB_FREE` with date 0 does not free all slices as `libpulp/inc/pulp.h:360` says;
  `RAB_REQ` does not initialise `flags_drv` (`StrayFlags`); page lists of several
  segments go wrong once the two mappings use different fields (`Unaligned`); a second
  constant mapping loses the counter of the first (`NConst = 2`); dates of eight bits wrap
  (`pulp_rab.c:405`); a `get_user_pages` that pins fewer pages than asked for is only logged
  (`pulp_mem.c:133`).
- `pulp_rab_switch` resets `stripe_idx` but not `set_offset` (`Rewinds`).
- Disabling miss handling does not wait for its work item, which `schedule_work` puts on
  another queue than the one destroyed (`Overlap`); enabling it again restarts the dates
  below those of mapped slices (`Reenables`); a page that is missed again before it is
  mapped, in a FIFO that one execution cannot empty, is mapped twice; a miss whose page
  cannot be had leaves its core asleep.
- libpulp's sort of the data descriptors compares `data_desc[j]` instead of
  `data_desc[order[j]]`, and the results of its RAB requests are not looked at.

libgomp

- A region that reuses the last team leaves `curr_team` of its cores alone; cores that were
  miss handlers of an earlier offload with more handlers run the handler again, and the end of
  the region waits for them (`team.c:352`, `Varies = TRUE`).
- The fourth descriptor in use at a time is team 0 with barrier 0, which
  `MSGBarrier_hwSlaveEnter` skips: its region hangs (`MaxTeams = 4`).
- `root_ws.embedded` is set from team 1 on only, so the root of team 0 goes to the pool
  (`Embedded = FALSE`).
- `__getBitmask(16)` returns the mask of 15 threads; an empty pool of descriptors aborts.

VMM

- Two handlers, which the offload manager may start, read halves of two misses and take each
  other's probes for misses (two `Handlers`).
- A miss that cannot be mapped ends `handle_rab_misses` without waking its core
  (`vmm.c:357`); its caller goes on with the next.
- `map_page` of an application is not entered in the list of recent pages and ages its
  entries; `unmap_page` looks at the first level only, so pages mapped at the second are not
  found; `map_pages` tests the number of first-level slices.

LLVM runtime

- After a team of fewer cores only the epochs of its own cores are set back
  (`omp.c:198`, "Realign them in order to not disturb plain teams"): singles in a full team,
  then a smaller team, then a larger one run a single twice (`Mixed = TRUE`).
- A miss handler is dispatched like a task (`main.c:145`), so when its offload ends it goes
  through `__rt_fork_return` to barrier 0, alone.  Its arrival stays there; the barrier is
  released when the arrivals equal the mask (`hw_barrier_unit.sv:64`), so the next region of
  fewer cores, as every region beside a handler is, hangs (`Again = TRUE` violates
  `RegionReturns`).
- Dynamic loops with a `nowait` clause share their bounds with the next loop and take the
  epoch of a later single for their own (`omp.h:415`): a single, a dynamic loop and a single
  without barriers violate `SingleOnce`, two dynamic loops of different lengths
  `NoIterationLost`.
- A `num_threads` clause stays in force for later regions until the next offload
  (`kmp.c:66`).
- `leftOver` is not multiplied by `incr` (`kmp.c:109`); compilers pass steps of 1.

## Not modelled

`PROJECT.json` lists every component with its status.

- The host side of the legacy offload in libpulp (`pulp_offload_out/in`, `pass_desc`,
  `get_desc`, the RAB setup): sequential code of one thread over the mailbox, whose order and
  losslessness `Mailbox` shows.
- RAB L2 in the driver and the enabling of the accelerator's own miss handling
  (`soc_mh_*`): sequential tables filled once; the replacement of second-level entries at run
  time is in `Vmm`.
- DMA of the driver and the SMMU: the state is that of the kernel's DMA engine and of the
  IOMMU of one platform.
- Cache maintenance, `mmap`, sysfs, `CTRL_SET_FREQ`, the AX logger, profiling output:
  no state that another part depends on.
- In the LLVM runtime critical sections, atomics (one hardware mutex), sections and the wrappers for GCC; in libgomp thread numbers and regions
  over several clusters; `libhero-target` (wrappers of DMA and allocators).
- Failures of `kmalloc` in the driver and of `l1malloc` on the device.

Most of the repository's lines are not control logic of HERO: the neural-network and other
benchmarks in `openmp-examples/` and `apps/`, the hardware in `hardware/`, register headers
and boot code of `pulp/sdk`, toolchain and board support, and vendored code.  They carry no
state shared between the parts above and are outside the models.
