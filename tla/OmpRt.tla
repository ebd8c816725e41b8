-------------------------------- MODULE OmpRt --------------------------------
(***************************************************************************)
(* The OpenMP runtime that LLVM code uses on the accelerator                *)
(* (libomptarget-pulp-rtl/kmp.c and main.c on pulp-rt's omp.h and omp.c),   *)
(* for an event unit of version 3 without hardware loops.                   *)
(*                                                                         *)
(* There is one team.  Core 0 runs the serial code and forks; the others    *)
(* wait at the dispatcher of the event unit for a task or for the order to  *)
(* handle RAB misses until the offload ends.  Which thread runs a single    *)
(* is decided by epochs, one of the team and one per core; dynamic loops    *)
(* share one set of bounds; static loops are split by arithmetic.           *)
(* Everything between lock and unlock of hardware mutex 0 is one step.      *)
(***************************************************************************)
EXTENDS Integers, Sequences, FiniteSets

CONSTANTS
  NumCores,      \* rt_nb_active_pe()
  Clauses,       \* num_threads clauses, 0 when there is none
  Bodies,        \* what a region may run: sequences of constructs
  HandlerCounts, \* numbers of RAB miss handlers the host asks for
  Again,         \* whether offloads follow one with miss handlers
  Mixed,         \* whether teams of fewer cores follow full ones
  MaxOffloads,   \* bound on the offloads
  MaxRegions     \* bound on the parallel regions

Cores == 0 .. NumCores - 1
First(n) == {c \in Cores : c < n}

ASSUME CoresAssumption == NumCores \in Nat \ {0}
ASSUME ClausesAssumption == Clauses \subseteq Nat /\ HandlerCounts \subseteq Nat

\* A construct is a single, a loop that is scheduled dynamically, or one with
\* a static schedule, with chunks of a given size (33) or without (34).  The
\* compiler hands over loops that count from 0 in steps of 1; upper is their
\* last iteration.  nowait: no __kmpc_barrier follows.
ASSUME BodiesAssumption ==
  \A b \in Bodies :
    /\ b \in Seq({b[i] : i \in DOMAIN b})
    /\ \A i \in DOMAIN b :
         /\ b[i].kind \in {"single", "dynamic", "static"}
         /\ b[i].nowait \in BOOLEAN
         /\ b[i].kind # "single" => b[i].lower \in Int /\ b[i].upper \in Int
         /\ b[i].kind = "dynamic" => b[i].chunk \in Nat \ {0}
         /\ b[i].kind = "static" =>
              /\ b[i].lower = 0 /\ b[i].incr = 1 /\ b[i].upper \in Nat
              /\ b[i].sched = 34 \/ (b[i].sched = 33 /\ b[i].chunk \in Nat \ {0})

VARIABLES
  numThreads, maxThreads,        \* of ompData
  nbThreads,                     \* of its team
  loop_epoch, core_epoch,
  loop_is_setup, loop,           \* loop_start, loop_end, loop_chunk
  bar_mask, arrived,             \* hardware barrier 0
  team_mask, queue,              \* the dispatcher: its team, entries per core
  partial,                       \* core 0 is in partialParallelRegion
  handlers,                      \* nbOffloadRabMissHandlers
  sync,                          \* offload_rab_miss_sync is 0xdeadbeef
  pc, pos, body,
  offloads, regions,
  full,      \* history: a region with all cores has been run
  handed     \* history: for each construct, the shares given to the cores

loopVars == <<loop_is_setup, loop>>
epochVars == <<loop_epoch, core_epoch>>
hwVars == <<bar_mask, team_mask>>
mhVars == <<maxThreads, handlers, sync>>
boundVars == <<offloads, regions, full>>
vars == <<numThreads, nbThreads, epochVars, loopVars, hwVars, mhVars, arrived,
          queue, partial, pc, pos, body, boundVars, handed>>

Construct(k) == body[k]
Current(c) == body[pos[c] + 1]

-----------------------------------------------------------------------------
(* Core 0: the offload manager, and regions *)

\* An entry, of two words, of the dispatcher for the cores in S.  The hardware has one
\* FIFO of four words for all cores, which a push may overwrite (hw_dispatch.sv:138); here
\* an entry stays until its core fetches it.
Pushes(S, what) ==
  queue' = [c \in Cores |-> IF c \in S THEN Append(queue[c], what) ELSE queue[c]]

\* A command other than PULP_STOP with its function, its arguments and the
\* number of miss handlers, which are the last cores.  What a num_threads
\* clause left in numThreads is overwritten.
OffloadStart(n) ==
  LET k == IF n < NumCores - 1 THEN n ELSE NumCores - 1
  IN  /\ pc[0] = "mailbox"
      /\ offloads < MaxOffloads
      /\ Again \/ handlers = 0
      /\ offloads' = offloads + 1
      /\ handlers' = k
      /\ sync' = (sync /\ k = 0)
      /\ maxThreads' = NumCores - k
      /\ numThreads' = NumCores - k
      /\ Pushes(Cores \ First(NumCores - k), "handler")
      /\ team_mask' = Cores
      /\ pc' = [pc EXCEPT ![0] = "serial"]
      /\ UNCHANGED <<nbThreads, epochVars, loopVars, bar_mask, arrived, partial,
                     pos, body, regions, full, handed>>

OffloadEnd ==
  /\ pc[0] = "serial"
  /\ pc' = [pc EXCEPT ![0] = "mailbox"]
  /\ sync' = (sync \/ handlers # 0)
  /\ UNCHANGED <<numThreads, nbThreads, epochVars, loopVars, hwVars, maxThreads,
                 handlers, arrived, queue, partial, pos, body, boundVars, handed>>

\* __kmpc_push_num_threads; without a clause it is not called.
Pushed(clause) == IF clause = 0 THEN numThreads
                  ELSE IF clause > maxThreads THEN maxThreads ELSE clause

\* parallelRegion: (1 << n) & coreMask is 0 for a team of all cores.
IsPartial(n) == n \in 1 .. NumCores - 1

\* Mutant: the barrier is left as it is.
ReconfiguredNoBarrier(n) ==
  /\ team_mask' = First(n)
  /\ nbThreads' = n
  /\ UNCHANGED bar_mask

\* The beginning of partialParallelRegion
Reconfigured(n) ==
  /\ bar_mask' = First(n)
  /\ team_mask' = First(n)
  /\ nbThreads' = n

\* __kmpc_fork_call up to the call of the microtask: a team of fewer cores
\* reconfigures barrier and dispatcher, then the other cores are woken.
Fork(clause, b) ==
  LET n == Pushed(clause)
  IN  /\ pc[0] = "serial"
      /\ regions < MaxRegions
      /\ Mixed \/ ~full \/ ~IsPartial(n)
      /\ numThreads' = n
      /\ partial' = IsPartial(n)
      /\ IF IsPartial(n) THEN Reconfigured(n) ELSE UNCHANGED <<hwVars, nbThreads>>
      /\ Pushes(team_mask' \ {0}, "task")
      /\ pc' = [pc EXCEPT ![0] = "body"]
      /\ pos' = [c \in Cores |-> 0]
      /\ body' = b
      /\ handed' = [k \in DOMAIN b |-> <<>>]
      /\ regions' = regions + 1
      /\ full' = (full \/ ~IsPartial(n))
      /\ UNCHANGED <<epochVars, loopVars, mhVars, arrived, offloads>>

\* Mutants: the number of threads is not restored; only the team's epoch is
\* realigned.
RestoredNoThreads ==
  /\ bar_mask' = Cores
  /\ team_mask' = Cores
  /\ loop_epoch' = 0
  /\ core_epoch' = [c \in Cores |-> IF c < nbThreads THEN 0 ELSE core_epoch[c]]
  /\ UNCHANGED nbThreads
RestoredTeamEpoch ==
  /\ bar_mask' = Cores
  /\ team_mask' = Cores
  /\ loop_epoch' = 0
  /\ UNCHANGED core_epoch
  /\ nbThreads' = NumCores

\* The end of partialParallelRegion: the epochs of the cores of the team are
\* realigned, those of the others are not.
Restored ==
  /\ bar_mask' = Cores
  /\ team_mask' = Cores
  /\ loop_epoch' = 0
  /\ core_epoch' = [c \in Cores |-> IF c < nbThreads THEN 0 ELSE core_epoch[c]]
  /\ nbThreads' = NumCores

\* The rest of __kmpc_fork_call, after the final barrier.  The region and its
\* history are over.
ForkReturn ==
  /\ pc[0] = "return"
  /\ IF partial THEN Restored ELSE UNCHANGED <<hwVars, epochVars, nbThreads>>
  /\ partial' = FALSE
  /\ pc' = [pc EXCEPT ![0] = "serial"]
  /\ pos' = [c \in Cores |-> 0]
  /\ body' = <<>>
  /\ handed' = <<>>
  /\ UNCHANGED <<numThreads, loopVars, mhVars, arrived, queue, boundVars>>

-----------------------------------------------------------------------------
(* The other cores, and the barrier *)

\* __rt_wait_for_dispatch.  Both kinds of entries are fork entries.
Wake(c) ==
  /\ pc[c] = "docked"
  /\ queue[c] # <<>>
  /\ queue' = [queue EXCEPT ![c] = Tail(@)]
  /\ pc' = [pc EXCEPT ![c] = IF Head(queue[c]) = "task" THEN "body" ELSE "handling"]
  /\ UNCHANGED <<numThreads, nbThreads, epochVars, loopVars, hwVars, mhVars,
                 arrived, partial, pos, body, boundVars, handed>>

\* offload_rab_misses_handler returns to __rt_fork_return, with its barrier.
HandlerDone(c) ==
  /\ pc[c] = "handling"
  /\ sync
  /\ pc' = [pc EXCEPT ![c] = "exit"]
  /\ UNCHANGED <<numThreads, nbThreads, epochVars, loopVars, hwVars, mhVars,
                 arrived, queue, partial, pos, body, boundVars, handed>>

\* The microtask returns: to the final barrier of parallelRegionExec, or to
\* that of __rt_fork_return.
TaskDone(c) ==
  /\ pc[c] = "body"
  /\ pos[c] = Len(body)
  /\ pc' = [pc EXCEPT ![c] = "exit"]
  /\ UNCHANGED <<numThreads, nbThreads, epochVars, loopVars, hwVars, mhVars,
                 arrived, queue, partial, pos, body, boundVars, handed>>

\* Where a core goes on after construct k
After(k) == IF Construct(k).nowait THEN "body" ELSE "bar"
AfterBarrier(c) ==
  CASE pc[c] = "fini" -> After(pos[c])
    [] pc[c] = "bar"  -> "body"
    [] pc[c] = "exit" -> IF c = 0 THEN "return" ELSE "docked"

\* doBarrier: the event unit releases the cores of the mask when the cores
\* that have arrived are exactly those of the mask.
Barrier(c) ==
  LET here == arrived \cup {c}
  IN  /\ pc[c] \in {"fini", "bar", "exit"}
      /\ c \notin arrived
      /\ IF here = bar_mask
         THEN /\ arrived' = {}
              /\ pc' = [d \in Cores |-> IF d \in here THEN AfterBarrier(d) ELSE pc[d]]
         ELSE /\ arrived' = here
              /\ UNCHANGED pc
      /\ UNCHANGED <<numThreads, nbThreads, epochVars, loopVars, hwVars, mhVars,
                     queue, partial, pos, body, boundVars, handed>>

-----------------------------------------------------------------------------
(* Constructs *)

\* Core c enters construct k = pos[c] + 1.
Enters(c, kind) ==
  /\ pc[c] = "body"
  /\ pos[c] < Len(body)
  /\ Current(c).kind = kind
  /\ pos' = [pos EXCEPT ![c] = @ + 1]

\* A core is given the iterations in iters of construct k.
Gives(k, iters, last) ==
  handed' = [handed EXCEPT ![k] = Append(@, [iters |-> iters, last |-> last])]

\* singleStart: the block is run by the core that finds the epochs equal.
SingleStart(c) ==
  LET k == pos[c] + 1
      run == loop_epoch = core_epoch[c]
  IN  /\ Enters(c, "single")
      /\ loop_epoch' = IF run THEN loop_epoch + 1 ELSE loop_epoch
      /\ core_epoch' = [core_epoch EXCEPT ![c] = @ + 1]
      /\ IF run THEN Gives(k, {0}, FALSE) ELSE UNCHANGED handed
      /\ pc' = [pc EXCEPT ![c] = After(k)]
      /\ UNCHANGED <<numThreads, nbThreads, loopVars, hwVars, mhVars,
                     arrived, queue, partial, body, boundVars>>

\* dynLoopInitNoIter: bounds are set by the first core that finds none.
DispatchInit(c) ==
  LET k == pos[c] + 1
  IN  /\ Enters(c, "dynamic")
      /\ IF loop_epoch # core_epoch[c]
         THEN /\ core_epoch' = [core_epoch EXCEPT ![c] = @ + 1]
              /\ UNCHANGED loopVars
         ELSE /\ loop_is_setup' = TRUE
              /\ loop' = IF loop_is_setup THEN loop
                         ELSE [start |-> Construct(k).lower, end |-> Construct(k).upper,
                               chunk |-> Construct(k).chunk]
              /\ UNCHANGED core_epoch
      /\ pc' = [pc EXCEPT ![c] = "next"]
      /\ UNCHANGED <<numThreads, nbThreads, loop_epoch, hwVars, mhVars,
                     arrived, queue, partial, body, boundVars, handed>>

\* Mutant: the chunk that reaches the last iteration is held back.
ExhaustedEarly == loop.start + loop.chunk > loop.end
Exhausted == loop.start > loop.end

\* dynLoopIter: a chunk, or the news that nothing is left
DispatchNext(c) ==
  LET end == loop.start + loop.chunk - 1
  IN  /\ pc[c] = "next"
      /\ \/ /\ Exhausted
            /\ loop_is_setup' = FALSE
            /\ pc' = [pc EXCEPT ![c] = After(pos[c])]
            /\ UNCHANGED <<loop, handed>>
         \/ /\ ~Exhausted
            /\ Gives(pos[c], loop.start .. (IF end >= loop.end THEN loop.end ELSE end),
                     end >= loop.end)
            /\ loop' = [loop EXCEPT !.start = @ + loop.chunk]
            /\ UNCHANGED <<loop_is_setup, pc>>
      /\ UNCHANGED <<numThreads, nbThreads, epochVars, hwVars, mhVars,
                     arrived, queue, partial, pos, body, boundVars>>

\* __kmpc_for_static_init_4 without a chunk size: one chunk per core, the
\* first ones of them an iteration longer
StaticEven(c, s) ==
  LET size  == (s.upper - s.lower) \div s.incr + 1
      left  == size - (size \div nbThreads) * nbThreads
      chunk == (size \div nbThreads) + (IF c < left THEN 1 ELSE 0)
      lower == s.lower + c * chunk * s.incr + (IF c < left THEN 0 ELSE left)
      upper == lower + chunk * s.incr - s.incr
  IN  [lower |-> lower, upper |-> upper, stride |-> size,
       last |-> upper = s.upper /\ lower <= s.upper]

\* with one: chunks are dealt round robin
StaticChunked(c, s) ==
  LET span   == s.incr * s.chunk
      stride == span * nbThreads
      lower  == s.lower + span * c
  IN  [lower |-> lower, upper |-> lower + span - s.incr, stride |-> stride,
       last |-> ((s.upper - (s.upper % span)) - lower) % stride = 0]

\* External: the loop the compiler generates runs every chunk from lower to
\* upper, but not past the upper bound of the loop, moves both by the stride,
\* and ends when lower is past that bound; without a chunk size it runs once.
Executed(s, r) ==
  LET chunks == IF s.sched = 34 THEN {0} ELSE 0 .. s.upper
  IN  {i \in s.lower .. s.upper :
         \E j \in chunks : /\ r.lower + j * r.stride <= i
                           /\ i <= r.upper + j * r.stride
                           /\ (i - r.lower) % s.incr = 0}

\* __kmpc_for_static_init_4, the loop, and the barrier of
\* __kmpc_for_static_fini
ForStatic(c) ==
  LET k == pos[c] + 1
      s == Construct(k)
      r == IF s.sched = 33 THEN StaticChunked(c, s) ELSE StaticEven(c, s)
  IN  /\ Enters(c, "static")
      /\ Gives(k, Executed(s, r), r.last)
      /\ pc' = [pc EXCEPT ![c] = "fini"]
      /\ UNCHANGED <<numThreads, nbThreads, epochVars, loopVars, hwVars, mhVars,
                     arrived, queue, partial, body, boundVars>>

-----------------------------------------------------------------------------
\* After __rt_omp_init
Init ==
  /\ numThreads = NumCores
  /\ maxThreads = NumCores
  /\ nbThreads = NumCores
  /\ loop_epoch = 0
  /\ core_epoch = [c \in Cores |-> 0]
  /\ loop_is_setup = FALSE
  /\ loop = [start |-> 0, end |-> 0, chunk |-> 0]
  /\ bar_mask = Cores
  /\ team_mask = Cores
  /\ arrived = {}
  /\ queue = [c \in Cores |-> <<>>]
  /\ partial = FALSE
  /\ handlers = 0
  /\ sync = FALSE
  /\ pc = [c \in Cores |-> IF c = 0 THEN "mailbox" ELSE "docked"]
  /\ pos = [c \in Cores |-> 0]
  /\ body = <<>>
  /\ offloads = 0
  /\ regions = 0
  /\ full = FALSE
  /\ handed = <<>>

\* What core c does next inside a region
Step(c) ==
  \/ Wake(c)
  \/ HandlerDone(c)
  \/ TaskDone(c)
  \/ Barrier(c)
  \/ SingleStart(c)
  \/ DispatchInit(c)
  \/ DispatchNext(c)
  \/ ForStatic(c)

Next ==
  \/ \E c \in Cores : Step(c)
  \/ ForkReturn
  \/ \E n \in HandlerCounts : OffloadStart(n)
  \/ OffloadEnd
  \/ \E n \in Clauses, b \in Bodies : Fork(n, b)

Spec == Init /\ [][Next]_vars

\* Every core runs its part of a region; what the serial code does is open.
FairSpec ==
  /\ Spec
  /\ \A c \in Cores : WF_vars(Step(c))
  /\ WF_vars(ForkReturn)

-----------------------------------------------------------------------------
(* Properties *)

Parts(k) == {handed[k][i].iters : i \in DOMAIN handed[k]}
Disjoint(k) ==
  \A i, j \in DOMAIN handed[k] : i # j => handed[k][i].iters \cap handed[k][j].iters = {}

\* The threads of the region, and those among them that are done with
\* construct k
Team == IF partial THEN First(nbThreads) ELSE Cores
IsPast(c, k) == pos[c] > k \/ (pos[c] = k /\ pc[c] # "next")
Past(k) == {c \in Team : IsPast(c, k)}

\* A single block is run by exactly one thread however far the threads are
\* apart, and, as long as teams only grow (~Mixed), also in regions after a
\* team of fewer cores (omp.c:193 "Realign them in order to not disturb plain
\* teams"); the first thread to arrive runs it, so it has been started when
\* any thread is past it.
SingleOnce ==
  \A k \in DOMAIN handed :
    Construct(k).kind = "single" => /\ Len(handed[k]) <= 1
                                    /\ Past(k) # {} => Len(handed[k]) = 1

\* The threads of a team divide a static loop among them: no iteration is run
\* twice, none is left out once all threads are done, and exactly the thread
\* with the last iteration is told that it has it (lastprivate), also for
\* loops shorter than the team and for a team of fewer cores than the last.
StaticExact ==
  \A k \in DOMAIN handed :
    LET s == Construct(k)
    IN  s.kind = "static" =>
          /\ Disjoint(k)
          /\ \A i \in DOMAIN handed[k] :
               handed[k][i].last <=> s.upper \in handed[k][i].iters
          /\ Past(k) = Team => UNION Parts(k) = s.lower .. s.upper

\* No thread passes the end of a dynamic loop before each of its iterations
\* has been handed out, and none gets iterations the loop does not have,
\* although the bounds of all loops are in the same place.
NoIterationLost ==
  \A k \in DOMAIN handed :
    LET s == Construct(k)
    IN  s.kind = "dynamic" =>
          /\ UNION Parts(k) \subseteq s.lower .. s.upper
          /\ Past(k) # {} => UNION Parts(k) = s.lower .. s.upper

\* omp.h:346 "have already iterated over all the iterations(no more work)":
\* no iteration of a dynamic loop is handed out twice.
DynamicOnce ==
  \A k \in DOMAIN handed : Construct(k).kind = "dynamic" => Disjoint(k)

\* Every region ends: the barrier waits for the cores that were dispatched,
\* whatever the sizes of this team and of the last.
RegionReturns == (pc[0] = "body") ~> (pc[0] = "serial")

=============================================================================
