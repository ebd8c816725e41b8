-------------------------------- MODULE Team --------------------------------
(***************************************************************************)
(* Teams of the OpenMP runtime of the accelerator (libgomp: team.c,         *)
(* parallel.c, libgomp.c, libgomp_globals.h, bar-hw.h) under the offload    *)
(* manager (offload-manager.c), for an event unit of version 3.             *)
(*                                                                         *)
(* Core 0 reads offloads from the mailbox and runs them; the other cores    *)
(* dock, waiting for an event, and then run what curr_team[pid] points to:  *)
(* a team, the descriptor of the RAB miss handlers, or the exit marker.     *)
(* Any core of a team may start a nested one.  Descriptors come from a      *)
(* pool; a level 1 region that gets the last used one with enough threads   *)
(* takes a short cut (LRU hit).                                             *)
(***************************************************************************)
EXTENDS Integers, Sequences, FiniteSets

CONSTANTS
  NumCores,       \* rt_nb_pe()
  NumTeams,       \* NUM_HW_BARRIER: descriptors, each with its own barrier
  HandlerCounts,  \* numbers of RAB miss handlers the host asks for
  Varies,         \* whether that number differs between offloads
  Specified,      \* num_threads clauses, 0 when there is none
  MaxOffloads,    \* bound on the offloads
  MaxRegions,     \* bound on the parallel regions
  MaxTeams        \* bound on the descriptors in use at a time

Cores == 0 .. NumCores - 1
Workers == 1 .. NumCores - 1
Teams == 0 .. NumTeams - 1
Root == NumTeams - 1      \* the first descriptor taken from the pool
Handler == NumTeams       \* &rab_miss_handler
Exit == NumTeams + 1      \* OMP_SLAVE_EXIT

ASSUME CoresAssumption == NumCores \in Nat \ {0}
ASSUME TeamsAssumption == NumTeams \in Nat /\ NumTeams >= 2
ASSUME ChoiceAssumption == /\ HandlerCounts \subseteq Nat
                           /\ Specified \subseteq Nat

VARIABLES
  thread_pool,   \* cores marked busy
  idle_cores,    \* the number of cores not in use, handlers included
  team_pool,     \* team_pool_list, a linked list used as a stack
  lru_team,
  curr_team,     \* what each core is to run
  team,          \* the descriptors: level, parent, nthreads, cores, proc0
  arrived,       \* cores each hardware barrier has seen
  event,         \* cores with a buffered event
  pc,
  job,           \* what each core was woken to run (its local curr_team)
  sync,          \* offload_rab_miss_sync is 0xdeadbeef
  handlers,      \* nbOffloadRabMissHandlers
  offloads, regions

vars == <<thread_pool, idle_cores, team_pool, lru_team, curr_team, team,
          arrived, event, pc, job, sync, handlers, offloads, regions>>

First(n) == {p \in Cores : p < n}

\* The k lowest cores of S
Lowest(S, k) == {p \in S : Cardinality({q \in S : q < p}) < k}

-----------------------------------------------------------------------------
(* Offload manager (core 0) *)

HandlerCores(h) == {p \in Workers : p > NumCores - 1 - h}

\* A command other than PULP_STOP, the function, its arguments and the number
\* of miss handlers are read; the handlers are the cores with the highest
\* numbers.  They are taken from idle_cores but not marked in thread_pool.
OffloadStart(asked) ==
  LET h == IF asked < NumCores - 1 THEN asked ELSE NumCores - 1
  IN  /\ pc[0] = "mailbox"
      /\ offloads < MaxOffloads
      /\ Varies \/ offloads = 0 \/ h = handlers
      /\ offloads' = offloads + 1
      /\ handlers' = h
      /\ sync' = (sync /\ h = 0)
      /\ curr_team' = [p \in Cores |-> IF p \in HandlerCores(h) THEN Handler
                                       ELSE curr_team[p]]
      /\ event' = event \cup HandlerCores(h)
      /\ idle_cores' = idle_cores - h
      /\ pc' = [pc EXCEPT ![0] = "body"]
      /\ UNCHANGED <<thread_pool, team_pool, lru_team, team, arrived, job, regions>>

\* Mutant: the handlers are not told.
OffloadEndSilent ==
  /\ pc[0] = "body"
  /\ curr_team[0] = job[0]
  /\ idle_cores' = idle_cores + handlers
  /\ pc' = [pc EXCEPT ![0] = "mailbox"]
  /\ UNCHANGED <<thread_pool, team_pool, lru_team, curr_team, team, arrived,
                 event, job, sync, handlers, offloads, regions>>

\* The function returns: PULP_DONE is sent, then the handlers are told to end.
OffloadEnd ==
  /\ pc[0] = "body"
  /\ curr_team[0] = job[0]
  /\ sync' = (sync \/ handlers > 0)
  /\ idle_cores' = idle_cores + handlers
  /\ pc' = [pc EXCEPT ![0] = "mailbox"]
  /\ UNCHANGED <<thread_pool, team_pool, lru_team, curr_team, team, arrived,
                 event, job, handlers, offloads, regions>>

\* PULP_STOP: the master releases all cores to end the runtime.
Stop ==
  /\ pc[0] = "mailbox"
  /\ curr_team' = [p \in Cores |-> IF p = 0 THEN curr_team[p] ELSE Exit]
  /\ event' = event \cup Workers
  /\ pc' = [pc EXCEPT ![0] = "exit"]
  /\ UNCHANGED <<thread_pool, idle_cores, team_pool, lru_team, team, arrived,
                 job, sync, handlers, offloads, regions>>

-----------------------------------------------------------------------------
(* Regions *)

\* gomp_resolve_num_threads
NumThreads(specified) ==
  IF specified # 0 /\ specified < idle_cores + 1 THEN specified ELSE idle_cores + 1

\* Mutant: any descriptor with enough threads counts as a hit.
LruHitAnyLevel(new, level, n) == team[new].nthreads >= n
LruHit(new, level, n) ==
  /\ level = 1
  /\ lru_team = new
  /\ team[new].nthreads >= n

\* Mutant: the highest free cores are taken.
PickedHighest(n) == {p \in Workers \ thread_pool :
                       Cardinality({q \in Workers \ thread_pool : q > p}) < n - 1}

\* The scan of the thread pool on a miss: core 0 is skipped.
Picked(n) == Lowest(Workers \ thread_pool, n - 1)

\* gomp_team_start and the release of the other cores of the team.  On a hit
\* curr_team of these cores is left as it is, and so is proc_ids.
TeamStart(p, specified) ==
  LET new   == Head(team_pool)
      level == team[curr_team[p]].level + 1
      n     == NumThreads(specified)
      hit   == LruHit(new, level, n)
      cores == IF hit THEN First(n) ELSE {p} \cup Picked(n)
      proc0 == IF hit THEN team[new].proc0 ELSE p
  IN  /\ pc[p] = "body"
      /\ regions < MaxRegions
      /\ Len(team_pool) > NumTeams - MaxTeams
      /\ team_pool # <<>>                       \* gomp_assert
      /\ idle_cores' = idle_cores - (n - 1)
      /\ team_pool' = Tail(team_pool)
      /\ team' = [team EXCEPT ![new] = [level |-> level, parent |-> curr_team[p],
                                        nthreads |-> n, cores |-> cores,
                                        proc0 |-> proc0]]
      /\ thread_pool' = thread_pool \cup IF hit THEN cores ELSE Picked(n)
      /\ curr_team' = [q \in Cores |-> IF q = p \/ (~hit /\ q \in cores) THEN new
                                       ELSE curr_team[q]]
      \* The mask of the barrier is that of the team.
      /\ event' = event \cup (cores \ {proc0})
      /\ regions' = regions + 1
      /\ UNCHANGED <<lru_team, arrived, pc, job, sync, handlers, offloads>>

\* Core p triggers barrier b; the last core of its mask releases the others.
\* The event unit compares for equality.
Arrives(p, b, wait) ==
  LET here  == arrived[b] \cup {p}
      asleep == [pc EXCEPT ![p] = wait]
  IN  IF here = team[b].cores
      THEN /\ arrived' = [arrived EXCEPT ![b] = {}]
           /\ pc' = [q \in Cores |-> IF q \notin here THEN pc[q]
                                     ELSE IF asleep[q] = "master_wait" THEN "end"
                                     ELSE "docked"]
      ELSE /\ arrived' = [arrived EXCEPT ![b] = here]
           /\ pc' = asleep

\* GOMP_parallel_end: the master of the region waits for its cores.
ParallelEnd(p) ==
  /\ pc[p] = "body"
  /\ curr_team[p] # job[p]
  /\ Arrives(p, curr_team[p], "master_wait")
  /\ UNCHANGED <<thread_pool, idle_cores, team_pool, lru_team, curr_team, team,
                 event, job, sync, handlers, offloads, regions>>

\* All cores of the team but its master become free again.
Released(p) == thread_pool \ (team[curr_team[p]].cores \ {p})

\* gomp_team_end, the part under the lock
TeamEnd(p) ==
  /\ pc[p] = "end"
  /\ idle_cores' = idle_cores + (team[curr_team[p]].nthreads - 1)
  /\ thread_pool' = Released(p)
  /\ pc' = [pc EXCEPT ![p] = "free"]
  /\ UNCHANGED <<team_pool, lru_team, curr_team, team, arrived, event, job,
                 sync, handlers, offloads, regions>>

\* gomp_team_end, the rest: the descriptor becomes the last used and is freed.
TeamFree(p) ==
  LET t == curr_team[p]
  IN  /\ pc[p] = "free"
      /\ curr_team' = [curr_team EXCEPT ![p] = team[t].parent]
      /\ lru_team' = t
      /\ team_pool' = <<t>> \o team_pool
      /\ pc' = [pc EXCEPT ![p] = "body"]
      /\ UNCHANGED <<thread_pool, idle_cores, team, arrived, event, job, sync,
                     handlers, offloads, regions>>

-----------------------------------------------------------------------------
(* Workers: omp_SPMD_worker *)

\* The buffered event ends the wait and is cleared; curr_team[pid] is read.
Wake(p) ==
  /\ pc[p] = "docked"
  /\ p \in event
  /\ event' = event \ {p}
  /\ job' = [job EXCEPT ![p] = curr_team[p]]
  /\ pc' = [pc EXCEPT ![p] = CASE curr_team[p] = Exit    -> "exit"
                               [] curr_team[p] = Handler -> "handling"
                               [] OTHER                  -> "body"]
  /\ UNCHANGED <<thread_pool, idle_cores, team_pool, lru_team, curr_team, team,
                 arrived, sync, handlers, offloads, regions>>

\* Mutant: workers dock without waiting for their team.
SlaveEnterNoWait(p) ==
  /\ pc' = [pc EXCEPT ![p] = "docked"]
  /\ UNCHANGED arrived

\* MSGBarrier_hwSlaveEnter: the barrier is skipped for an identifier that is
\* not positive, which is that of the handlers, and of team 0.
SlaveEnter(p) ==
  IF job[p] \in Teams /\ job[p] > 0
  THEN Arrives(p, job[p], "slave_wait")
  ELSE /\ pc' = [pc EXCEPT ![p] = "docked"]
       /\ UNCHANGED arrived

TaskDone(p) ==
  /\ p # 0
  /\ pc[p] = "body"
  /\ curr_team[p] = job[p]
  /\ SlaveEnter(p)
  /\ UNCHANGED <<thread_pool, idle_cores, team_pool, lru_team, curr_team, team,
                 event, job, sync, handlers, offloads, regions>>

\* offload_rab_misses_handler, once it sees the end of the offload
HandlerDone(p) ==
  /\ pc[p] = "handling"
  /\ sync
  /\ SlaveEnter(p)
  /\ UNCHANGED <<thread_pool, idle_cores, team_pool, lru_team, curr_team, team,
                 event, job, sync, handlers, offloads, regions>>

-----------------------------------------------------------------------------
\* omp_initenv, gomp_master_region_start and gomp_init_lru_team, up to the
\* point where all workers have docked
Init ==
  LET warm == NumTeams - 2
  IN  /\ thread_pool = {0}
      /\ idle_cores = NumCores - 1
      /\ team_pool = [i \in 1 .. NumTeams - 1 |-> NumTeams - 1 - i]
      /\ lru_team = warm
      /\ curr_team = [p \in Cores |-> IF p = 0 THEN Root ELSE warm]
      /\ team = [t \in Teams |->
                   [level |-> 0, parent |-> t, cores |-> Cores, proc0 |-> 0,
                    nthreads |-> IF t \in {Root, warm} THEN NumCores ELSE 0]]
      /\ arrived = [t \in Teams |-> {}]
      /\ event = {}
      /\ pc = [p \in Cores |-> IF p = 0 THEN "mailbox" ELSE "docked"]
      /\ job = [p \in Cores |-> IF p = 0 THEN Root ELSE warm]
      /\ sync = FALSE
      /\ handlers = 0
      /\ offloads = 0
      /\ regions = 0

\* What core p does next once it has something to run
Step(p) ==
  \/ ParallelEnd(p)
  \/ TeamEnd(p)
  \/ TeamFree(p)
  \/ Wake(p)
  \/ TaskDone(p)
  \/ HandlerDone(p)
  \/ p = 0 /\ OffloadEnd

Next ==
  \/ \E p \in Cores : Step(p) \/ (\E n \in Specified : TeamStart(p, n))
  \/ \E n \in HandlerCounts : OffloadStart(n)
  \/ Stop

Spec == Init /\ [][Next]_vars

\* Every core runs; what the host sends is up to it.
FairSpec == Spec /\ \A p \in Cores : WF_vars(Step(p))

-----------------------------------------------------------------------------
(* Properties *)

\* Types of all variables
TeamTypeOK ==
  /\ thread_pool \subseteq Cores
  /\ idle_cores \in 0 .. NumCores - 1
  /\ team_pool \in Seq(Teams)
  /\ lru_team \in Teams
  /\ curr_team \in [Cores -> Teams \cup {Handler, Exit}]
  /\ team \in [Teams -> [level : Nat, parent : Teams, nthreads : Nat,
                         cores : SUBSET Cores, proc0 : Cores]]
  /\ arrived \in [Teams -> SUBSET Cores]
  /\ event \subseteq Cores
  /\ pc \in [Cores -> {"mailbox", "docked", "body", "handling", "master_wait",
                       "slave_wait", "end", "free", "exit"}]
  /\ job \in [Cores -> Teams \cup {Handler, Exit}]
  /\ sync \in BOOLEAN
  /\ handlers \in 0 .. NumCores - 1
  /\ offloads \in 0 .. MaxOffloads
  /\ regions \in 0 .. MaxRegions

\* The regions whose cores have not been given back yet
Pooled == {team_pool[i] : i \in 1 .. Len(team_pool)}
Ending == {curr_team[p] : p \in {q \in Cores : pc[q] = "free"}}
Running == Teams \ (Pooled \cup {Root} \cup Ending)
WorkersOf(t) == team[t].cores \ {team[t].proc0}
Busy == UNION {WorkersOf(t) : t \in Running}
Handling == IF pc[0] \in {"mailbox", "exit"} THEN {} ELSE HandlerCores(handlers)

\* A core works for one region at most and never both for a region and as a
\* miss handler, although handlers are missing from thread_pool: idle_cores,
\* which counts them, keeps the scan from the lowest core away from them.
CoresExact ==
  /\ \A s, t \in Running : s # t => WorkersOf(s) \cap WorkersOf(t) = {}
  /\ \A t \in Running : /\ team[t].proc0 \in team[t].cores
                        /\ team[t].nthreads = Cardinality(team[t].cores)
  /\ Busy \cap Handling = {}
  /\ thread_pool = {0} \cup Busy
  /\ idle_cores + Cardinality(Busy) + Cardinality(Handling) = NumCores - 1

\* The barrier that ends region t has been passed.
Passed(t) == \E p \in Cores : curr_team[p] = t /\ pc[p] = "end"

\* team.c:389 "Update local team structure pointers of all processors of the
\* team": every core of a region is running its task, or has an event and
\* finds the region in curr_team when it wakes; a core that finds anything
\* else never arrives at the barrier that ends the region.
MembersJoin ==
  \A t \in Running : \A p \in WorkersOf(t) :
    \/ Passed(t)
    \/ job[p] = t /\ pc[p] # "docked"
    \/ curr_team[p] = t /\ p \in event

\* Every offload returns to the mailbox: no master waits for a core that has
\* left its team.  After PULP_STOP every core leaves its loop, a slow miss
\* handler too (libgomp.c:139 "Release All the Threads to conclude the
\* runtime").
RuntimeProgress ==
  /\ (pc[0] = "body") ~> (pc[0] = "mailbox")
  /\ (pc[0] = "exit") ~> (\A p \in Cores : pc[p] = "exit")

=============================================================================
