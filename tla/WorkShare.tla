------------------------------ MODULE WorkShare ------------------------------
(***************************************************************************)
(* Work sharing in the OpenMP runtime of the accelerator (libgomp: work.c,  *)
(* loop.c, iter.c, sections.c, single.c), compiled with OMP_NOWAIT_SUPPORT. *)
(*                                                                         *)
(* The threads of one team run the same sequence of work-sharing           *)
(* constructs.  A construct is shared through a descriptor; descriptors of *)
(* successive constructs form a list that starts at the root_ws embedded   *)
(* in the team, every thread has its own position in it (CURR_WS), and     *)
(* locks are taken hand over hand.  A descriptor goes back to a pool that  *)
(* all teams share as soon as every thread is believed to be past it.      *)
(*                                                                         *)
(* Critical sections that touch only what their lock protects are one      *)
(* step; gomp_work_share_start, which holds one lock while it waits for    *)
(* the next, is two.                                                       *)
(***************************************************************************)
EXTENDS Integers, Sequences, FiniteSets

CONSTANTS
  Threads,      \* cores of the team
  Master,       \* the core that starts and ends the parallel region
  Programs,     \* what a region may run: [combined, body]
  MaxRegions,   \* bound on the regions started
  PoolSize,     \* MAX_WS: descriptors allocated statically
  MaxWs,        \* bound on all descriptors, the ones from l1malloc included
  MaxOther,     \* bound on the descriptors other teams hold at a time
  Embedded,     \* root_ws.embedded = WS_EMBEDDED (not so for team 0)
  NoThread, NoWs

Root == 0
Idle == -1
Ws == 0 .. MaxWs

ASSUME TeamAssumption == /\ IsFiniteSet(Threads)
                         /\ Master \in Threads
                         /\ NoThread \notin Threads
ASSUME PoolAssumption == /\ PoolSize \in Nat
                         /\ MaxWs \in Nat
                         /\ PoolSize <= MaxWs
                         /\ NoWs \notin Ws

\* A loop (or sections) hands out the iterations from start to end; a single
\* has none of these fields.  nowait: no barrier follows the construct.
Constructs ==
  [kind : {"loop"}, start : Int, end : Int, incr : Int \ {0}, chunk : Nat, nowait : BOOLEAN]
    \cup [kind : {"sections"}, count : Nat, nowait : BOOLEAN]
    \cup [kind : {"single"}, nowait : BOOLEAN]
ASSUME ProgramAssumption ==
  \A p \in Programs :
    /\ p \in [combined : BOOLEAN, body : Seq(Constructs)]
    /\ p.combined => p.body # <<>> /\ p.body[1].kind # "single"

VARIABLES
  region,     \* regions started so far
  prog,       \* the program of the current region
  pc,         \* where each thread is
  pos,        \* constructs of this region each thread has entered
  curr,       \* work_share[pid] of the team: the descriptor of each thread
  new,        \* *new_ws of gomp_work_share_start
  first,      \* its return value: this thread allocated the descriptor
  lock,       \* the lock of each descriptor
  desc,       \* its other fields
  pool,       \* ws_pool_list, a linked list used as a stack
  heap,       \* descriptors allocated by gomp_malloc_ws
  other,      \* descriptors held by other teams
  arrived,    \* cores the hardware barrier of the team has seen
  serves,     \* history: the construct each descriptor serves, Idle if none
  handed      \* history: the chunks handed out for each construct

vars == <<region, prog, pc, pos, curr, new, first, lock, desc, pool, heap,
          other, arrived, serves, handed>>

nthreads == Cardinality(Threads)
NoProgram == [combined |-> FALSE, body |-> <<>>]
Construct(k) == prog.body[k]
Blank == [next |-> 0, end |-> 0, chunk |-> 0, incr |-> 0, completed |-> 0,
          next_ws |-> NoWs, prev_ws |-> NoWs]

-----------------------------------------------------------------------------
(* Iterations *)

\* A loop without iterations is given next = end.
gomp_loop_init(d, c) ==
  [d EXCEPT !.chunk = c.chunk, !.incr = c.incr, !.next = c.start,
            !.end = IF \/ c.incr > 0 /\ c.start > c.end
                       \/ c.incr < 0 /\ c.start < c.end
                    THEN c.start ELSE c.end]

gomp_sections_init(d, c) ==
  [d EXCEPT !.end = c.count + 1, !.next = 1, !.chunk = 1, !.incr = 1]

InitWs(d, c) == CASE c.kind = "loop"     -> gomp_loop_init(d, c)
                  [] c.kind = "sections" -> gomp_sections_init(d, c)
                  [] OTHER               -> d

\* The end of the next chunk: a full chunk or what is left.
ChunkEnd(d) ==
  LET chunk == d.chunk * d.incr
      left  == d.end - d.next
  IN  d.next + IF d.incr < 0
               THEN IF chunk < left THEN left ELSE chunk
               ELSE IF chunk > left THEN left ELSE chunk

\* gomp_iter_dynamic_next, also the first chunk in GOMP_loop_dynamic_start and
\* GOMP_sections_start: hands out [next, ChunkEnd) of construct k, if anything
\* is left, and says so.
Exhausted(d) == d.next = d.end
Taken(d) == IF Exhausted(d) THEN d ELSE [d EXCEPT !.next = ChunkEnd(d)]
Handing(k, d) ==
  IF Exhausted(d) THEN handed
  ELSE [handed EXCEPT ![k] = Append(@, [from |-> d.next, to |-> ChunkEnd(d)])]

-----------------------------------------------------------------------------
(* The pool of descriptors *)

\* alloc_work_share: the head of the pool, or a new one from the heap.
Allocates(w) ==
  \/ /\ pool # <<>>
     /\ w = Head(pool)
     /\ pool' = Tail(pool)
     /\ UNCHANGED heap
  \/ /\ pool = <<>>
     /\ PoolSize + heap < MaxWs
     /\ w = PoolSize + heap + 1
     /\ heap' = heap + 1
     /\ UNCHANGED pool

\* Mutant: embedded descriptors are pooled as well.
PushedAlways(w) == <<w>> \o pool

\* gomp_free_work_share: embedded descriptors are not pooled.
Pushed(w) == IF w = Root /\ Embedded THEN pool ELSE <<w>> \o pool

\* Work shares of other teams come from the same pool.
OtherAlloc ==
  /\ Cardinality(other) < MaxOther
  /\ \E w \in Ws : Allocates(w) /\ other' = other \cup {w}
  /\ UNCHANGED <<region, prog, pc, pos, curr, new, first, lock, desc, arrived,
                 handed, serves>>

OtherFree ==
  /\ \E w \in other : pool' = <<w>> \o pool /\ other' = other \ {w}
  /\ UNCHANGED <<region, prog, pc, pos, curr, new, first, lock, desc, heap,
                 arrived, handed, serves>>

-----------------------------------------------------------------------------
(* Regions *)

\* gomp_team_start by the master, gomp_loop_init of the root for a combined
\* parallel loop, and the release of the other threads.  root_ws.completed is
\* not reset.
ParallelStart ==
  /\ pc[Master] = "serial"
  /\ region < MaxRegions
  /\ region' = region + 1
  /\ \E p \in Programs :
       LET root == [desc[Root] EXCEPT !.next_ws = NoWs, !.prev_ws = NoWs]
       IN  /\ prog' = p
           /\ desc' = [desc EXCEPT ![Root] =
                         IF p.combined THEN InitWs(root, p.body[1]) ELSE root]
           /\ pos' = [t \in Threads |-> IF p.combined THEN 1 ELSE 0]
           /\ pc' = [t \in Threads |-> IF t # Master THEN "woken"
                                       ELSE IF p.combined THEN "next" ELSE "body"]
           /\ serves' = [serves EXCEPT ![Root] = IF p.combined THEN 1 ELSE 0]
           /\ handed' = [k \in 1 .. Len(p.body) |-> <<>>]
  /\ lock' = [lock EXCEPT ![Root] = NoThread]
  /\ curr' = [curr EXCEPT ![Master] = Root]
  /\ UNCHANGED <<new, first, pool, heap, other, arrived>>

\* A worker leaves the docking loop: gomp_init_thread, then the task.
InitThread(t) ==
  /\ pc[t] = "woken"
  /\ curr' = [curr EXCEPT ![t] = Root]
  /\ pc' = [pc EXCEPT ![t] = IF prog.combined THEN "next" ELSE "body"]
  /\ UNCHANGED <<region, prog, pos, new, first, lock, desc, pool, heap, other,
                 arrived, handed, serves>>

\* The task returns: the thread goes to the barrier that ends the region.
BodyDone(t) ==
  /\ pc[t] = "body"
  /\ pos[t] = Len(prog.body)
  /\ pc' = [pc EXCEPT ![t] = "exit"]
  /\ UNCHANGED <<region, prog, pos, curr, new, first, lock, desc, pool, heap,
                 other, arrived, handed, serves>>

\* The event unit releases a barrier when all cores of its mask have arrived.
Barrier(t) ==
  /\ pc[t] \in {"bar", "exit"}
  /\ LET sleep == [pc EXCEPT ![t] = IF @ = "bar" THEN "bar_wait" ELSE "exit_wait"]
     IN  IF arrived \cup {t} = Threads
         THEN /\ arrived' = {}
              /\ pc' = [u \in Threads |-> IF sleep[u] = "bar_wait" THEN "body"
                                          ELSE IF u = Master THEN "end" ELSE "docked"]
         ELSE /\ arrived' = arrived \cup {t}
              /\ pc' = sleep
  /\ UNCHANGED <<region, prog, pos, curr, new, first, lock, desc, pool, heap,
                 other, handed, serves>>

\* gomp_team_end: the master frees the descriptor it is at.  The region and its
\* history are over.
TeamEnd ==
  /\ pc[Master] = "end"
  /\ pool' = Pushed(curr[Master])
  /\ pc' = [pc EXCEPT ![Master] = "serial"]
  /\ serves' = [serves EXCEPT ![curr[Master]] = Idle]
  /\ prog' = NoProgram
  /\ pos' = [t \in Threads |-> 0]
  /\ handed' = <<>>
  /\ UNCHANGED <<region, curr, new, first, lock, desc, heap, other, arrived>>

-----------------------------------------------------------------------------
(* Constructs *)

\* Mutant: it is released before the lock of the new one is taken.
HoldingNothing(t) == lock

\* The lock of the current descriptor is held until that of the new is taken.
Holding(t) == [lock EXCEPT ![curr[t]] = t]

\* gomp_work_share_start up to the lock of the new descriptor: under the lock
\* of the current one its successor is found, or allocated and linked.
\* gomp_new_work_share also overwrites the lock of what it allocates.
WorkShareStart(t) ==
  /\ pc[t] = "body"
  /\ pos[t] < Len(prog.body)
  /\ lock[curr[t]] = NoThread
  /\ \/ /\ desc[curr[t]].next_ws # NoWs
        /\ new' = [new EXCEPT ![t] = desc[curr[t]].next_ws]
        /\ first' = [first EXCEPT ![t] = FALSE]
        /\ lock' = Holding(t)
        /\ UNCHANGED <<desc, pool, heap, serves>>
     \/ /\ desc[curr[t]].next_ws = NoWs
        /\ \E w \in Ws :
             /\ Allocates(w)
             /\ new' = [new EXCEPT ![t] = w]
             /\ desc' = [desc EXCEPT
                           ![w] = [@ EXCEPT !.completed = 0, !.next_ws = NoWs,
                                            !.prev_ws = curr[t]],
                           ![curr[t]].next_ws = w]
             /\ serves' = [serves EXCEPT ![w] = pos[t] + 1]
             /\ lock' = [Holding(t) EXCEPT ![w] = NoThread]
        /\ first' = [first EXCEPT ![t] = TRUE]
  /\ pc' = [pc EXCEPT ![t] = "start"]
  /\ UNCHANGED <<region, prog, pos, curr, other, arrived, handed>>

\* Mutant: the old lock is never released.
AdvancesLocked(t) ==
  /\ pc[t] = "start"
  /\ lock[new[t]] = NoThread
  /\ curr' = [curr EXCEPT ![t] = new[t]]
  /\ pos' = [pos EXCEPT ![t] = @ + 1]
  /\ new' = [new EXCEPT ![t] = NoWs]
  /\ first' = [first EXCEPT ![t] = FALSE]
  /\ UNCHANGED lock

\* The new lock is taken, the old one released, and CURR_WS moves on.
Advances(t) ==
  /\ pc[t] = "start"
  /\ lock[new[t]] = NoThread
  /\ lock' = [lock EXCEPT ![curr[t]] = NoThread]
  /\ curr' = [curr EXCEPT ![t] = new[t]]
  /\ pos' = [pos EXCEPT ![t] = @ + 1]
  /\ new' = [new EXCEPT ![t] = NoWs]
  /\ first' = [first EXCEPT ![t] = FALSE]

\* GOMP_loop_dynamic_start, GOMP_sections_start: the first thread initialises
\* the descriptor, every thread takes a first chunk, and the lock is released.
LoopStart(t) ==
  LET k == pos[t] + 1
      d == IF first[t] THEN InitWs(desc[new[t]], Construct(k)) ELSE desc[new[t]]
  IN  /\ Advances(t)
      /\ Construct(k).kind # "single"
      /\ desc' = [desc EXCEPT ![new[t]] = Taken(d)]
      /\ handed' = Handing(k, d)
      /\ pc' = [pc EXCEPT ![t] = IF Exhausted(d) THEN "done" ELSE "next"]
      /\ UNCHANGED <<region, prog, pool, heap, other, arrived, serves>>

\* Mutant: the predecessor is freed one thread too early.
CompletesEarly(w) ==
  LET frees == /\ desc[w].completed + 2 = nthreads
               /\ desc[w].prev_ws # NoWs
  IN  /\ desc' = [desc EXCEPT ![w].completed = @ + 1]
      /\ pool' = IF frees THEN Pushed(desc[w].prev_ws) ELSE pool
      /\ serves' = IF frees THEN [serves EXCEPT ![desc[w].prev_ws] = Idle] ELSE serves

\* gomp_work_share_end_nowait: the last thread to complete a construct frees
\* the descriptor before it.
Completes(w) ==
  LET frees == /\ desc[w].completed + 1 = nthreads
               /\ desc[w].prev_ws # NoWs
  IN  /\ desc' = [desc EXCEPT ![w].completed = @ + 1]
      /\ pool' = IF frees THEN Pushed(desc[w].prev_ws) ELSE pool
      /\ serves' = IF frees THEN [serves EXCEPT ![desc[w].prev_ws] = Idle] ELSE serves

\* GOMP_single_start: the block is run by the thread that allocated the
\* descriptor; each thread completes the construct at once.
SingleStart(t) ==
  LET k == pos[t] + 1
  IN  /\ Advances(t)
      /\ Construct(k).kind = "single"
      /\ Completes(new[t])
      /\ handed' = IF first[t] THEN [handed EXCEPT ![k] = Append(@, [from |-> 0, to |-> 1])]
                   ELSE handed
      /\ pc' = [pc EXCEPT ![t] = IF Construct(k).nowait THEN "body" ELSE "bar"]
      /\ UNCHANGED <<region, prog, heap, other, arrived>>

\* GOMP_loop_dynamic_next, GOMP_sections_next
LoopNext(t) ==
  LET d == desc[curr[t]]
  IN  /\ pc[t] = "next"
      /\ lock[curr[t]] = NoThread
      /\ desc' = [desc EXCEPT ![curr[t]] = Taken(d)]
      /\ handed' = Handing(pos[t], d)
      /\ pc' = [pc EXCEPT ![t] = IF Exhausted(d) THEN "done" ELSE "next"]
      /\ UNCHANGED <<region, prog, pos, curr, new, first, lock, pool, heap,
                     other, arrived, serves>>

\* GOMP_loop_end, GOMP_loop_end_nowait and their sections counterparts
LoopEnd(t) ==
  /\ pc[t] = "done"
  /\ lock[curr[t]] = NoThread
  /\ Completes(curr[t])
  /\ pc' = [pc EXCEPT ![t] = IF Construct(pos[t]).nowait THEN "body" ELSE "bar"]
  /\ UNCHANGED <<region, prog, pos, curr, new, first, lock, heap, other,
                 arrived, handed>>

-----------------------------------------------------------------------------
Init ==
  /\ region = 0
  /\ prog = NoProgram
  /\ pc = [t \in Threads |-> IF t = Master THEN "serial" ELSE "docked"]
  /\ pos = [t \in Threads |-> 0]
  /\ curr = [t \in Threads |-> Root]
  /\ new = [t \in Threads |-> NoWs]
  /\ first = [t \in Threads |-> FALSE]
  /\ lock = [w \in Ws |-> NoThread]
  /\ desc = [w \in Ws |-> Blank]
  \* gomp_ws_pool_init pushes the descriptors in ascending order
  /\ pool = [i \in 1 .. PoolSize |-> PoolSize + 1 - i]
  /\ heap = 0
  /\ other = {}
  /\ arrived = {}
  /\ serves = [w \in Ws |-> Idle]
  /\ handed = <<>>

\* What thread t does next
Step(t) ==
  \/ InitThread(t)
  \/ BodyDone(t)
  \/ Barrier(t)
  \/ WorkShareStart(t)
  \/ LoopStart(t)
  \/ SingleStart(t)
  \/ LoopNext(t)
  \/ LoopEnd(t)

Finished == region = MaxRegions /\ pc[Master] = "serial"

Next ==
  \/ \E t \in Threads : Step(t)
  \/ ParallelStart
  \/ TeamEnd
  \/ OtherAlloc
  \/ OtherFree

Spec == Init /\ [][Next]_vars

FairSpec ==
  /\ Spec
  /\ \A t \in Threads : WF_vars(Step(t))
  /\ WF_vars(ParallelStart)
  /\ WF_vars(TeamEnd)

-----------------------------------------------------------------------------
(* Properties *)

\* The descriptors that are neither free nor held by another team
Free == {pool[i] : i \in 1 .. Len(pool)}
Allocated == 0 .. PoolSize + heap

\* Types of all variables, as the declarations of libgomp_globals.h give them.
WsTypeOK ==
  /\ region \in 0 .. MaxRegions
  /\ pc \in [Threads -> {"serial", "docked", "woken", "body", "start", "next",
                         "done", "bar", "bar_wait", "exit", "exit_wait", "end"}]
  /\ pos \in [Threads -> 0 .. Len(prog.body)]
  /\ curr \in [Threads -> Ws]
  /\ new \in [Threads -> Ws \cup {NoWs}]
  /\ first \in [Threads -> BOOLEAN]
  /\ lock \in [Ws -> Threads \cup {NoThread}]
  /\ desc \in [Ws -> [next : Int, end : Int, chunk : Int, incr : Int,
                      completed : Nat, next_ws : Ws \cup {NoWs},
                      prev_ws : Ws \cup {NoWs}]]
  /\ pool \in Seq(Ws)
  /\ heap \in 0 .. MaxWs - PoolSize
  /\ other \subseteq Ws
  /\ arrived \subseteq Threads
  /\ serves \in [Ws -> Nat \cup {Idle}]

\* Iterations of a loop as the C source means it
Iterations(from, to, incr) ==
  {i \in (IF incr > 0 THEN from .. to - 1 ELSE to + 1 .. from) :
     (i - from) % (IF incr > 0 THEN incr ELSE -incr) = 0}
IterationsOf(c) == CASE c.kind = "loop"     -> Iterations(c.start, c.end, c.incr)
                     [] c.kind = "sections" -> 1 .. c.count
                     [] c.kind = "single"   -> {0}
StepOf(c) == IF c.kind = "loop" THEN c.incr ELSE 1
ChunkIters(k, j) == Iterations(handed[k][j].from, handed[k][j].to, StepOf(Construct(k)))

\* Thread t has been told that nothing is left of construct k.
ToldDone(t, k) == pos[t] > k \/ (pos[t] = k /\ pc[t] \notin {"next", "woken"})

\* Every iteration (section, single block) is handed out to one thread only,
\* and all have been handed out once a thread is told that the construct is
\* complete (loop.c: "called after the thread is told that all loop iterations
\* are complete"): the first thread initialises the descriptor before another
\* can take a chunk from it, and no thread takes one from a later use of it.
EachIterationOnce ==
  \A k \in DOMAIN handed :
    LET parts == {ChunkIters(k, j) : j \in DOMAIN handed[k]}
    IN  /\ \A i, j \in DOMAIN handed[k] :
             i # j => ChunkIters(k, i) \cap ChunkIters(k, j) = {}
        /\ UNION parts \subseteq IterationsOf(Construct(k))
        /\ (\E t \in Threads : ToldDone(t, k)) =>
             UNION parts = IterationsOf(Construct(k))

\* The descriptors a thread inside a region may touch
InRegion(t) == pc[t] \notin {"serial", "docked", "woken"}
Touches(t) == {curr[t]} \cup IF pc[t] = "start" THEN {new[t]} ELSE {}

\* work.c:255 "at this point no more threads point to ws->prev_ws because you
\* are sure that everyone point to ws": no thread uses or holds the lock of a
\* descriptor that is in the pool or was given to another team.
NoStaleWs ==
  /\ \A t \in Threads : InRegion(t) => Touches(t) \cap (Free \cup other) = {}
  /\ \A w \in Free \cup other : lock[w] = NoThread

\* Descriptors are pushed exactly once: the pool never holds one twice nor one
\* of another team nor the embedded root, and between regions it holds every
\* descriptor ever allocated: gomp_team_end frees the last, the completion of
\* each construct the one before it.
PoolExact ==
  /\ \A i, j \in 1 .. Len(pool) : i # j => pool[i] # pool[j]
  /\ Free \cap other = {}
  /\ Root \notin Free
  /\ pc[Master] = "serial" => Free \cup other = Allocated \ {Root}

\* Every region ends: locks taken hand over hand do not deadlock, and no
\* thread waits at a barrier for one that has left the region.
RegionsEnd == []<>(pc[Master] = "serial")

=============================================================================
