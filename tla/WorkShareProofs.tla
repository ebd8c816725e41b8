-------------------------- MODULE WorkShareProofs --------------------------
(***************************************************************************)
(* Proofs about WorkShare: a descriptor is used by no thread once it is in *)
(* the pool, the pool is exact, and every iteration is handed out once.    *)
(***************************************************************************)
EXTENDS WorkShare, FiniteSetTheorems, TLAPS

\* Where a thread can be, and what a descriptor is
Places == {"serial", "docked", "woken", "body", "start", "next", "done",
           "bar", "bar_wait", "exit", "exit_wait", "end"}
Descs == [next : Int, end : Int, chunk : Int, incr : Int, completed : Nat,
          next_ws : Ws \cup {NoWs}, prev_ws : Ws \cup {NoWs}]

\* The invariant starts with the types.
Types ==
  /\ prog \in Programs \cup {NoProgram}
  /\ pc \in [Threads -> Places]
  /\ pos \in [Threads -> Nat]
  /\ curr \in [Threads -> Ws]
  /\ new \in [Threads -> Ws \cup {NoWs}]
  /\ first \in [Threads -> BOOLEAN]
  /\ lock \in [Ws -> Threads \cup {NoThread}]
  /\ desc \in [Ws -> Descs]
  /\ pool \in Seq(Ws)
  /\ heap \in 0 .. MaxWs - PoolSize
  /\ other \subseteq Ws
  /\ arrived \subseteq Threads
  /\ serves \in [Ws -> Nat \cup {Idle}]

\* The construct the root serves
Base == IF prog.combined THEN 1 ELSE 0

\* Between regions, at the end of one, or all threads run the task.
Phases ==
  /\ pc[Master] # "woken"
  /\ \/ /\ pc[Master] = "serial"
        /\ prog = NoProgram
        /\ \A t \in Threads : pos[t] = 0 /\ (t # Master => pc[t] = "docked")
     \/ /\ pc[Master] = "end"
        /\ \A t \in Threads : pos[t] = Len(prog.body) /\ (t # Master => pc[t] = "docked")
     \/ \A t \in Threads : pc[t] \notin {"serial", "docked", "end"}

\* Where a thread is says how far it is.
Spot(t) ==
  /\ pos[t] <= Len(prog.body)
  /\ pc[Master] # "serial" => pos[t] >= Base
  /\ pc[t] = "woken" => pos[t] = Base
  /\ pc[t] = "start" => pos[t] < Len(prog.body)
  /\ pc[t] \in {"exit", "exit_wait"} => pos[t] = Len(prog.body)
  /\ pc[t] \in {"bar", "bar_wait"} => pos[t] >= 1 /\ ~Construct(pos[t]).nowait
  /\ pc[t] \in {"next", "done"} => pos[t] >= 1 /\ Construct(pos[t]).kind # "single"
  /\ t \in arrived <=> pc[t] \in {"bar_wait", "exit_wait"}
Spots == \A t \in Threads : Spot(t)

\* Thread t has passed the barrier behind construct k.
Passed(t, k) ==
  pos[t] > k \/ (pos[t] = k /\ pc[t] \in {"body", "start", "exit", "exit_wait", "end", "docked"})

\* A barrier is passed by all threads or by none.
Together ==
  \A k \in 1 .. Len(prog.body) :
    ~Construct(k).nowait => \A t, u \in Threads : Passed(t, k) => Passed(u, k)

\* Thread t has called the end of construct k.
Completed(t, k) == pos[t] > k \/ (pos[t] = k /\ pc[t] \notin {"woken", "next", "done"})

\* The descriptor is in use by this team.
Live(w) == serves[w] # Idle

\* The descriptors in use serve successive constructs, one each, and are
\* linked in that order, up to the one that no thread is past.
Chain ==
  /\ pc[Master] = "serial" => \A w \in Ws : ~Live(w)
  /\ \A v, w \in Ws : Live(v) /\ serves[v] = serves[w] => v = w
  /\ \A w \in Ws : Live(w) =>
       /\ serves[w] \in Base .. Len(prog.body)
       /\ serves[w] = Base <=> w = Root
       /\ desc[w].next_ws # NoWs => serves[desc[w].next_ws] = serves[w] + 1
       /\ \A v \in Ws : Live(v) /\ serves[v] > serves[w] => desc[w].next_ws # NoWs
       /\ w = Root => desc[w].prev_ws = NoWs
       /\ w # Root => desc[w].prev_ws # NoWs

\* The count of a descriptor is exact, so the one before it is there until all
\* threads have completed it.  No descriptor is kept any longer: of the next
\* construct some thread is still to complete it.
CompletedBy(k) == {t \in Threads : Completed(t, k)}
Ends ==
  \A w \in Ws, k \in Nat :
    serves[w] = k =>
      /\ k < Len(prog.body) => \E t \in Threads : ~Completed(t, k + 1)
      /\ w # Root => /\ desc[w].completed = Cardinality(CompletedBy(k))
                     /\ (\E t \in Threads : ~Completed(t, k)) => serves[desc[w].prev_ws] = k - 1

\* Every thread is at a descriptor in use, that of its construct, and one that
\* waits is linked to the next; who allocated that is ahead of nobody.  s is
\* what the descriptors serve: a step that frees one is looked at in two
\* halves.
AtIn(s) ==
  /\ \A t \in Threads : pc[t] # "start" => ~first[t]
  /\ pc[Master] # "serial" =>
       \A t \in Threads :
         /\ pc[t] # "woken" => s[curr[t]] = pos[t]
         /\ pc[t] = "woken" => s[Root] = Base /\ pos[t] = Base
         /\ pc[t] = "start" => /\ new[t] # NoWs
                               /\ desc[curr[t]].next_ws = new[t]
                               /\ s[new[t]] = pos[t] + 1
         /\ first[t] => \A u \in Threads : pos[u] <= pos[t]
At == AtIn(serves)

\* A lock is held by a thread that is at the descriptor and waits for the next.
Locks ==
  /\ \A w \in Ws : lock[w] # NoThread => pc[lock[w]] = "start" /\ curr[lock[w]] = w
  /\ \A t \in Threads : pc[t] = "start" => lock[curr[t]] = t

\* Every descriptor allocated is in one place.
Pools ==
  /\ \A i, j \in 1 .. Len(pool) : i # j => pool[i] # pool[j]
  /\ Free \cap other = {}
  /\ \A w \in Free \cup other : w # Root /\ ~Live(w)
  /\ \A w \in Ws : w \in Allocated <=> (w = Root \/ w \in Free \/ w \in other \/ Live(w))

\* The bounds of a loop or of sections after the initialisation
StartOf(c) == IF c.kind = "loop" THEN c.start ELSE 1
EndOf(c) ==
  IF c.kind = "loop"
  THEN IF \/ c.incr > 0 /\ c.start > c.end
          \/ c.incr < 0 /\ c.start < c.end
       THEN c.start ELSE c.end
  ELSE c.count + 1

\* Iteration i comes before x.
Before(i, x, incr) == IF incr > 0 THEN i < x ELSE i > x

\* Iters, what has been handed out, is added to this below.
IInv == Types /\ Phases /\ Spots /\ Together /\ Chain /\ Ends /\ At /\ Locks /\ Pools

-----------------------------------------------------------------------------
(* Types *)

\* Programs are what ProgramAssumption says, the empty one included.
LEMMA ProgFacts ==
  ASSUME Types
  PROVE  /\ prog \in [combined : BOOLEAN, body : Seq(Constructs)]
         /\ prog.combined => Len(prog.body) >= 1 /\ prog.body[1].kind # "single"
         /\ Len(prog.body) \in Nat
         /\ \A k \in 1 .. Len(prog.body) : Construct(k) \in Constructs
<1>1. CASE prog = NoProgram
  BY <1>1 DEF NoProgram
<1>2. CASE prog \in Programs
  BY <1>2, ProgramAssumption DEF Construct
<1> QED
  BY <1>1, <1>2 DEF Types

\* The fields that a construct of each kind has.
LEMMA ConstructFacts ==
  ASSUME NEW c \in Constructs
  PROVE  /\ c.kind \in {"loop", "sections", "single"}
         /\ c.nowait \in BOOLEAN
         /\ c.kind = "loop" => c.start \in Int /\ c.end \in Int /\ c.incr \in Int \ {0} /\ c.chunk \in Nat
         /\ c.kind = "sections" => c.count \in Nat
BY DEF Constructs

\* Taking a chunk keeps the fields of a descriptor well typed and changes
\* next only.
LEMMA TakenFacts ==
  ASSUME NEW d \in Descs
  PROVE  /\ Taken(d) \in Descs
         /\ ChunkEnd(d) \in Int
         /\ Taken(d) = [d EXCEPT !.next = Taken(d).next]
<1>1. d.next \in Int /\ d.end \in Int /\ d.chunk \in Int /\ d.incr \in Int
  BY DEF Descs
<1>2. d.chunk * d.incr \in Int
  BY <1>1
<1>3. ChunkEnd(d) \in Int
  BY <1>1, <1>2 DEF ChunkEnd
<1> QED
  BY <1>3 DEF Taken, Descs

\* A descriptor with other bounds is one.
Bounded(d, x, e, c, i) == [d EXCEPT !.next = x, !.end = e, !.chunk = c, !.incr = i]

\* It has these bounds, and its links and count are kept.
LEMMA WithBounds ==
  ASSUME NEW d \in Descs, NEW x \in Int, NEW e \in Int, NEW c \in Int, NEW i \in Int
  PROVE  LET r == Bounded(d, x, e, c, i)
         IN  /\ r \in Descs
             /\ r.next = x /\ r.end = e /\ r.chunk = c /\ r.incr = i
             /\ r.next_ws = d.next_ws /\ r.prev_ws = d.prev_ws /\ r.completed = d.completed
BY DEF Descs, Bounded

\* The initialisation sets the bounds, and leaves the links and the count
\* alone.
LEMMA InitWsFacts ==
  ASSUME NEW d \in Descs, NEW c \in Constructs
  PROVE  /\ InitWs(d, c) \in Descs
         /\ InitWs(d, c).next_ws = d.next_ws
         /\ InitWs(d, c).prev_ws = d.prev_ws
         /\ InitWs(d, c).completed = d.completed
         /\ c.kind # "single" => /\ InitWs(d, c).next = StartOf(c)
                                 /\ InitWs(d, c).end = EndOf(c)
                                 /\ InitWs(d, c).incr = StepOf(c)
                                 /\ InitWs(d, c).chunk \in Nat
<1>1. CASE c.kind = "loop"
  <2>1. InitWs(d, c) = gomp_loop_init(d, c)
    BY <1>1 DEF InitWs
  <2>2. c.chunk \in Nat /\ c.incr \in Int /\ c.start \in Int /\ EndOf(c) \in Int
    BY <1>1, ConstructFacts DEF EndOf
  <2>3. gomp_loop_init(d, c) = Bounded(d, c.start, EndOf(c), c.chunk, c.incr)
    BY <1>1 DEF gomp_loop_init, EndOf, Descs, Bounded
  <2>4. StartOf(c) = c.start /\ StepOf(c) = c.incr
    BY <1>1 DEF StartOf, StepOf
  <2> QED
    BY <1>1, <2>1, <2>2, <2>3, <2>4, WithBounds
<1>2. CASE c.kind = "sections"
  <2>1. InitWs(d, c) = gomp_sections_init(d, c)
    BY <1>2 DEF InitWs
  <2>2. PICK e \in Int : e = c.count + 1
    BY <1>2, ConstructFacts
  <2>3. gomp_sections_init(d, c) = Bounded(d, 1, e, 1, 1)
    BY <2>2 DEF gomp_sections_init, Descs, Bounded
  <2>4. StartOf(c) = 1 /\ StepOf(c) = 1 /\ EndOf(c) = e
    BY <1>2, <2>2 DEF StartOf, StepOf, EndOf
  <2> QED
    BY <1>2, <2>1, <2>3, <2>4, WithBounds
<1>3. CASE c.kind = "single"
  BY <1>3 DEF InitWs
<1> QED
  BY <1>1, <1>2, <1>3, ConstructFacts

\* Descriptors of the threads, while a region is under way.
LEMMA CurrFacts ==
  ASSUME Types, At, NEW t \in Threads, pc[t] = "start", pc[Master] # "serial"
  PROVE  /\ new[t] \in Ws /\ curr[t] \in Ws
         /\ serves[curr[t]] = pos[t] /\ serves[new[t]] = pos[t] + 1
         /\ desc[curr[t]].next_ws = new[t]
<1>1. /\ new[t] # NoWs /\ serves[curr[t]] = pos[t] /\ serves[new[t]] = pos[t] + 1
      /\ desc[curr[t]].next_ws = new[t]
  BY DEF At, AtIn
<1>2. new[t] \in Ws /\ curr[t] \in Ws
  BY <1>1 DEF Types
<1> QED
  BY <1>1, <1>2

\* A thread that runs the task does so while a region is under way.
LEMMA MasterBusy ==
  ASSUME Phases, Types, NEW t \in Threads, pc[t] \notin {"serial", "docked"}
  PROVE  pc[Master] # "serial"
<1>1. Master \in Threads
  BY TeamAssumption
<1>2. CASE t = Master
  BY <1>2
<1>3. CASE t # Master
  BY <1>1, <1>3 DEF Phases
<1> QED
  BY <1>2, <1>3

\* The end of a construct counts, and changes nothing else of a descriptor.
LEMMA CompletesFacts ==
  ASSUME Types, NEW w \in Ws, Completes(w)
  PROVE  /\ desc' \in [Ws -> Descs] /\ pool' \in Seq(Ws) /\ serves' \in [Ws -> Nat \cup {Idle}]
         /\ \A v \in Ws : /\ desc'[v].next_ws = desc[v].next_ws
                          /\ desc'[v].prev_ws = desc[v].prev_ws
                          /\ desc'[v].next = desc[v].next /\ desc'[v].end = desc[v].end
                          /\ desc'[v].chunk = desc[v].chunk /\ desc'[v].incr = desc[v].incr
                          /\ desc'[v].completed =
                               IF v = w THEN desc[v].completed + 1 ELSE desc[v].completed
<1>1. desc \in [Ws -> Descs] /\ desc' = [desc EXCEPT ![w].completed = @ + 1]
  BY DEF Completes, Types
<1>2. desc[w] \in Descs /\ desc[w].completed + 1 \in Nat
  BY <1>1 DEF Descs
<1>3. [desc[w] EXCEPT !.completed = @ + 1] \in Descs
  BY <1>2 DEF Descs
<1>4. desc' = [desc EXCEPT ![w] = [desc[w] EXCEPT !.completed = @ + 1]]
  BY <1>1
<1>5. desc' \in [Ws -> Descs]
  BY <1>1, <1>3, <1>4
<1>6. \A v \in Ws : desc'[v] = IF v = w THEN [desc[w] EXCEPT !.completed = @ + 1] ELSE desc[v]
  BY <1>1, <1>4
<1>7. \A v \in Ws : /\ desc'[v].next_ws = desc[v].next_ws
                    /\ desc'[v].prev_ws = desc[v].prev_ws
                    /\ desc'[v].next = desc[v].next /\ desc'[v].end = desc[v].end
                    /\ desc'[v].chunk = desc[v].chunk /\ desc'[v].incr = desc[v].incr
                    /\ desc'[v].completed =
                         IF v = w THEN desc[v].completed + 1 ELSE desc[v].completed
  BY <1>2, <1>6 DEF Descs
<1>8. CASE desc[w].completed + 1 = nthreads /\ desc[w].prev_ws # NoWs
  <2>1. PICK p \in Ws : desc[w].prev_ws = p
    BY <1>2, <1>8 DEF Descs
  <2>2. pool' = Pushed(p) /\ serves' = [serves EXCEPT ![p] = Idle]
    BY <1>8, <2>1 DEF Completes
  <2>3. Pushed(p) \in Seq(Ws)
    BY <2>1 DEF Pushed, Types
  <2> QED
    BY <1>5, <1>7, <2>2, <2>3 DEF Types
<1>9. CASE ~(desc[w].completed + 1 = nthreads /\ desc[w].prev_ws # NoWs)
  <2>1. pool' = pool /\ serves' = serves
    BY <1>9 DEF Completes
  <2> QED
    BY <1>5, <1>7, <2>1 DEF Types
<1> QED
  BY <1>8, <1>9

\* Changing the bounds of a descriptor leaves links and counts alone.
Rebinds(w, d) ==
  /\ desc' = [desc EXCEPT ![w] = d]
  /\ d \in Descs
  /\ d.next_ws = desc[w].next_ws /\ d.prev_ws = desc[w].prev_ws
  /\ d.completed = desc[w].completed

LinksKept ==
  \A v \in Ws : /\ desc'[v].next_ws = desc[v].next_ws
                /\ desc'[v].prev_ws = desc[v].prev_ws
                /\ desc'[v].completed = desc[v].completed

\* Types, links and counts after it.
LEMMA RebindsFacts ==
  ASSUME Types, NEW w \in Ws, NEW d, Rebinds(w, d)
  PROVE  desc' \in [Ws -> Descs] /\ LinksKept
BY DEF Types, Rebinds, LinksKept

\* A thread that enters a loop sets it up if it is the first, and takes a
\* chunk.
LEMMA LoopStartBinds ==
  ASSUME Types, Phases, Spots, At, NEW t \in Threads, LoopStart(t)
  PROVE  \E d \in Descs : /\ d = IF first[t] THEN InitWs(desc[new[t]], Construct(pos[t] + 1))
                                 ELSE desc[new[t]]
                          /\ Rebinds(new[t], Taken(d))
                          /\ handed' = Handing(pos[t] + 1, d)
                          /\ pc' = [pc EXCEPT ![t] = IF Exhausted(d) THEN "done" ELSE "next"]
                          /\ Construct(pos[t] + 1) \in Constructs
                          /\ pos[t] + 1 \in 1 .. Len(prog.body)
<1>1. pc[t] = "start" /\ pc[Master] # "serial"
  BY MasterBusy DEF LoopStart, Advances
<1>2. new[t] \in Ws
  BY <1>1, CurrFacts
<1>3. pos[t] + 1 \in 1 .. Len(prog.body)
  BY <1>1, ProgFacts DEF Spots, Spot, Types
<1>4. Construct(pos[t] + 1) \in Constructs
  BY <1>3, ProgFacts
<1>5. desc[new[t]] \in Descs
  BY <1>2 DEF Types
<1>6. PICK d : d = IF first[t] THEN InitWs(desc[new[t]], Construct(pos[t] + 1))
                   ELSE desc[new[t]]
  OBVIOUS
<1>7. /\ d \in Descs /\ d.next_ws = desc[new[t]].next_ws
      /\ d.prev_ws = desc[new[t]].prev_ws /\ d.completed = desc[new[t]].completed
  BY <1>4, <1>5, <1>6, InitWsFacts
<1>8. PICK x : Taken(d) = [d EXCEPT !.next = x]
  BY <1>7, TakenFacts
<1>9. Taken(d) \in Descs /\ Taken(d).next_ws = d.next_ws
      /\ Taken(d).prev_ws = d.prev_ws /\ Taken(d).completed = d.completed
  BY <1>7, <1>8, TakenFacts DEF Descs
<1>10. /\ desc' = [desc EXCEPT ![new[t]] = Taken(d)]
       /\ handed' = Handing(pos[t] + 1, d)
       /\ pc' = [pc EXCEPT ![t] = IF Exhausted(d) THEN "done" ELSE "next"]
  BY <1>6 DEF LoopStart
<1>11. Rebinds(new[t], Taken(d))
  BY <1>7, <1>9, <1>10 DEF Rebinds
<1> QED
  BY <1>3, <1>4, <1>6, <1>7, <1>10, <1>11

\* A thread in a loop takes a chunk from its descriptor.
LEMMA LoopNextBinds ==
  ASSUME Types, NEW t \in Threads, LoopNext(t)
  PROVE  /\ desc[curr[t]] \in Descs
         /\ Rebinds(curr[t], Taken(desc[curr[t]]))
<1>1. desc[curr[t]] \in Descs
  BY DEF Types
<1> DEFINE d == desc[curr[t]]
<1>2. PICK x : Taken(d) = [d EXCEPT !.next = x]
  BY <1>1, TakenFacts
<1>3. Taken(d) \in Descs /\ Taken(d).next_ws = d.next_ws
      /\ Taken(d).prev_ws = d.prev_ws /\ Taken(d).completed = d.completed
  BY <1>1, <1>2, TakenFacts DEF Descs
<1> QED
  BY <1>1, <1>3 DEF LoopNext, Rebinds

\* alloc_work_share leaves a well-formed pool.
LEMMA AllocTypes ==
  ASSUME Types, NEW w \in Ws, Allocates(w)
  PROVE  pool' \in Seq(Ws) /\ heap' \in 0 .. MaxWs - PoolSize
<1>1. CASE pool # <<>> /\ w = Head(pool) /\ pool' = Tail(pool) /\ heap' = heap
  BY <1>1 DEF Types
<1>2. CASE pool' = pool /\ heap' = heap + 1 /\ PoolSize + heap < MaxWs
  BY <1>2, PoolAssumption DEF Types
<1> QED
  BY <1>1, <1>2 DEF Allocates

\* Every step keeps the types.
LEMMA TypesStep ==
  ASSUME Types, Phases, Spots, At, [Next]_vars
  PROVE  Types'
<1>m. Master \in Threads /\ Root \in Ws /\ Ws \subseteq Int
  BY TeamAssumption, PoolAssumption DEF Root, Ws
<1>1. ASSUME NEW t \in Threads, InitThread(t) PROVE Types'
  BY <1>1, <1>m DEF InitThread, Types, Places
<1>2. ASSUME NEW t \in Threads, BodyDone(t) PROVE Types'
  BY <1>2, <1>m DEF BodyDone, Types, Places
<1>3. ASSUME NEW t \in Threads, Barrier(t) PROVE Types'
  <2>1. pc' \in [Threads -> Places]
    <3> DEFINE sleep == [pc EXCEPT ![t] = IF @ = "bar" THEN "bar_wait" ELSE "exit_wait"]
    <3>1. sleep \in [Threads -> Places]
      BY DEF Types, Places
    <3>2. CASE arrived \cup {t} = Threads
      <4>1. pc' = [u \in Threads |-> IF sleep[u] = "bar_wait" THEN "body"
                                      ELSE IF u = Master THEN "end" ELSE "docked"]
        BY <1>3, <3>2 DEF Barrier
      <4> QED
        BY <4>1 DEF Places
    <3>3. CASE arrived \cup {t} # Threads
      BY <1>3, <3>1, <3>3 DEF Barrier
    <3> QED
      BY <3>2, <3>3
  <2>2. arrived' \subseteq Threads
    BY <1>3 DEF Barrier, Types
  <2> QED
    BY <1>3, <2>1, <2>2 DEF Barrier, Types
<1>4. ASSUME NEW t \in Threads, WorkShareStart(t) PROVE Types'
  <2>1. curr[t] \in Ws /\ desc[curr[t]] \in Descs /\ desc \in [Ws -> Descs]
    BY <1>4 DEF Types
  <2>2. Holding(t) \in [Ws -> Threads \cup {NoThread}]
    BY <2>1 DEF Types, Holding
  <2>3. CASE desc[curr[t]].next_ws # NoWs
    <3>1. /\ new' = [new EXCEPT ![t] = desc[curr[t]].next_ws]
          /\ first' = [first EXCEPT ![t] = FALSE]
          /\ lock' = Holding(t) /\ pc' = [pc EXCEPT ![t] = "start"]
          /\ UNCHANGED <<desc, pool, heap, serves>>
          /\ UNCHANGED <<region, prog, pos, curr, other, arrived, handed>>
      BY <1>4, <2>3 DEF WorkShareStart
    <3>2. desc[curr[t]].next_ws \in Ws
      BY <2>1, <2>3 DEF Descs
    <3> QED
      BY <2>2, <3>1, <3>2 DEF Types, Places
  <2>4. CASE desc[curr[t]].next_ws = NoWs
    <3>1. PICK w \in Ws :
             /\ Allocates(w)
             /\ new' = [new EXCEPT ![t] = w]
             /\ desc' = [desc EXCEPT
                           ![w] = [@ EXCEPT !.completed = 0, !.next_ws = NoWs,
                                            !.prev_ws = curr[t]],
                           ![curr[t]].next_ws = w]
             /\ serves' = [serves EXCEPT ![w] = pos[t] + 1]
             /\ lock' = [Holding(t) EXCEPT ![w] = NoThread]
      BY <1>4, <2>4 DEF WorkShareStart
    <3>2. /\ first' = [first EXCEPT ![t] = TRUE] /\ pc' = [pc EXCEPT ![t] = "start"]
          /\ UNCHANGED <<region, prog, pos, curr, other, arrived, handed>>
      BY <1>4, <2>4 DEF WorkShareStart
    <3>3. desc' \in [Ws -> Descs]
      <4>1. [desc[w] EXCEPT !.completed = 0, !.next_ws = NoWs, !.prev_ws = curr[t]] \in Descs
        BY <2>1 DEF Descs
      <4>2. PICK d1 \in [Ws -> Descs] :
              d1 = [desc EXCEPT ![w] = [@ EXCEPT !.completed = 0, !.next_ws = NoWs,
                                                 !.prev_ws = curr[t]]]
        BY <2>1, <4>1
      <4>3. [d1[curr[t]] EXCEPT !.next_ws = w] \in Descs
        <5>1. d1[curr[t]] \in Descs
          BY <2>1, <4>2
        <5> QED
          BY <5>1 DEF Descs
      <4>4. desc' = [d1 EXCEPT ![curr[t]] = [d1[curr[t]] EXCEPT !.next_ws = w]]
        BY <3>1, <4>2
      <4> QED
        BY <4>2, <4>3, <4>4
    <3>4. pool' \in Seq(Ws) /\ heap' \in 0 .. MaxWs - PoolSize
      BY <3>1, AllocTypes
    <3> QED
      <4>1. new' \in [Threads -> Ws \cup {NoWs}]
        BY <3>1 DEF Types
      <4>2. first' \in [Threads -> BOOLEAN]
        BY <3>2, Zenon DEF Types
      <4>3. lock' \in [Ws -> Threads \cup {NoThread}]
        BY <2>2, <3>1
      <4>4. serves' \in [Ws -> Nat \cup {Idle}] /\ pc' \in [Threads -> Places]
        BY <3>1, <3>2 DEF Types, Places
      <4> QED
        BY <3>2, <3>3, <3>4, <4>1, <4>2, <4>3, <4>4 DEF Types
  <2> QED
    BY <2>3, <2>4
<1>5. ASSUME NEW t \in Threads, LoopStart(t) PROVE Types'
  <2>0. pc[t] = "start" /\ pc[Master] # "serial"
    BY <1>5, MasterBusy DEF LoopStart, Advances
  <2>1. new[t] \in Ws
    BY <2>0, CurrFacts
  <2>2. desc' \in [Ws -> Descs] /\ pc' \in [Threads -> Places]
    BY <1>5, <2>1, LoopStartBinds, RebindsFacts DEF Types, Places
  <2> QED
    BY <1>5, <2>1, <2>2 DEF LoopStart, Advances, Types
<1>6. ASSUME NEW t \in Threads, SingleStart(t) PROVE Types'
  <2>0. pc[t] = "start" /\ pc[Master] # "serial"
    BY <1>6, MasterBusy DEF SingleStart, Advances
  <2>1. new[t] \in Ws
    BY <2>0, CurrFacts
  <2>2. /\ desc' \in [Ws -> Descs] /\ pool' \in Seq(Ws) /\ serves' \in [Ws -> Nat \cup {Idle}]
    BY <1>6, <2>1, CompletesFacts DEF SingleStart
  <2>3. pc' \in [Threads -> Places]
    BY <1>6 DEF SingleStart, Types, Places
  <2> QED
    <3>1. /\ lock' = [lock EXCEPT ![curr[t]] = NoThread] /\ curr' = [curr EXCEPT ![t] = new[t]]
          /\ pos' = [pos EXCEPT ![t] = @ + 1] /\ new' = [new EXCEPT ![t] = NoWs]
          /\ first' = [first EXCEPT ![t] = FALSE]
          /\ UNCHANGED <<region, prog, heap, other, arrived>>
      BY <1>6 DEF SingleStart, Advances
    <3>2. first' \in [Threads -> BOOLEAN]
      BY <3>1, Zenon DEF Types
    <3>3. lock' \in [Ws -> Threads \cup {NoThread}] /\ curr' \in [Threads -> Ws]
      BY <2>1, <3>1 DEF Types
    <3>4. pos' \in [Threads -> Nat] /\ new' \in [Threads -> Ws \cup {NoWs}]
      BY <3>1 DEF Types
    <3> QED
      BY <2>2, <2>3, <3>1, <3>2, <3>3, <3>4 DEF Types
<1>7. ASSUME NEW t \in Threads, LoopNext(t) PROVE Types'
  <2>1. desc' \in [Ws -> Descs]
    BY <1>7, LoopNextBinds, RebindsFacts DEF Types
  <2>2. pc' \in [Threads -> Places]
    BY <1>7 DEF LoopNext, Types, Places
  <2> QED
    BY <1>7, <2>1, <2>2 DEF LoopNext, Types
<1>8. ASSUME NEW t \in Threads, LoopEnd(t) PROVE Types'
  <2>1. /\ desc' \in [Ws -> Descs] /\ pool' \in Seq(Ws) /\ serves' \in [Ws -> Nat \cup {Idle}]
    BY <1>8, CompletesFacts DEF LoopEnd, Types
  <2>2. pc' \in [Threads -> Places]
    BY <1>8 DEF LoopEnd, Types, Places
  <2> QED
    BY <1>8, <2>1, <2>2 DEF LoopEnd, Types
<1>9. ASSUME ParallelStart PROVE Types'
  <2>1. PICK p \in Programs :
          LET root == [desc[Root] EXCEPT !.next_ws = NoWs, !.prev_ws = NoWs]
          IN  /\ prog' = p
              /\ desc' = [desc EXCEPT ![Root] =
                            IF p.combined THEN InitWs(root, p.body[1]) ELSE root]
              /\ pos' = [t \in Threads |-> IF p.combined THEN 1 ELSE 0]
              /\ pc' = [t \in Threads |-> IF t # Master THEN "woken"
                                          ELSE IF p.combined THEN "next" ELSE "body"]
              /\ serves' = [serves EXCEPT ![Root] = IF p.combined THEN 1 ELSE 0]
    BY <1>9 DEF ParallelStart
  <2>2. [desc[Root] EXCEPT !.next_ws = NoWs, !.prev_ws = NoWs] \in Descs
    <3>1. desc[Root] \in Descs
      BY <1>m DEF Types
    <3> QED
      BY <3>1 DEF Descs
  <2>3. p.combined => p.body[1] \in Constructs
    BY ProgramAssumption
  <2>4. desc' \in [Ws -> Descs]
    BY <2>1, <2>2, <2>3, <1>m, InitWsFacts DEF Types
  <2>5. /\ lock' = [lock EXCEPT ![Root] = NoThread] /\ curr' = [curr EXCEPT ![Master] = Root]
        /\ UNCHANGED <<new, first, pool, heap, other, arrived>>
    BY <1>9 DEF ParallelStart
  <2>6. pc' \in [Threads -> Places] /\ pos' \in [Threads -> Nat]
    BY <2>1 DEF Places
  <2>7. serves' \in [Ws -> Nat \cup {Idle}]
    BY <2>1, <1>m DEF Types
  <2> QED
    BY <2>1, <2>4, <2>5, <2>6, <2>7, <1>m DEF Types
<1>10. ASSUME TeamEnd PROVE Types'
  <2>1. curr[Master] \in Ws
    BY <1>m DEF Types
  <2>2. pool' \in Seq(Ws)
    BY <1>10, <2>1 DEF TeamEnd, Pushed, Types
  <2> QED
    BY <1>10, <1>m, <2>1, <2>2 DEF TeamEnd, Types, Places
<1>11. ASSUME OtherAlloc PROVE Types'
  <2>1. PICK w \in Ws : Allocates(w) /\ other' = other \cup {w}
    BY <1>11 DEF OtherAlloc
  <2>2. pool' \in Seq(Ws) /\ heap' \in 0 .. MaxWs - PoolSize
    BY <2>1, AllocTypes
  <2> QED
    BY <1>11, <2>1, <2>2 DEF OtherAlloc, Types
<1>12. ASSUME OtherFree PROVE Types'
  BY <1>12 DEF OtherFree, Types
<1>13. CASE UNCHANGED vars
  BY <1>13 DEF vars, Types
<1> QED
  BY <1>1, <1>2, <1>3, <1>4, <1>5, <1>6, <1>7, <1>8, <1>9, <1>10, <1>11, <1>12, <1>13
  DEF Next, Step

-----------------------------------------------------------------------------
(* Where the threads are *)

\* A step of one thread that passes no barrier others wait at.
Acts(t) ==
  /\ prog' = prog
  /\ \A u \in Threads : u # t => /\ pc'[u] = pc[u] /\ pos'[u] = pos[u]
                                 /\ u \in arrived' <=> u \in arrived
  /\ pc[t] \notin {"serial", "docked", "end"}
  /\ pc'[t] \notin {"serial", "docked", "end", "woken"}
  /\ Spot(t)'
  /\ \A k \in 1 .. Len(prog.body) : ~Construct(k).nowait => (Passed(t, k)' <=> Passed(t, k))

\* While a thread runs the task, all do.
LEMMA AllBusy ==
  ASSUME Types, Phases, NEW t \in Threads, pc[t] \notin {"serial", "docked", "end"}
  PROVE  /\ \A u \in Threads : pc[u] \notin {"serial", "docked", "end"}
         /\ pc[Master] \notin {"serial", "end", "docked", "woken"}
BY TeamAssumption DEF Phases

\* A step of one thread keeps the places in order.
LEMMA ActsPlaces ==
  ASSUME Types, Types', Phases, Spots, Together, NEW t \in Threads, Acts(t)
  PROVE  Phases' /\ Spots' /\ Together'
<1>0. /\ \A u \in Threads : pc[u] \notin {"serial", "docked", "end"}
      /\ Master \in Threads /\ pc[Master] \notin {"serial", "end", "woken"}
  BY AllBusy, TeamAssumption DEF Acts
<1>1. \A u \in Threads : pc'[u] \notin {"serial", "docked", "end"}
  BY <1>0 DEF Acts
<1>2. pc'[Master] # "woken"
  BY <1>0 DEF Acts
<1>3. Phases'
  BY <1>1, <1>2 DEF Phases
<1>4. ASSUME NEW u \in Threads PROVE Spot(u)'
  <2>1. CASE u = t
    BY <2>1 DEF Acts
  <2>2. CASE u # t
    <3>1. /\ pc'[u] = pc[u] /\ pos'[u] = pos[u] /\ (u \in arrived' <=> u \in arrived)
          /\ prog' = prog /\ pc[Master] # "serial" /\ Spot(u)
      BY <1>0, <2>2 DEF Acts, Spots
    <3> QED
      BY <3>1 DEF Spot, Base, Construct
  <2> QED
    BY <2>1, <2>2
<1>5. ASSUME NEW u \in Threads, NEW k \in 1 .. Len(prog.body), ~Construct(k).nowait
      PROVE  Passed(u, k)' <=> Passed(u, k)
  BY <1>5 DEF Acts, Passed
<1>6. prog' = prog
  BY DEF Acts
<1>7. Together'
  <2> SUFFICES ASSUME NEW k \in 1 .. Len(prog'.body), ~Construct(k)'.nowait,
                      NEW x \in Threads, NEW y \in Threads, Passed(x, k)'
               PROVE  Passed(y, k)'
    BY DEF Together
  <2>1. k \in 1 .. Len(prog.body) /\ ~Construct(k).nowait
    BY <1>6 DEF Construct
  <2>2. Passed(x, k)
    BY <1>5, <2>1
  <2>3. Passed(y, k)
    BY <2>1, <2>2 DEF Together
  <2> QED
    BY <1>5, <2>1, <2>3
<1> QED
  BY <1>3, <1>4, <1>7 DEF Spots

\* A worker that leaves the docking loop does that.
LEMMA InitThreadActs ==
  ASSUME Types, Phases, Spots, NEW t \in Threads, InitThread(t)
  PROVE  Acts(t)
<1>0. Len(prog.body) \in Nat /\ pos[t] \in Nat /\ Spot(t) /\ pc[t] = "woken" /\ t \in DOMAIN pc
  BY ProgFacts DEF Types, Spots, InitThread
<1>1. /\ pc' = [pc EXCEPT ![t] = IF prog.combined THEN "next" ELSE "body"]
      /\ UNCHANGED <<pos, prog, arrived>>
  BY DEF InitThread
<1>2. pc[Master] # "serial" /\ Master \in Threads /\ t # Master
  BY <1>0, MasterBusy, TeamAssumption DEF Phases
<1>3. pos[t] = Base /\ Base \in {0, 1} /\ (prog.combined <=> Base = 1)
  BY <1>0 DEF Spot, Base
<1>4. pc'[t] = (IF prog.combined THEN "next" ELSE "body") /\ pc'[Master] = pc[Master]
  BY <1>0, <1>1, <1>2 DEF Types
<1>5. Spot(t)'
  <2>1. prog.combined => Construct(1).kind # "single"
    BY ProgFacts DEF Construct
  <2> QED
    BY <1>0, <1>1, <1>2, <1>3, <1>4, <2>1 DEF Spot, Base, Construct
<1>6. ASSUME NEW k \in 1 .. Len(prog.body) PROVE Passed(t, k)' <=> Passed(t, k)
  BY <1>0, <1>1, <1>3, <1>4 DEF Passed
<1>7. \A u \in Threads : u # t => pc'[u] = pc[u]
  BY <1>1 DEF Types
<1> QED
  BY <1>0, <1>1, <1>4, <1>5, <1>6, <1>7 DEF Acts

\* So does one whose task returns.
LEMMA BodyDoneActs ==
  ASSUME Types, Phases, Spots, NEW t \in Threads, BodyDone(t)
  PROVE  Acts(t)
<1>0. Len(prog.body) \in Nat /\ pos[t] \in Nat /\ Spot(t) /\ pc[t] = "body" /\ pos[t] = Len(prog.body)
  BY ProgFacts DEF Types, Spots, BodyDone
<1>1. pc' = [pc EXCEPT ![t] = "exit"] /\ UNCHANGED <<pos, prog, arrived>>
  BY DEF BodyDone
<1>2. pc[Master] # "serial" /\ Master \in Threads
  BY <1>0, MasterBusy, TeamAssumption
<1>4. pc'[t] = "exit" /\ \A u \in Threads : u # t => pc'[u] = pc[u]
  BY <1>0, <1>1, <1>2 DEF Types
<1>5. Spot(t)'
  BY <1>0, <1>1, <1>2, <1>4 DEF Spot, Base
<1>6. ASSUME NEW k \in 1 .. Len(prog.body) PROVE Passed(t, k)' <=> Passed(t, k)
  BY <1>0, <1>1, <1>4 DEF Passed
<1> QED
  BY <1>0, <1>1, <1>4, <1>5, <1>6 DEF Acts

\* So does one that looks for the next descriptor.
LEMMA StartActs ==
  ASSUME Types, Phases, Spots, NEW t \in Threads, WorkShareStart(t)
  PROVE  Acts(t)
<1>0. Len(prog.body) \in Nat /\ pos[t] \in Nat /\ Spot(t) /\ pc[t] = "body" /\ pos[t] < Len(prog.body)
  BY ProgFacts DEF Types, Spots, WorkShareStart
<1>1. pc' = [pc EXCEPT ![t] = "start"] /\ UNCHANGED <<pos, prog, arrived>>
  BY DEF WorkShareStart
<1>2. pc[Master] # "serial" /\ Master \in Threads
  BY <1>0, MasterBusy, TeamAssumption
<1>4. pc'[t] = "start" /\ \A u \in Threads : u # t => pc'[u] = pc[u]
  BY <1>0, <1>1, <1>2 DEF Types
<1>5. Spot(t)'
  BY <1>0, <1>1, <1>2, <1>4 DEF Spot, Base
<1>6. ASSUME NEW k \in 1 .. Len(prog.body) PROVE Passed(t, k)' <=> Passed(t, k)
  BY <1>0, <1>1, <1>4 DEF Passed
<1> QED
  BY <1>0, <1>1, <1>4, <1>5, <1>6 DEF Acts

\* A thread that enters construct k = pos[t] + 1.
EnterActs(t, l) ==
  /\ pc[t] = "start" /\ pos' = [pos EXCEPT ![t] = @ + 1] /\ pc' = [pc EXCEPT ![t] = l]
  /\ UNCHANGED <<prog, arrived>>
  /\ LET c == Construct(pos[t] + 1)
     IN  \/ l \in {"next", "done"} /\ c.kind # "single"
         \/ l = "body" /\ c.nowait
         \/ l = "bar" /\ ~c.nowait

\* A thread that enters a construct, and goes to a place that fits its kind,
\* steps on.
LEMMA EnterIsAct ==
  ASSUME Types, Phases, Spots, NEW t \in Threads, NEW l, EnterActs(t, l)
  PROVE  Acts(t)
<1>0. /\ Len(prog.body) \in Nat /\ pos[t] \in Nat /\ Spot(t) /\ pc[t] = "start"
      /\ pos[t] < Len(prog.body)
  BY ProgFacts DEF Types, Spots, Spot, EnterActs
<1>1. PICK k \in 1 .. Len(prog.body) : k = pos[t] + 1
  BY <1>0
<1>2. pc[Master] # "serial" /\ Master \in Threads
  BY <1>0, MasterBusy, TeamAssumption
<1>3. /\ pc'[t] = l /\ pos'[t] = k /\ UNCHANGED <<prog, arrived>>
      /\ \/ l \in {"next", "done"} /\ Construct(k).kind # "single"
         \/ l = "body" /\ Construct(k).nowait
         \/ l = "bar" /\ ~Construct(k).nowait
  BY <1>1 DEF EnterActs, Types
<1>4. \A u \in Threads : u # t => pc'[u] = pc[u] /\ pos'[u] = pos[u]
  BY DEF EnterActs, Types
<1>5. Spot(t)'
  <2>1. Base \in {0, 1} /\ pos[t] >= Base
    BY <1>0, <1>2 DEF Spot, Base
  <2>2. l \in {"next", "done", "body", "bar"}
    BY <1>3
  <2> QED
    BY <1>0, <1>1, <1>2, <1>3, <1>4, <2>1, <2>2 DEF Spot, Base, Construct
<1>6. ASSUME NEW j \in 1 .. Len(prog.body), ~Construct(j).nowait PROVE Passed(t, j)' <=> Passed(t, j)
  <2>1. j \in Nat
    OBVIOUS
  <2>2. CASE j = k
    BY <1>0, <1>1, <1>3, <1>6, <2>2 DEF Passed
  <2>3. CASE j # k
    BY <1>0, <1>1, <1>3, <2>1, <2>3 DEF Passed
  <2> QED
    BY <2>2, <2>3
<1>7. l \notin {"serial", "docked", "end", "woken"}
  BY <1>3
<1> QED
  BY <1>0, <1>3, <1>4, <1>5, <1>6, <1>7 DEF Acts

\* This is so for a loop ...
LEMMA LoopStartActs ==
  ASSUME Types, Phases, Spots, At, NEW t \in Threads, LoopStart(t)
  PROVE  Acts(t) /\ \E l \in {"next", "done"} : EnterActs(t, l)
<1>1. PICK l \in {"next", "done"} : pc' = [pc EXCEPT ![t] = l]
  BY LoopStartBinds
<1>2. EnterActs(t, l)
  BY <1>1 DEF LoopStart, Advances, EnterActs
<1> QED
  BY <1>2, EnterIsAct

\* ... and for a single.
LEMMA SingleStartActs ==
  ASSUME Types, Phases, Spots, NEW t \in Threads, SingleStart(t)
  PROVE  Acts(t) /\ \E l \in {"body", "bar"} : EnterActs(t, l)
<1>1. PICK l : l = IF Construct(pos[t] + 1).nowait THEN "body" ELSE "bar"
  OBVIOUS
<1>2. EnterActs(t, l)
  BY <1>1 DEF SingleStart, Advances, EnterActs
<1> QED
  BY <1>1, <1>2, EnterIsAct

\* A thread that takes a chunk stays where it is or is told of the end.
LEMMA LoopNextActs ==
  ASSUME Types, Phases, Spots, NEW t \in Threads, LoopNext(t)
  PROVE  Acts(t)
<1>0. Len(prog.body) \in Nat /\ pos[t] \in Nat /\ Spot(t) /\ pc[t] = "next"
  BY ProgFacts DEF Types, Spots, LoopNext
<1>1. PICK l \in {"next", "done"} : pc' = [pc EXCEPT ![t] = l] /\ UNCHANGED <<pos, prog, arrived>>
  BY DEF LoopNext
<1>2. pc[Master] # "serial" /\ Master \in Threads
  BY <1>0, MasterBusy, TeamAssumption
<1>4. pc'[t] = l /\ \A u \in Threads : u # t => pc'[u] = pc[u]
  BY <1>0, <1>1, <1>2 DEF Types
<1>5. Spot(t)'
  BY <1>0, <1>1, <1>2, <1>4 DEF Spot, Base, Construct
<1>6. ASSUME NEW k \in 1 .. Len(prog.body) PROVE Passed(t, k)' <=> Passed(t, k)
  BY <1>0, <1>1, <1>4 DEF Passed
<1> QED
  BY <1>0, <1>1, <1>4, <1>5, <1>6 DEF Acts

\* A thread that ends a loop goes on or to the barrier.
LEMMA LoopEndActs ==
  ASSUME Types, Phases, Spots, NEW t \in Threads, LoopEnd(t)
  PROVE  Acts(t)
<1>0. Len(prog.body) \in Nat /\ pos[t] \in Nat /\ Spot(t) /\ pc[t] = "done"
  BY ProgFacts DEF Types, Spots, LoopEnd
<1>1. PICK l : /\ l = IF Construct(pos[t]).nowait THEN "body" ELSE "bar"
               /\ pc' = [pc EXCEPT ![t] = l] /\ UNCHANGED <<pos, prog, arrived>>
  BY DEF LoopEnd
<1>2. pc[Master] # "serial" /\ Master \in Threads
  BY <1>0, MasterBusy, TeamAssumption
<1>4. pc'[t] = l /\ l \in {"body", "bar"} /\ \A u \in Threads : u # t => pc'[u] = pc[u]
  BY <1>0, <1>1, <1>2 DEF Types
<1>5. Spot(t)'
  BY <1>0, <1>1, <1>2, <1>4 DEF Spot, Base, Construct
<1>6. ASSUME NEW k \in 1 .. Len(prog.body), ~Construct(k).nowait PROVE Passed(t, k)' <=> Passed(t, k)
  BY <1>0, <1>1, <1>4, <1>6 DEF Passed
<1> QED
  BY <1>0, <1>1, <1>4, <1>5, <1>6 DEF Acts

\* A thread that arrives at a barrier before others does.
LEMMA ArriveActs ==
  ASSUME Types, Phases, Spots, NEW t \in Threads, Barrier(t), arrived \cup {t} # Threads
  PROVE  Acts(t)
<1>0. Len(prog.body) \in Nat /\ pos[t] \in Nat /\ Spot(t) /\ pc[t] \in {"bar", "exit"}
  BY ProgFacts DEF Types, Spots, Barrier
<1>1. PICK l : /\ l = IF pc[t] = "bar" THEN "bar_wait" ELSE "exit_wait"
               /\ pc' = [pc EXCEPT ![t] = l] /\ UNCHANGED <<pos, prog>>
               /\ arrived' = arrived \cup {t}
  BY DEF Barrier, Types
<1>2. pc[Master] # "serial" /\ Master \in Threads
  BY <1>0, MasterBusy, TeamAssumption
<1>4. pc'[t] = l /\ \A u \in Threads : u # t => pc'[u] = pc[u]
  BY <1>0, <1>1, <1>2 DEF Types
<1>5. Spot(t)'
  BY <1>0, <1>1, <1>2, <1>4 DEF Spot, Base, Construct
<1>6. ASSUME NEW k \in 1 .. Len(prog.body) PROVE Passed(t, k)' <=> Passed(t, k)
  BY <1>0, <1>1, <1>4 DEF Passed
<1> QED
  BY <1>0, <1>1, <1>4, <1>5, <1>6 DEF Acts

\* The last thread to arrive finds all others at the same barrier.
LEMMA SameBarrier ==
  ASSUME Types, Phases, Spots, Together, NEW t \in Threads, Barrier(t),
         arrived \cup {t} = Threads
  PROVE  /\ UNCHANGED <<pos, prog>> /\ arrived' = {} /\ pc[Master] # "serial"
         /\ \/ /\ \A u \in Threads : pc[u] \in {"bar", "bar_wait"} /\ pos[u] = pos[t]
               /\ pc' = [u \in Threads |-> "body"]
            \/ /\ \A u \in Threads : pc[u] \in {"exit", "exit_wait"} /\ pos[u] = Len(prog.body)
               /\ pc' = [u \in Threads |-> IF u = Master THEN "end" ELSE "docked"]
<1> DEFINE sleep == [pc EXCEPT ![t] = IF @ = "bar" THEN "bar_wait" ELSE "exit_wait"]
<1>0. /\ UNCHANGED <<pos, prog>> /\ arrived' = {} /\ pc[t] \in {"bar", "exit"}
      /\ pc' = [u \in Threads |-> IF sleep[u] = "bar_wait" THEN "body"
                                   ELSE IF u = Master THEN "end" ELSE "docked"]
  BY DEF Barrier
<1>1. pc[Master] # "serial"
  BY <1>0, MasterBusy
<1>2. /\ Len(prog.body) \in Nat /\ \A u \in Threads : Spot(u) /\ pos[u] \in Nat
  BY ProgFacts DEF Spots, Types
<1>3. ASSUME NEW u \in Threads PROVE pc[u] \in {"bar", "bar_wait", "exit", "exit_wait"}
  BY <1>0, <1>2 DEF Spot
<1>4. ASSUME NEW u \in Threads PROVE sleep[u] = "bar_wait" <=> pc[u] \in {"bar", "bar_wait"}
  <2>1. pc \in [Threads -> Places]
    BY DEF Types
  <2>2. CASE u = t
    <3>1. sleep[u] = IF pc[t] = "bar" THEN "bar_wait" ELSE "exit_wait"
      BY <2>1, <2>2
    <3> QED
      BY <1>0, <2>2, <3>1
  <2>3. CASE u # t
    <3>1. sleep[u] = pc[u]
      BY <2>1, <2>3
    <3>2. u \in arrived
      BY <2>3
    <3>3. pc[u] \in {"bar_wait", "exit_wait"}
      BY <1>2, <3>2 DEF Spot
    <3> QED
      BY <3>1, <3>3
  <2> QED
    BY <2>2, <2>3
<1> HIDE DEF sleep
<1>5. ASSUME NEW u \in Threads, pc[u] \in {"bar", "bar_wait"}, NEW v \in Threads
      PROVE  pc[v] \in {"bar", "bar_wait"} /\ pos[v] = pos[u]
  <2>1. pos[u] >= 1 /\ ~Construct(pos[u]).nowait /\ pos[u] <= Len(prog.body)
    BY <1>2, <1>5 DEF Spot
  <2>2. PICK k \in 1 .. Len(prog.body) : k = pos[u]
    BY <1>2, <2>1
  <2>3. ~Passed(u, k)
    BY <1>2, <1>5, <2>2 DEF Passed
  <2>4. ~Passed(v, k)
    BY <2>1, <2>2, <2>3 DEF Together
  <2>5. pos[v] <= k /\ (pos[v] = k => pc[v] \in {"bar", "bar_wait"})
    BY <1>2, <1>3, <2>2, <2>4 DEF Passed
  <2>6. pc[v] \in {"bar", "bar_wait"}
    BY <1>2, <1>3, <2>1, <2>2, <2>5 DEF Spot
  <2>7. pos[v] >= 1 /\ ~Construct(pos[v]).nowait
    BY <1>2, <2>6 DEF Spot
  <2>8. PICK j \in 1 .. Len(prog.body) : j = pos[v]
    BY <1>2, <2>5, <2>7
  <2>9. ~Passed(v, j)
    BY <1>2, <2>6, <2>8 DEF Passed
  <2>10. ~Passed(u, j)
    BY <2>7, <2>8, <2>9 DEF Together
  <2>11. pos[u] <= j
    BY <1>2, <2>8, <2>10 DEF Passed
  <2> QED
    BY <1>2, <2>2, <2>5, <2>6, <2>8, <2>11
<1>6. CASE pc[t] = "bar"
  <2>1. \A u \in Threads : pc[u] \in {"bar", "bar_wait"} /\ pos[u] = pos[t]
    BY <1>5, <1>6
  <2>3. \A u \in Threads : sleep[u] = "bar_wait"
    BY <1>4, <2>1
  <2>2. pc' = [u \in Threads |-> "body"]
    BY <1>0, <2>3
  <2> QED
    BY <1>0, <1>1, <2>1, <2>2
<1>7. CASE pc[t] = "exit"
  <2>1. \A u \in Threads : pc[u] \in {"exit", "exit_wait"}
    BY <1>3, <1>5, <1>7
  <2>2. \A u \in Threads : pos[u] = Len(prog.body)
    BY <1>2, <2>1 DEF Spot
  <2>3. \A u \in Threads : sleep[u] # "bar_wait"
    BY <1>4, <2>1
  <2>4. pc' = [u \in Threads |-> IF u = Master THEN "end" ELSE "docked"]
    BY <1>0, <2>3
  <2> QED
    BY <1>0, <1>1, <2>1, <2>2, <2>4
<1> QED
  BY <1>0, <1>6, <1>7

\* The release of a barrier keeps the places in order.
LEMMA ReleasePlaces ==
  ASSUME Types, Types', Phases, Spots, Together, NEW t \in Threads, Barrier(t),
         arrived \cup {t} = Threads
  PROVE  Phases' /\ Spots' /\ Together'
<1>0. /\ Len(prog.body) \in Nat /\ Master \in Threads
      /\ \A u \in Threads : Spot(u) /\ pos[u] \in Nat /\ pos[u] <= Len(prog.body)
  BY ProgFacts, TeamAssumption DEF Spots, Spot, Types
<1>1. UNCHANGED <<pos, prog>> /\ arrived' = {} /\ pc[Master] # "serial"
  BY SameBarrier
<1>2. CASE /\ \A u \in Threads : pc[u] \in {"bar", "bar_wait"} /\ pos[u] = pos[t]
           /\ pc' = [u \in Threads |-> "body"]
  <2>1. Phases'
    BY <1>0, <1>2 DEF Phases
  <2>2. Spots'
    BY <1>0, <1>1, <1>2 DEF Spots, Spot, Base
  <2>3. ASSUME NEW k \in 1 .. Len(prog.body), NEW x \in Threads, NEW y \in Threads, Passed(x, k)'
        PROVE  Passed(y, k)'
    BY <1>0, <1>1, <1>2, <2>3 DEF Passed
  <2>4. Together'
    BY <1>1, <2>3 DEF Together, Construct
  <2> QED
    BY <2>1, <2>2, <2>4
<1>3. CASE /\ \A u \in Threads : pc[u] \in {"exit", "exit_wait"} /\ pos[u] = Len(prog.body)
           /\ pc' = [u \in Threads |-> IF u = Master THEN "end" ELSE "docked"]
  <2>1. Phases'
    BY <1>0, <1>1, <1>3 DEF Phases
  <2>2. Spots'
    <3>1. ASSUME NEW u \in Threads PROVE Spot(u)'
      <4>1. pc'[u] \in {"end", "docked"}
        BY <1>3
      <4> QED
        BY <1>0, <1>1, <4>1 DEF Spot, Base
    <3> QED
      BY <3>1 DEF Spots
  <2>3. ASSUME NEW k \in 1 .. Len(prog.body), NEW y \in Threads
        PROVE  Passed(y, k)'
    <3>1. pos'[y] >= k /\ pc'[y] \in {"end", "docked"} /\ pos'[y] \in Nat
      BY <1>0, <1>1, <1>3
    <3> QED
      BY <3>1 DEF Passed
  <2>4. Together'
    BY <1>1, <2>3 DEF Together, Construct
  <2> QED
    BY <2>1, <2>2, <2>4
<1> QED
  BY <1>2, <1>3, SameBarrier

\* The places after every step.
LEMMA PlacesStep ==
  ASSUME Types, Types', Phases, Spots, Together, At, [Next]_vars
  PROVE  Phases' /\ Spots' /\ Together'
<1>m. Master \in Threads
  BY TeamAssumption
<1>1. ASSUME NEW t \in Threads, Acts(t) PROVE Phases' /\ Spots' /\ Together'
  BY <1>1, ActsPlaces
<1>2. ASSUME NEW t \in Threads, Step(t) PROVE Phases' /\ Spots' /\ Together'
  <2>1. CASE Barrier(t) /\ arrived \cup {t} = Threads
    BY <1>2, <2>1, ReleasePlaces
  <2>2. CASE ~(Barrier(t) /\ arrived \cup {t} = Threads)
    BY <1>1, <1>2, <2>2, InitThreadActs, BodyDoneActs, StartActs, LoopStartActs,
       SingleStartActs, LoopNextActs, LoopEndActs, ArriveActs DEF Step
  <2> QED
    BY <2>1, <2>2
<1>3. ASSUME ParallelStart PROVE Phases' /\ Spots' /\ Together'
  <2>1. PICK p \in Programs :
          /\ prog' = p
          /\ pos' = [t \in Threads |-> IF p.combined THEN 1 ELSE 0]
          /\ pc' = [t \in Threads |-> IF t # Master THEN "woken"
                                      ELSE IF p.combined THEN "next" ELSE "body"]
          /\ arrived' = arrived
    BY <1>3 DEF ParallelStart
  <2>2. /\ p.combined \in BOOLEAN /\ Len(p.body) \in Nat
        /\ p.combined => Len(p.body) >= 1 /\ p.body[1].kind # "single"
    BY ProgramAssumption
  <2>3. pc[Master] = "serial"
    BY <1>3 DEF ParallelStart
  <2>4. \A t \in Threads : t \notin arrived
    <3>1. \A t \in Threads : pc[t] \in {"serial", "docked"}
      BY <1>m, <2>3 DEF Phases
    <3> QED
      BY <3>1 DEF Spots, Spot
  <2>5. \A t \in Threads : pc'[t] \notin {"serial", "docked", "end"}
    BY <2>1, <2>2
  <2>6. pc'[Master] # "woken"
    BY <1>m, <2>1, <2>2
  <2>7. Phases'
    BY <2>5, <2>6 DEF Phases
  <2>8. ASSUME NEW t \in Threads PROVE Spot(t)'
    <3>1. /\ pos'[t] = Base' /\ Base' = (IF p.combined THEN 1 ELSE 0)
          /\ pc'[t] \in {"woken", "next", "body"} /\ (pc'[t] = "next" => p.combined)
      BY <2>1, <2>2 DEF Base
    <3>2. t \notin arrived'
      BY <2>1, <2>4
    <3> QED
      BY <2>1, <2>2, <3>1, <3>2 DEF Spot, Construct
  <2>9. ASSUME NEW k \in 1 .. Len(p.body), NEW t \in Threads PROVE ~Passed(t, k)'
    BY <2>1, <2>2 DEF Passed
  <2>10. Together'
    BY <2>1, <2>9 DEF Together
  <2> QED
    BY <2>7, <2>8, <2>10 DEF Spots
<1>4. ASSUME TeamEnd PROVE Phases' /\ Spots' /\ Together'
  <2>1. /\ pc[Master] = "end" /\ pc' = [pc EXCEPT ![Master] = "serial"] /\ prog' = NoProgram
        /\ pos' = [t \in Threads |-> 0] /\ arrived' = arrived
    BY <1>4 DEF TeamEnd
  <2>2. \A t \in Threads : t # Master => pc[t] = "docked"
    BY <1>m, <2>1 DEF Phases
  <2>3. pc'[Master] = "serial" /\ \A t \in Threads : t # Master => pc'[t] = "docked"
    BY <1>m, <2>1, <2>2 DEF Types
  <2>4. Phases'
    BY <2>1, <2>3 DEF Phases
  <2>5. prog'.body = <<>> /\ Len(prog'.body) = 0
    BY <2>1 DEF NoProgram
  <2>6. ASSUME NEW t \in Threads PROVE Spot(t)'
    <3>1. t \notin arrived /\ pc'[t] \in {"serial", "docked"}
      BY <2>1, <2>2, <2>3 DEF Spots, Spot
    <3> QED
      BY <2>1, <2>3, <2>5, <3>1 DEF Spot
  <2>7. Together'
    BY <2>5 DEF Together
  <2> QED
    BY <2>4, <2>6, <2>7 DEF Spots
<1>5. ASSUME UNCHANGED <<pc, pos, prog, arrived>> PROVE Phases' /\ Spots' /\ Together'
  <2>1. Phases'
    BY <1>5 DEF Phases
  <2>2. Spots'
    BY <1>5 DEF Spots, Spot, Base, Construct
  <2>3. Together'
    BY <1>5 DEF Together, Passed, Construct
  <2> QED
    BY <2>1, <2>2, <2>3
<1>6. ASSUME OtherAlloc \/ OtherFree \/ UNCHANGED vars PROVE UNCHANGED <<pc, pos, prog, arrived>>
  BY <1>6 DEF OtherAlloc, OtherFree, vars
<1> QED
  BY <1>2, <1>3, <1>4, <1>5, <1>6 DEF Next

-----------------------------------------------------------------------------
(* The pool *)

Distinct == \A i, j \in 1 .. Len(pool) : i # j => pool[i] # pool[j]

\* A push adds one descriptor in front.
LEMMA PushFacts ==
  ASSUME Types, Distinct, NEW w \in Ws, w \notin Free, pool' = <<w>> \o pool
  PROVE  Distinct' /\ \A v : v \in Free' <=> v = w \/ v \in Free
<1>1. pool \in Seq(Ws) /\ Len(pool) \in Nat
  BY DEF Types
<1>2. Len(pool') = Len(pool) + 1 /\ pool'[1] = w
  BY <1>1
<1>3. \A i \in 1 .. Len(pool) : pool'[i + 1] = pool[i]
  BY <1>1
<1>4. \A i \in 2 .. Len(pool') : i - 1 \in 1 .. Len(pool) /\ pool'[i] = pool[i - 1]
  BY <1>1, <1>2
<1>5. \A i \in 1 .. Len(pool) : pool[i] # w /\ pool[i] \in Free
  BY DEF Free
<1>6. Distinct'
  <2> SUFFICES ASSUME NEW i \in 1 .. Len(pool'), NEW j \in 1 .. Len(pool'), i < j
               PROVE  pool'[i] # pool'[j]
    BY <1>1, <1>2 DEF Distinct
  <2>1. j \in 2 .. Len(pool')
    BY <1>1, <1>2
  <2>2. CASE i = 1
    BY <1>2, <1>4, <1>5, <2>1, <2>2
  <2>3. CASE i # 1
    <3>1. i \in 2 .. Len(pool') /\ i - 1 # j - 1
      BY <1>1, <1>2, <2>3
    <3> QED
      BY <1>4, <2>1, <3>1 DEF Distinct
  <2> QED
    BY <2>2, <2>3
<1>7. ASSUME NEW v, v \in Free' PROVE v = w \/ v \in Free
  <2>1. PICK i \in 1 .. Len(pool') : v = pool'[i]
    BY <1>7 DEF Free
  <2>2. CASE i = 1
    BY <1>2, <2>1, <2>2
  <2>3. CASE i # 1
    <3>1. i \in 2 .. Len(pool')
      BY <1>1, <1>2, <2>3
    <3> QED
      BY <1>4, <1>5, <2>1, <3>1
  <2> QED
    BY <2>2, <2>3
<1>8. ASSUME NEW v, v \in Free PROVE v \in Free'
  <2>1. PICK i \in 1 .. Len(pool) : v = pool[i]
    BY <1>8 DEF Free
  <2>2. i + 1 \in 1 .. Len(pool') /\ pool'[i + 1] = v
    BY <1>1, <1>2, <1>3, <2>1
  <2> QED
    BY <2>2 DEF Free
<1>9. w \in Free'
  <2>1. 1 \in 1 .. Len(pool')
    BY <1>1, <1>2
  <2> QED
    BY <1>2, <2>1 DEF Free
<1> QED
  BY <1>6, <1>7, <1>8, <1>9

\* alloc_work_share gives a descriptor that nobody has, and takes it from the
\* pool or adds it to those allocated.
LEMMA AllocFacts ==
  ASSUME Types, Pools, NEW w \in Ws, Allocates(w)
  PROVE  /\ w # Root /\ w \notin other /\ ~Live(w)
         /\ Distinct'
         /\ \A v : v \in Free' <=> v \in Free /\ v # w
         /\ \A v \in Ws : v \in Allocated' <=> v \in Allocated \/ v = w
<1>1. /\ pool \in Seq(Ws) /\ Len(pool) \in Nat /\ heap \in Nat /\ PoolSize \in Nat
      /\ PoolSize <= MaxWs /\ MaxWs \in Nat /\ Ws \subseteq Int
  BY PoolAssumption DEF Types, Ws
<1>2. CASE pool # <<>> /\ w = Head(pool) /\ pool' = Tail(pool) /\ heap' = heap
  <2>1. Len(pool) >= 1 /\ w = pool[1]
    BY <1>1, <1>2
  <2>2. /\ Len(pool') = Len(pool) - 1 /\ \A i \in 1 .. Len(pool') : pool'[i] = pool[i + 1]
    BY <1>1, <1>2
  <2>3. w \in Free
    BY <1>1, <2>1 DEF Free
  <2>4. w # Root /\ w \notin other /\ ~Live(w)
    BY <2>3 DEF Pools
  <2>5. \A i \in 1 .. Len(pool') : i + 1 \in 1 .. Len(pool) /\ i + 1 # 1 /\ i \in Nat
    BY <1>1, <2>1, <2>2
  <2>6. Distinct'
    <3> SUFFICES ASSUME NEW i \in 1 .. Len(pool'), NEW j \in 1 .. Len(pool'), i # j
                 PROVE  pool'[i] # pool'[j]
      BY DEF Distinct
    <3>1. i + 1 # j + 1
      BY <2>5
    <3> QED
      BY <2>2, <2>5, <3>1 DEF Pools
  <2>7. ASSUME NEW v, v \in Free' PROVE v \in Free /\ v # w
    <3>1. PICK i \in 1 .. Len(pool') : v = pool'[i]
      BY <2>7 DEF Free
    <3>2. v = pool[i + 1] /\ i + 1 \in 1 .. Len(pool) /\ i + 1 # 1 /\ 1 \in 1 .. Len(pool)
      BY <1>1, <2>1, <2>2, <2>5, <3>1
    <3>3. v # pool[1]
      BY <3>2 DEF Pools
    <3> QED
      BY <2>1, <3>2, <3>3 DEF Free
  <2>8. ASSUME NEW v, v \in Free, v # w PROVE v \in Free'
    <3>1. PICK i \in 1 .. Len(pool) : v = pool[i]
      BY <2>8 DEF Free
    <3>2. i # 1
      BY <2>1, <2>8, <3>1
    <3>3. i - 1 \in 1 .. Len(pool')
      BY <1>1, <2>2, <3>2
    <3>4. pool'[i - 1] = pool[(i - 1) + 1]
      BY <2>2, <3>3
    <3>5. (i - 1) + 1 = i
      BY <3>1
    <3> QED
      BY <3>1, <3>3, <3>4, <3>5 DEF Free
  <2>9. \A v \in Ws : v \in Allocated' <=> v \in Allocated \/ v = w
    <3>1. w \in Allocated
      BY <2>3 DEF Pools
    <3>2. Allocated' = Allocated
      BY <1>2 DEF Allocated
    <3> QED
      BY <3>1, <3>2
  <2> QED
    BY <2>4, <2>6, <2>7, <2>8, <2>9
<1>3. CASE /\ pool' = pool /\ PoolSize + heap < MaxWs /\ w = PoolSize + heap + 1
           /\ heap' = heap + 1
  <2>1. w \notin Allocated
    BY <1>1, <1>3 DEF Allocated
  <2>2. w # Root /\ w \notin other /\ ~Live(w) /\ w \notin Free
    BY <2>1 DEF Pools
  <2>3. Distinct' /\ Free' = Free
    BY <1>3 DEF Pools, Distinct, Free
  <2>4. ASSUME NEW v \in Ws PROVE v \in Allocated' <=> v \in Allocated \/ v = w
    <3>1. v \in Int
      BY <1>1
    <3>2. PICK h \in Nat : h = PoolSize + heap
      BY <1>1
    <3>3. Allocated = 0 .. h /\ w = h + 1 /\ Allocated' = 0 .. h + 1
      <4>1. PoolSize + heap' = h + 1
        BY <1>1, <1>3, <3>2
      <4> QED
        BY <1>3, <3>2, <4>1 DEF Allocated
    <3> QED
      BY <3>1, <3>3
  <2> QED
    BY <2>2, <2>3, <2>4
<1> QED
  BY <1>2, <1>3 DEF Allocates

\* What the pool, other teams and this one hold, after a step: nothing is
\* lost and nothing is in two places.
LEMMA PoolsMove ==
  ASSUME Pools, Distinct',
         \A w \in Ws : w \in Free' => w # Root /\ w \notin other' /\ ~Live(w)',
         \A w \in Ws : w \in other' => w # Root /\ ~Live(w)',
         \A w \in Ws : w \in Allocated' <=>
                         (w = Root \/ w \in Free' \/ w \in other' \/ Live(w)'),
         Types'
  PROVE  Pools'
<1>1. Free' \subseteq Ws /\ other' \subseteq Ws
  BY DEF Types, Free
<1> QED
  BY <1>1 DEF Pools, Distinct

\* Other teams take from the pool and give back.
LEMMA OthersPools ==
  ASSUME Types, Types', Pools, OtherAlloc \/ OtherFree \/ UNCHANGED vars
  PROVE  Pools'
<1>0. \A v \in Ws : Live(v)' <=> Live(v)
  BY DEF OtherAlloc, OtherFree, vars, Live
<1>1. CASE OtherAlloc
  <2>1. PICK w \in Ws : Allocates(w) /\ other' = other \cup {w}
    BY <1>1 DEF OtherAlloc
  <2>2. /\ w # Root /\ w \notin other /\ ~Live(w) /\ Distinct'
        /\ \A v : v \in Free' <=> v \in Free /\ v # w
        /\ \A v \in Ws : v \in Allocated' <=> v \in Allocated \/ v = w
    BY <2>1, AllocFacts
  <2>3. \A v \in Ws : v \in Free' => v # Root /\ v \notin other' /\ ~Live(v)'
    BY <1>0, <2>1, <2>2 DEF Pools
  <2>4. \A v \in Ws : v \in other' => v # Root /\ ~Live(v)'
    BY <1>0, <2>1, <2>2 DEF Pools
  <2>5. \A v \in Ws : v \in Allocated' <=>
                         (v = Root \/ v \in Free' \/ v \in other' \/ Live(v)')
    BY <1>0, <2>1, <2>2 DEF Pools
  <2> QED
    BY <2>2, <2>3, <2>4, <2>5, PoolsMove
<1>2. CASE OtherFree
  <2>1. PICK w \in other : pool' = <<w>> \o pool /\ other' = other \ {w}
    BY <1>2 DEF OtherFree
  <2>2. w \in Ws /\ w \notin Free /\ Distinct /\ w # Root /\ ~Live(w)
    BY <2>1 DEF Pools, Types, Distinct
  <2>3. Distinct' /\ \A v : v \in Free' <=> v = w \/ v \in Free
    BY <2>1, <2>2, PushFacts
  <2>4. Allocated' = Allocated
    BY <1>2 DEF OtherFree, Allocated
  <2>5. \A v \in Ws : v \in Free' => v # Root /\ v \notin other' /\ ~Live(v)'
    BY <1>0, <2>1, <2>2, <2>3 DEF Pools
  <2>6. \A v \in Ws : v \in other' => v # Root /\ ~Live(v)'
    BY <1>0, <2>1 DEF Pools
  <2>7. \A v \in Ws : v \in Allocated' <=>
                         (v = Root \/ v \in Free' \/ v \in other' \/ Live(v)')
    BY <1>0, <2>1, <2>2, <2>3, <2>4 DEF Pools
  <2> QED
    BY <2>3, <2>5, <2>6, <2>7, PoolsMove
<1>3. CASE UNCHANGED vars
  BY <1>3 DEF vars, Pools, Free, Allocated, Live
<1> QED
  BY <1>1, <1>2, <1>3

-----------------------------------------------------------------------------
(* The chain of descriptors *)

\* Types of what is compared most.
LEMMA ServesFacts ==
  ASSUME Types
  PROVE  /\ Root \in Ws /\ Master \in Threads /\ Base \in {0, 1}
         /\ \A w \in Ws : serves[w] \in Int /\ (Live(w) <=> serves[w] \in Nat)
         /\ \A t \in Threads : pos[t] \in Nat /\ curr[t] \in Ws
BY PoolAssumption, TeamAssumption DEF Root, Ws, Base, Types, Live, Idle

\* A step that leaves the descriptors where they are, and completes nothing.
Still ==
  /\ UNCHANGED <<prog, pos, serves, lock, pool, heap, other, new, first>>
  /\ LinksKept
  /\ pc[Master] # "serial" /\ pc'[Master] # "serial"
  /\ \A t \in Threads :
       /\ pc'[t] = "start" <=> pc[t] = "start"
       /\ pc'[t] = "woken" => pc[t] = "woken"
       /\ pc[t] # "woken" => curr'[t] = curr[t]
       /\ pc[t] = "woken" /\ pc'[t] # "woken" => curr'[t] = Root
       /\ \A k \in Nat \ {0} : Completed(t, k)' <=> Completed(t, k)

\* The chain depends on the links and on what the descriptors serve.
LEMMA ChainFrame ==
  ASSUME Chain, UNCHANGED <<prog, serves>>, pc'[Master] # "serial",
         \A w \in Ws : desc'[w].next_ws = desc[w].next_ws /\ desc'[w].prev_ws = desc[w].prev_ws
  PROVE  Chain'
BY DEF Chain, Live, Base

\* The counts depend on who has completed what.
LEMMA EndsFrame ==
  ASSUME Types, Ends, Chain, UNCHANGED <<prog, serves>>, LinksKept,
         \A t \in Threads, k \in Nat \ {0} : Completed(t, k)' <=> Completed(t, k)
  PROVE  Ends'
<1>1. SUFFICES ASSUME NEW w \in Ws, NEW k \in Nat, serves'[w] = k
      PROVE  /\ k < Len(prog'.body) => \E t \in Threads : ~Completed(t, k + 1)'
             /\ w # Root => /\ desc'[w].completed = Cardinality(CompletedBy(k)')
                            /\ (\E t \in Threads : ~Completed(t, k)') =>
                                 serves'[desc'[w].prev_ws] = k - 1
  BY DEF Ends
<1>2. serves[w] = k /\ k + 1 \in Nat \ {0}
  BY <1>1
<1>3. \A t \in Threads : Completed(t, k + 1)' <=> Completed(t, k + 1)
  BY <1>2
<1>4. w # Root => k \in Nat \ {0}
  <2>1. w # Root => k # Base /\ k \in Base .. Len(prog.body)
    BY <1>2, ServesFacts DEF Chain
  <2> QED
    BY <2>1, ServesFacts
<1>5. w # Root => CompletedBy(k)' = CompletedBy(k)
  BY <1>4 DEF CompletedBy
<1> QED
  BY <1>2, <1>3, <1>4, <1>5 DEF Ends, LinksKept

\* Such a step keeps the chain, the counts, the threads' descriptors, the
\* locks and the pool.
LEMMA StillChain ==
  ASSUME Types, Types', Chain, Ends, At, Locks, Pools, Still
  PROVE  Chain' /\ Ends' /\ At' /\ Locks' /\ Pools'
<1>1. Chain'
  BY ChainFrame DEF Still, LinksKept
<1>2. Ends'
  BY EndsFrame DEF Still
<1>3. At'
  <2>1. \A t \in Threads : pc'[t] # "start" => ~first'[t]
    BY DEF At, AtIn, Still
  <2>2. ASSUME NEW t \in Threads
        PROVE  /\ pc'[t] # "woken" => serves'[curr'[t]] = pos'[t]
               /\ pc'[t] = "woken" => serves'[Root] = Base' /\ pos'[t] = Base'
               /\ pc'[t] = "start" => /\ new'[t] # NoWs
                                      /\ desc'[curr'[t]].next_ws = new'[t]
                                      /\ serves'[new'[t]] = pos'[t] + 1
               /\ first'[t] => \A u \in Threads : pos'[u] <= pos'[t]
    <3>1. pc[Master] # "serial" /\ Base' = Base
      BY DEF Still, Base
    <3>2. pc[t] # "woken" => serves[curr[t]] = pos[t] /\ curr'[t] = curr[t]
      BY <3>1 DEF At, AtIn, Still
    <3>3. pc[t] = "woken" => serves[Root] = Base /\ pos[t] = Base
      BY <3>1 DEF At, AtIn
    <3>4. pc'[t] # "woken" => serves'[curr'[t]] = pos'[t]
      BY <3>2, <3>3 DEF Still
    <3>5. pc'[t] = "woken" => serves'[Root] = Base' /\ pos'[t] = Base'
      BY <3>1, <3>3 DEF Still
    <3>6. pc'[t] = "start" => /\ new'[t] # NoWs
                              /\ desc'[curr'[t]].next_ws = new'[t]
                              /\ serves'[new'[t]] = pos'[t] + 1
      <4> SUFFICES ASSUME pc'[t] = "start" PROVE /\ new'[t] # NoWs
                              /\ desc'[curr'[t]].next_ws = new'[t]
                              /\ serves'[new'[t]] = pos'[t] + 1
        OBVIOUS
      <4>1. pc[t] = "start"
        BY DEF Still
      <4>2. new[t] # NoWs /\ desc[curr[t]].next_ws = new[t] /\ serves[new[t]] = pos[t] + 1
        BY <3>1, <4>1 DEF At, AtIn
      <4>3. curr'[t] = curr[t] /\ curr[t] \in Ws
        BY <3>2, <4>1, ServesFacts
      <4> QED
        BY <4>2, <4>3 DEF Still, LinksKept
    <3>7. first'[t] => \A u \in Threads : pos'[u] <= pos'[t]
      BY <3>1 DEF At, AtIn, Still
    <3> QED
      BY <3>4, <3>5, <3>6, <3>7
  <2> QED
    BY <2>1, <2>2 DEF At, AtIn
<1>4. Locks'
  <2>1. \A t \in Threads : pc[t] = "start" => curr'[t] = curr[t]
    BY DEF Still
  <2>2. \A w \in Ws : lock[w] # NoThread => lock[w] \in Threads
    BY DEF Types
  <2> QED
    BY <2>1, <2>2 DEF Locks, Still
<1>5. Pools'
  BY DEF Pools, Free, Allocated, Live, Still
<1> QED
  BY <1>1, <1>2, <1>3, <1>4, <1>5

\* Steps of a thread that leave the descriptors where they are.
LEMMA QuietSteps ==
  ASSUME Types, Types', Phases, Spots, Together, NEW t \in Threads,
         InitThread(t) \/ BodyDone(t) \/ Barrier(t) \/ LoopNext(t)
  PROVE  Still
<1>0. /\ Master \in Threads /\ pc \in [Threads -> Places] /\ curr \in [Threads -> Ws]
      /\ \A u \in Threads : pos[u] \in Nat /\ Spot(u)
      /\ pc[t] \notin {"serial", "docked", "end"} /\ Base \in {0, 1}
  BY ServesFacts DEF Types, Spots, InitThread, BodyDone, Barrier, LoopNext
<1>1. pc[Master] \notin {"serial", "end"}
  BY <1>0, AllBusy
<1>2. UNCHANGED <<prog, pos, serves, lock, pool, heap, other, new, first>>
  BY DEF InitThread, BodyDone, Barrier, LoopNext
<1>3. CASE InitThread(t)
  <2>1. /\ pc[t] = "woken" /\ pc' = [pc EXCEPT ![t] = IF prog.combined THEN "next" ELSE "body"]
        /\ curr' = [curr EXCEPT ![t] = Root] /\ UNCHANGED desc
    BY <1>3 DEF InitThread
  <2>2. LinksKept
    BY <2>1 DEF LinksKept
  <2>3. pc'[t] = IF prog.combined THEN "next" ELSE "body"
    BY <1>0, <2>1
  <2>4. pos[t] = Base /\ (prog.combined => Base = 1) /\ (~prog.combined => Base = 0)
    BY <1>0, <2>1 DEF Spot, Base
  <2>5. \A k \in Nat \ {0} : Completed(t, k)' <=> Completed(t, k)
    BY <1>0, <1>2, <2>1, <2>3, <2>4 DEF Completed
  <2>6. \A u \in Threads : u # t => /\ pc'[u] = pc[u] /\ curr'[u] = curr[u]
                                    /\ \A k \in Nat \ {0} : Completed(u, k)' <=> Completed(u, k)
    BY <1>0, <1>2, <2>1 DEF Completed
  <2>7. curr'[t] = Root
    BY <1>0, <2>1
  <2>8. pc'[Master] # "serial"
    BY <1>0, <1>1, <2>3, <2>6
  <2> QED
    BY <1>1, <1>2, <2>1, <2>2, <2>3, <2>5, <2>6, <2>7, <2>8 DEF Still
<1>4. CASE ~InitThread(t)
  <2>1. LinksKept /\ UNCHANGED curr
    <3>1. CASE LoopNext(t)
      BY <1>0, <3>1, LoopNextBinds, RebindsFacts DEF LoopNext
    <3>2. CASE BodyDone(t) \/ Barrier(t)
      BY <3>2 DEF BodyDone, Barrier, LinksKept
    <3> QED
      BY <1>4, <3>1, <3>2
  <2>2. ASSUME NEW u \in Threads
        PROVE  \/ pc'[u] = pc[u]
               \/ pc[u] = "next" /\ pc'[u] = "done"
               \/ /\ pc[u] \in {"body", "bar", "bar_wait", "exit", "exit_wait"}
                  /\ pc'[u] \in {"body", "bar_wait", "exit", "exit_wait", "docked", "end"}
    <3>1. CASE LoopNext(t)
      BY <1>0, <3>1 DEF LoopNext
    <3>2. CASE BodyDone(t)
      BY <1>0, <3>2 DEF BodyDone
    <3>3. CASE Barrier(t) /\ arrived \cup {t} = Threads
      <4>1. pc[u] \in {"bar", "bar_wait", "exit", "exit_wait"}
        BY <3>3, SameBarrier
      <4>2. pc'[u] \in {"body", "docked", "end"}
        BY <3>3, SameBarrier
      <4> QED
        BY <4>1, <4>2
    <3>4. CASE Barrier(t) /\ arrived \cup {t} # Threads
      BY <1>0, <3>4 DEF Barrier
    <3> QED
      BY <1>4, <3>1, <3>2, <3>3, <3>4
  <2>3. pc'[Master] # "serial"
    BY <1>0, <1>1, <2>2
  <2>4. ASSUME NEW u \in Threads, NEW k \in Nat PROVE Completed(u, k)' <=> Completed(u, k)
    <3>1. pc'[u] \notin {"woken", "next", "done"} <=> pc[u] \notin {"woken", "next", "done"}
      BY <2>2
    <3> QED
      BY <1>0, <1>2, <3>1 DEF Completed
  <2>5. ASSUME NEW u \in Threads
        PROVE  /\ pc'[u] = "start" <=> pc[u] = "start"
               /\ pc'[u] = "woken" <=> pc[u] = "woken"
    BY <2>2
  <2> QED
    BY <1>1, <1>2, <2>1, <2>3, <2>4, <2>5 DEF Still
<1> QED
  BY <1>3, <1>4

\* A thread that finds the next descriptor waits for its lock.
LEMMA StartFound ==
  ASSUME Types, Types', Phases, Chain, Ends, At, Locks, Pools, NEW t \in Threads,
         WorkShareStart(t), desc[curr[t]].next_ws # NoWs
  PROVE  Chain' /\ Ends' /\ At' /\ Locks' /\ Pools'
<1>0. /\ pc[t] = "body" /\ pc[Master] # "serial" /\ lock[curr[t]] = NoThread
      /\ pc' = [pc EXCEPT ![t] = "start"] /\ lock' = [lock EXCEPT ![curr[t]] = t]
      /\ new' = [new EXCEPT ![t] = desc[curr[t]].next_ws]
      /\ first' = [first EXCEPT ![t] = FALSE]
      /\ UNCHANGED <<desc, pool, heap, serves, prog, pos, curr, other>>
  BY MasterBusy DEF WorkShareStart, Holding
<1>1. pc'[Master] # "serial" /\ Base' = Base /\ Master \in Threads
  BY <1>0, ServesFacts DEF Types, Base
<1>2. Chain'
  BY <1>0, <1>1, ChainFrame
<1>3. LinksKept
  BY <1>0 DEF LinksKept
<1>4. \A u \in Threads, k \in Nat \ {0} : Completed(u, k)' <=> Completed(u, k)
  BY <1>0 DEF Completed, Types
<1>5. Ends'
  BY <1>0, <1>3, <1>4, EndsFrame
<1>6. At'
  <2>1. curr[t] \in Ws /\ serves[curr[t]] = pos[t] /\ pos[t] \in Nat
    BY <1>0, ServesFacts DEF At, AtIn
  <2>2. Live(curr[t])
    BY <2>1, ServesFacts
  <2>3. serves[desc[curr[t]].next_ws] = pos[t] + 1
    BY <2>1, <2>2 DEF Chain
  <2>4. ASSUME NEW u \in Threads
        PROVE  /\ pc'[u] # "start" => ~first'[u]
               /\ pc'[u] # "woken" => serves'[curr'[u]] = pos'[u]
               /\ pc'[u] = "woken" => serves'[Root] = Base' /\ pos'[u] = Base'
               /\ pc'[u] = "start" => /\ new'[u] # NoWs
                                      /\ desc'[curr'[u]].next_ws = new'[u]
                                      /\ serves'[new'[u]] = pos'[u] + 1
               /\ first'[u] => \A v \in Threads : pos'[v] <= pos'[u]
    <3>1. CASE u = t
      <4>1. pc'[u] = "start" /\ new'[u] = desc[curr[t]].next_ws /\ ~first'[u]
        BY <1>0, <3>1 DEF Types
      <4> QED
        BY <1>0, <2>1, <2>3, <3>1, <4>1
    <3>2. CASE u # t
      <4>1. pc'[u] = pc[u] /\ new'[u] = new[u] /\ first'[u] = first[u]
        BY <1>0, <3>2 DEF Types
      <4> QED
        BY <1>0, <1>1, <4>1 DEF At, AtIn
    <3> QED
      BY <3>1, <3>2
  <2> QED
    BY <2>4 DEF At, AtIn
<1>7. Locks'
  <2>1. ASSUME NEW w \in Ws, lock'[w] # NoThread PROVE pc'[lock'[w]] = "start" /\ curr'[lock'[w]] = w
    <3>1. CASE w = curr[t]
      BY <1>0, <3>1 DEF Types
    <3>2. CASE w # curr[t]
      <4>1. lock'[w] = lock[w] /\ lock[w] \in Threads
        BY <1>0, <2>1, <3>2 DEF Types
      <4>2. pc[lock[w]] = "start" /\ curr[lock[w]] = w
        BY <2>1, <4>1 DEF Locks
      <4> QED
        BY <1>0, <4>1, <4>2 DEF Types
    <3> QED
      BY <3>1, <3>2
  <2>2. ASSUME NEW u \in Threads, pc'[u] = "start" PROVE lock'[curr'[u]] = u
    <3>1. CASE u = t
      BY <1>0, <3>1 DEF Types
    <3>2. CASE u # t
      <4>1. pc[u] = "start"
        BY <1>0, <2>2, <3>2 DEF Types
      <4>2. lock[curr[u]] = u /\ u # NoThread
        BY <4>1, TeamAssumption DEF Locks
      <4> QED
        BY <1>0, <4>2 DEF Types
    <3> QED
      BY <3>1, <3>2
  <2> QED
    BY <2>1, <2>2 DEF Locks
<1>8. Pools'
  BY <1>0 DEF Pools, Free, Allocated, Live
<1> QED
  BY <1>2, <1>5, <1>6, <1>7, <1>8

\* At the end of the chain no thread is ahead.
LEMMA NoneAhead ==
  ASSUME Types, Chain, At, NEW t \in Threads, pc[t] # "woken", pc[Master] # "serial",
         desc[curr[t]].next_ws = NoWs
  PROVE  /\ \A u \in Threads : pos[u] <= pos[t]
         /\ \A v \in Ws : serves[v] <= pos[t]
         /\ Live(curr[t]) /\ serves[curr[t]] = pos[t]
<1>1. /\ curr[t] \in Ws /\ serves[curr[t]] = pos[t] /\ pos[t] \in Nat /\ Live(curr[t])
  BY ServesFacts DEF At, AtIn
<1>2. \A v \in Ws : Live(v) => ~(serves[v] > pos[t])
  BY <1>1 DEF Chain
<1>3. \A v \in Ws : serves[v] <= pos[t]
  BY <1>1, <1>2, ServesFacts DEF Live, Idle
<1>4. ASSUME NEW u \in Threads PROVE pos[u] <= pos[t]
  <2>1. \E v \in Ws : serves[v] = pos[u]
    BY ServesFacts DEF At, AtIn
  <2> QED
    BY <1>3, <2>1
<1> QED
  BY <1>1, <1>3, <1>4

\* Thread t, at the descriptor c, has allocated and linked w.
Links(t, c, w) ==
  /\ c \in Ws /\ w \in Ws /\ w # c /\ w # Root /\ w \notin other /\ ~Live(w)
  /\ pc[t] = "body" /\ pc[Master] # "serial" /\ pc'[Master] # "serial"
  /\ lock[c] = NoThread /\ curr[t] = c /\ serves[c] = pos[t] /\ pos[t] < Len(prog.body)
  /\ desc[c].next_ws = NoWs
  /\ pc' = [pc EXCEPT ![t] = "start"]
  /\ lock' = [lock EXCEPT ![c] = t, ![w] = NoThread]
  /\ new' = [new EXCEPT ![t] = w]
  /\ first' = [first EXCEPT ![t] = TRUE]
  /\ serves' = [serves EXCEPT ![w] = pos[t] + 1]
  /\ desc'[w].next_ws = NoWs /\ desc'[w].prev_ws = c /\ desc'[w].completed = 0
  /\ desc'[c].next_ws = w /\ desc'[c].prev_ws = desc[c].prev_ws
  /\ desc'[c].completed = desc[c].completed
  /\ \A v \in Ws : v \notin {c, w} => desc'[v] = desc[v]
  /\ \A u \in Threads : pos[u] <= pos[t]
  /\ \A v \in Ws : serves[v] <= pos[t]
  /\ Distinct'
  /\ \A v : v \in Free' <=> v \in Free /\ v # w
  /\ \A v \in Ws : v \in Allocated' <=> v \in Allocated \/ v = w
  /\ UNCHANGED <<prog, pos, curr, other>>

\* gomp_work_share_start at the end of the chain does this.
LEMMA StartLinks ==
  ASSUME Types, Phases, Chain, At, Pools, NEW t \in Threads,
         WorkShareStart(t), desc[curr[t]].next_ws = NoWs
  PROVE  \E c, w : Links(t, c, w)
<1>1. PICK w \in Ws :
             /\ Allocates(w)
             /\ new' = [new EXCEPT ![t] = w]
             /\ desc' = [desc EXCEPT
                           ![w] = [@ EXCEPT !.completed = 0, !.next_ws = NoWs,
                                            !.prev_ws = curr[t]],
                           ![curr[t]].next_ws = w]
             /\ serves' = [serves EXCEPT ![w] = pos[t] + 1]
             /\ lock' = [Holding(t) EXCEPT ![w] = NoThread]
  BY DEF WorkShareStart
<1>2. /\ first' = [first EXCEPT ![t] = TRUE] /\ pc' = [pc EXCEPT ![t] = "start"]
      /\ UNCHANGED <<prog, pos, curr, other>>
      /\ pc[t] = "body" /\ lock[curr[t]] = NoThread /\ pos[t] < Len(prog.body)
  BY DEF WorkShareStart
<1>3. pc[Master] # "serial"
  BY <1>2, MasterBusy
<1>4. pc'[Master] # "serial"
  BY <1>2, <1>3, ServesFacts DEF Types
<1>5. PICK c \in Ws : c = curr[t]
  BY ServesFacts
<1>6. /\ \A u \in Threads : pos[u] <= pos[t]
      /\ \A v \in Ws : serves[v] <= pos[t]
      /\ Live(c) /\ serves[c] = pos[t]
  BY <1>2, <1>3, <1>5, NoneAhead
<1>7. /\ w # Root /\ w \notin other /\ ~Live(w)
      /\ Distinct'
      /\ \A v : v \in Free' <=> v \in Free /\ v # w
      /\ \A v \in Ws : v \in Allocated' <=> v \in Allocated \/ v = w
  BY <1>1, AllocFacts
<1>8. w # c
  BY <1>6, <1>7
<1>9. desc \in [Ws -> Descs] /\ desc[w] \in Descs /\ desc[c] \in Descs
  BY DEF Types
<1>10. desc' = [desc EXCEPT ![w] = [desc[w] EXCEPT !.completed = 0, !.next_ws = NoWs, !.prev_ws = c],
                            ![c] = [desc[c] EXCEPT !.next_ws = w]]
  BY <1>1, <1>5, <1>8, <1>9
<1>11. /\ desc'[w] = [desc[w] EXCEPT !.completed = 0, !.next_ws = NoWs, !.prev_ws = c]
       /\ desc'[c] = [desc[c] EXCEPT !.next_ws = w]
       /\ \A v \in Ws : v \notin {c, w} => desc'[v] = desc[v]
  BY <1>8, <1>9, <1>10
<1>12. /\ desc'[w].next_ws = NoWs /\ desc'[w].prev_ws = c /\ desc'[w].completed = 0
       /\ desc'[c].next_ws = w /\ desc'[c].prev_ws = desc[c].prev_ws
       /\ desc'[c].completed = desc[c].completed
  BY <1>9, <1>11 DEF Descs
<1>13. lock' = [lock EXCEPT ![c] = t, ![w] = NoThread]
  BY <1>1, <1>5 DEF Holding
<1>14. Links(t, c, w)
  BY <1>1, <1>2, <1>3, <1>4, <1>5, <1>6, <1>7, <1>8, <1>11, <1>12, <1>13 DEF Links
<1> QED
  BY <1>14

\* The chain is longer by w.
LEMMA LinksChain ==
  ASSUME Types, Types', Chain, NEW t \in Threads, NEW c, NEW w, Links(t, c, w)
  PROVE  Chain'
<1>0. c \in Ws /\ w \in Ws /\ w # c /\ w # Root /\ ~Live(w)
  BY DEF Links
<1>1. PICK k \in Nat : k = pos[t]
  BY DEF Types
<1>2. /\ \A v \in Ws : v # w => serves'[v] = serves[v] /\ (Live(v)' <=> Live(v))
      /\ serves'[w] = k + 1 /\ Live(w)' /\ serves[c] = k
  BY <1>0, <1>1 DEF Links, Live, Types, Idle
<1>3. \A v \in Ws : serves[v] \in Int /\ serves[v] <= k /\ serves'[v] \in Int
  BY <1>1, ServesFacts DEF Links, Types, Idle
<1>4. Base' = Base /\ Base \in {0, 1} /\ prog' = prog /\ k >= Base /\ k < Len(prog.body)
      /\ Len(prog.body) \in Nat /\ Live(c)
  <2>1. Live(c)
    BY <1>2 DEF Live, Idle
  <2>2. serves[c] \in Base .. Len(prog.body)
    BY <1>0, <2>1 DEF Chain
  <2> QED
    BY <1>1, <1>2, <2>1, <2>2, ServesFacts, ProgFacts DEF Links, Base
<1>5. ASSUME NEW x \in Ws, NEW y \in Ws, Live(x)', serves'[x] = serves'[y] PROVE x = y
  <2>1. CASE x = w \/ y = w
    BY <1>2, <1>3, <1>5, <2>1
  <2>2. CASE x # w /\ y # w
    BY <1>2, <1>5, <2>2 DEF Chain
  <2> QED
    BY <2>1, <2>2
<1>6. ASSUME NEW x \in Ws, Live(x)'
      PROVE  /\ serves'[x] \in Base .. Len(prog.body)
             /\ serves'[x] = Base <=> x = Root
             /\ desc'[x].next_ws # NoWs => serves'[desc'[x].next_ws] = serves'[x] + 1
             /\ \A v \in Ws : Live(v)' /\ serves'[v] > serves'[x] => desc'[x].next_ws # NoWs
             /\ x = Root => desc'[x].prev_ws = NoWs
             /\ x # Root => desc'[x].prev_ws # NoWs
  <2>0. NoWs \notin Ws
    BY PoolAssumption
  <2>1. CASE x = w
    <3>1. desc'[x].next_ws = NoWs /\ desc'[x].prev_ws = c
      BY <2>1 DEF Links
    <3>2. \A v \in Ws : ~(serves'[v] > k + 1)
      BY <1>2, <1>3
    <3> QED
      BY <1>0, <1>2, <1>4, <2>0, <2>1, <3>1, <3>2
  <2>2. CASE x = c
    <3>1. desc'[x].next_ws = w /\ desc'[x].prev_ws = desc[x].prev_ws
      BY <2>2 DEF Links
    <3>2. /\ serves[x] \in Base .. Len(prog.body) /\ (serves[x] = Base <=> x = Root)
          /\ x = Root => desc[x].prev_ws = NoWs
          /\ x # Root => desc[x].prev_ws # NoWs
      BY <1>4, <2>2 DEF Chain
    <3> QED
      BY <1>0, <1>2, <2>0, <2>2, <3>1, <3>2
  <2>3. CASE x # c /\ x # w
    <3>1. desc'[x] = desc[x] /\ Live(x) /\ serves'[x] = serves[x]
      BY <1>2, <1>6, <2>3 DEF Links
    <3>2. /\ serves[x] \in Base .. Len(prog.body)
          /\ serves[x] = Base <=> x = Root
          /\ desc[x].next_ws # NoWs => serves[desc[x].next_ws] = serves[x] + 1
          /\ \A v \in Ws : Live(v) /\ serves[v] > serves[x] => desc[x].next_ws # NoWs
          /\ x = Root => desc[x].prev_ws = NoWs
          /\ x # Root => desc[x].prev_ws # NoWs
      BY <3>1 DEF Chain
    <3>3. desc[x].next_ws # NoWs => desc[x].next_ws \in Ws /\ desc[x].next_ws # w
      <4>1. desc[x].next_ws # NoWs => desc[x].next_ws \in Ws
        BY DEF Types, Descs
      <4>2. serves[w] = Idle /\ serves[x] + 1 # Idle
        BY <1>0, <3>2, <1>4 DEF Live, Idle
      <4> QED
        BY <3>2, <4>1, <4>2
    <3>4. desc[x].next_ws # NoWs => serves'[desc[x].next_ws] = serves[x] + 1
      BY <1>2, <3>2, <3>3
    <3>5. serves[x] < k
      <4>1. serves[x] # k
        BY <1>0, <1>2, <2>3, <3>1 DEF Chain
      <4> QED
        BY <1>3, <4>1
    <3>6. desc[x].next_ws # NoWs
      BY <1>0, <1>2, <1>4, <3>2, <3>5
    <3> QED
      BY <3>1, <3>2, <3>4, <3>6
  <2> QED
    BY <2>1, <2>2, <2>3
<1>7. pc'[Master] # "serial"
  BY DEF Links
<1> QED
  BY <1>4, <1>5, <1>6, <1>7 DEF Chain

\* Nobody has completed the new construct.
LEMMA LinksEnds ==
  ASSUME Types, Types', Chain, Ends, NEW t \in Threads, NEW c, NEW w, Links(t, c, w)
  PROVE  Ends'
<1>0. c \in Ws /\ w \in Ws /\ w # c /\ w # Root /\ ~Live(w)
  BY DEF Links
<1>1. PICK n \in Nat : n = pos[t]
  BY DEF Types
<1>2. /\ \A v \in Ws : v # w => serves'[v] = serves[v]
      /\ serves'[w] = n + 1 /\ serves[c] = n
  BY <1>0, <1>1 DEF Links, Types
<1>3. \A u \in Threads, k \in Nat : Completed(u, k)' <=> Completed(u, k)
  BY DEF Links, Completed, Types
<1>4. \A k \in Nat : CompletedBy(k)' = CompletedBy(k)
  BY <1>3 DEF CompletedBy
<1>5. ASSUME NEW k \in Nat, NEW v \in Ws, serves'[v] = k
      PROVE  /\ k < Len(prog'.body) => \E u \in Threads : ~Completed(u, k + 1)'
             /\ v # Root => /\ desc'[v].completed = Cardinality(CompletedBy(k)')
                            /\ (\E u \in Threads : ~Completed(u, k)') =>
                                 serves'[desc'[v].prev_ws] = k - 1
  <2>0. k + 1 \in Nat /\ prog' = prog
    BY DEF Links
  <2>1. CASE v = w
    <3>1. k = n + 1
      BY <1>2, <1>5, <2>1
    <3>2. \A u \in Threads : pos[u] \in Nat /\ pos[u] <= n
      BY <1>1 DEF Links, Types
    <3>3. \A u \in Threads : ~Completed(u, k) /\ ~Completed(u, k + 1)
      BY <1>1, <3>1, <3>2 DEF Completed
    <3>4. CompletedBy(k) = {}
      BY <3>3 DEF CompletedBy
    <3>5. Cardinality(CompletedBy(k)') = 0
      BY <1>4, <3>4, FS_EmptySet
    <3>6. desc'[v].completed = 0 /\ desc'[v].prev_ws = c
      BY <2>1 DEF Links
    <3>7. serves'[c] = k - 1
      BY <1>0, <1>1, <1>2, <3>1
    <3> QED
      BY <1>3, <2>0, <3>3, <3>5, <3>6, <3>7
  <2>2. CASE v # w
    <3>1. serves[v] = k /\ desc'[v].completed = desc[v].completed /\ desc'[v].prev_ws = desc[v].prev_ws
      BY <1>2, <1>5, <2>2 DEF Links
    <3>2. /\ k < Len(prog.body) => \E u \in Threads : ~Completed(u, k + 1)
          /\ v # Root => /\ desc[v].completed = Cardinality(CompletedBy(k))
                         /\ (\E u \in Threads : ~Completed(u, k)) =>
                              serves[desc[v].prev_ws] = k - 1
      BY <3>1 DEF Ends
    <3>3. ASSUME v # Root, \E u \in Threads : ~Completed(u, k)
          PROVE  serves'[desc[v].prev_ws] = k - 1
      <4>1. PICK p : p = desc[v].prev_ws
        OBVIOUS
      <4>2. p \in Ws /\ serves[p] = k - 1 /\ Live(v)
        <5>1. Live(v)
          BY <3>1 DEF Live, Idle
        <5>2. p # NoWs
          BY <3>3, <4>1, <5>1 DEF Chain
        <5>3. p \in Ws
          BY <4>1, <5>2 DEF Types, Descs
        <5> QED
          BY <3>2, <3>3, <4>1, <5>1, <5>3
      <4>3. k - 1 # Idle
        <5>1. k \in Base .. Len(prog.body) /\ k # Base
          BY <3>1, <3>3, <4>2 DEF Chain
        <5> QED
          BY <5>1, ServesFacts DEF Idle
      <4>4. p # w
        BY <1>0, <4>2, <4>3 DEF Live
      <4> QED
        BY <1>2, <4>1, <4>2, <4>4
    <3> QED
      BY <1>3, <1>4, <2>0, <3>1, <3>2, <3>3
  <2> QED
    BY <2>1, <2>2
<1> QED
  BY <1>5 DEF Ends

\* The thread waits for the descriptor it has linked; no other is ahead.
LEMMA LinksAt ==
  ASSUME Types, Types', Phases, Chain, At, NEW t \in Threads, NEW c, NEW w, Links(t, c, w)
  PROVE  At'
<1>0. c \in Ws /\ w \in Ws /\ w # c /\ w # Root /\ ~Live(w) /\ NoWs \notin Ws
  BY PoolAssumption DEF Links
<1>1. pos[t] \in Nat /\ Root \in Ws /\ UNCHANGED <<prog, pos, curr>> /\ Base' = Base
  BY ServesFacts DEF Links, Base
<1>2. /\ \A v \in Ws : v # w => serves'[v] = serves[v]
      /\ serves'[w] = pos[t] + 1 /\ serves[c] = pos[t] /\ curr[t] = c
  BY <1>0, <1>1 DEF Links, Types
<1>3. ASSUME NEW u \in Threads
        PROVE  /\ pc'[u] # "start" => ~first'[u]
               /\ pc'[u] # "woken" => serves'[curr'[u]] = pos'[u]
               /\ pc'[u] = "woken" => serves'[Root] = Base' /\ pos'[u] = Base'
               /\ pc'[u] = "start" => /\ new'[u] # NoWs
                                      /\ desc'[curr'[u]].next_ws = new'[u]
                                      /\ serves'[new'[u]] = pos'[u] + 1
               /\ first'[u] => \A v \in Threads : pos'[v] <= pos'[u]
    <2>1. CASE u = t
      <3>1. pc'[u] = "start" /\ new'[u] = w
        BY <2>1 DEF Links, Types
      <3>2. desc'[c].next_ws = w /\ \A v \in Threads : pos[v] <= pos[t]
        BY DEF Links
      <3> QED
        BY <1>0, <1>1, <1>2, <2>1, <3>1, <3>2
    <2>2. CASE u # t
      <3>1. pc'[u] = pc[u] /\ new'[u] = new[u] /\ first'[u] = first[u]
        BY <2>2 DEF Links, Types
      <3>2. /\ pc[u] # "start" => ~first[u]
            /\ pc[u] # "woken" => serves[curr[u]] = pos[u]
            /\ pc[u] = "woken" => serves[Root] = Base /\ pos[u] = Base
            /\ pc[u] = "start" => /\ new[u] # NoWs
                                  /\ desc[curr[u]].next_ws = new[u]
                                  /\ serves[new[u]] = pos[u] + 1
            /\ first[u] => \A v \in Threads : pos[v] <= pos[u]
        BY DEF At, AtIn, Links
      <3>3. pc[u] # "woken" => curr[u] \in Ws /\ curr[u] # w
        BY <1>0, <3>2, ServesFacts DEF Live, Idle
      <3>4. ASSUME pc[u] = "start"
            PROVE  /\ desc'[curr[u]].next_ws = new[u]
                   /\ serves'[new[u]] = pos[u] + 1
        <4>1. new[u] \in Ws /\ pos[u] \in Nat
          BY <3>2, <3>4 DEF Types
        <4>2. new[u] # w
          BY <1>0, <3>2, <3>4, <4>1 DEF Live, Idle
        <4>3. curr[u] # c
          <5>1. desc[c].next_ws = NoWs
            BY DEF Links
          <5> QED
            BY <3>2, <3>4, <5>1
        <4>4. desc'[curr[u]] = desc[curr[u]]
          BY <3>3, <3>4, <4>3 DEF Links
        <4> QED
          BY <1>2, <3>2, <3>4, <4>1, <4>2, <4>4
      <3> QED
        BY <1>0, <1>1, <1>2, <3>1, <3>2, <3>3, <3>4
    <2> QED
      BY <2>1, <2>2
<1> QED
  BY <1>3 DEF At, AtIn

\* It holds the lock of its own descriptor; nobody held that of w.
LEMMA LinksLocks ==
  ASSUME Types, Types', Phases, Chain, At, Locks, NEW t \in Threads, NEW c, NEW w, Links(t, c, w)
  PROVE  Locks'
<1>0. /\ c \in Ws /\ w \in Ws /\ w # c /\ lock[c] = NoThread /\ ~Live(w) /\ curr[t] = c
      /\ pc' = [pc EXCEPT ![t] = "start"] /\ curr' = curr
      /\ lock' = [lock EXCEPT ![c] = t, ![w] = NoThread]
  BY DEF Links
<1>1. lock'[c] = t /\ lock'[w] = NoThread /\ \A v \in Ws : v \notin {c, w} => lock'[v] = lock[v]
  BY <1>0 DEF Types
<1>2. pc'[t] = "start" /\ \A u \in Threads : u # t => pc'[u] = pc[u]
  BY <1>0 DEF Types
<1>3. ASSUME NEW v \in Ws, lock'[v] # NoThread PROVE pc'[lock'[v]] = "start" /\ curr'[lock'[v]] = v
  <2>1. CASE v = c
    BY <1>0, <1>1, <1>2, <2>1
  <2>2. CASE v # c
    <3>1. lock'[v] = lock[v] /\ lock[v] \in Threads /\ lock[v] # NoThread
      BY <1>1, <1>3, <2>2 DEF Types
    <3>2. pc[lock[v]] = "start" /\ curr[lock[v]] = v
      BY <3>1 DEF Locks
    <3> QED
      BY <1>0, <1>2, <3>1, <3>2
  <2> QED
    BY <2>1, <2>2
<1>4. ASSUME NEW u \in Threads, pc'[u] = "start" PROVE lock'[curr'[u]] = u
  <2>1. CASE u = t
    BY <1>0, <1>1, <2>1
  <2>2. CASE u # t
    <3>1. pc[u] = "start" /\ u # NoThread
      BY <1>2, <1>4, <2>2, TeamAssumption
    <3>2. lock[curr[u]] = u
      BY <3>1 DEF Locks
    <3>3. curr[u] # c
      BY <1>0, <3>1, <3>2
    <3>4. serves[curr[u]] = pos[u] /\ pos[u] \in Nat /\ curr[u] \in Ws
      BY <3>1, ServesFacts DEF At, AtIn, Links
    <3>5. curr[u] # w
      BY <1>0, <3>4 DEF Live, Idle
    <3> QED
      BY <1>0, <1>1, <3>2, <3>3, <3>4, <3>5
  <2> QED
    BY <2>1, <2>2
<1> QED
  BY <1>3, <1>4 DEF Locks

\* The descriptor is in use, no longer in the pool.
LEMMA LinksPools ==
  ASSUME Types, Types', Pools, NEW t \in Threads, NEW c, NEW w, Links(t, c, w)
  PROVE  Pools'
<1>0. /\ w \in Ws /\ w # Root /\ w \notin other /\ ~Live(w) /\ Distinct' /\ other' = other
      /\ \A v : v \in Free' <=> v \in Free /\ v # w
      /\ \A v \in Ws : v \in Allocated' <=> v \in Allocated \/ v = w
  BY DEF Links
<1>1. Live(w)' /\ \A v \in Ws : v # w => (Live(v)' <=> Live(v))
  BY DEF Links, Live, Types, Idle
<1>2. \A v \in Ws : v \in Free' => v # Root /\ v \notin other' /\ ~Live(v)'
  BY <1>0, <1>1 DEF Pools
<1>3. \A v \in Ws : v \in other' => v # Root /\ ~Live(v)'
  BY <1>0, <1>1 DEF Pools
<1>4. \A v \in Ws : v \in Allocated' <=> (v = Root \/ v \in Free' \/ v \in other' \/ Live(v)')
  BY <1>0, <1>1 DEF Pools
<1> QED
  BY <1>0, <1>2, <1>3, <1>4, PoolsMove

\* A thread enters the construct whose lock it has waited for.
Enters(t) ==
  /\ pc[t] = "start" /\ pc'[t] \notin {"start", "woken", "serial"}
  /\ \A u \in Threads : u # t => pc'[u] = pc[u]
  /\ lock' = [lock EXCEPT ![curr[t]] = NoThread]
  /\ curr' = [curr EXCEPT ![t] = new[t]]
  /\ pos' = [pos EXCEPT ![t] = @ + 1]
  /\ new' = [new EXCEPT ![t] = NoWs]
  /\ first' = [first EXCEPT ![t] = FALSE]
  /\ prog' = prog
  /\ \A v \in Ws : desc'[v].next_ws = desc[v].next_ws

\* The descriptors a thread is at, before the step frees any.
LEMMA EntersAt ==
  ASSUME Types, Types', Phases, Chain, At, Locks, NEW t \in Threads, Enters(t),
         NEW s, s = serves
  PROVE  AtIn(s)' /\ pc[Master] # "serial" /\ pc'[Master] # "serial"
<1>0. /\ pc[Master] # "serial" /\ Master \in Threads /\ Base' = Base
      /\ curr[t] \in Ws /\ new[t] \in Ws /\ pos[t] \in Nat
      /\ serves[curr[t]] = pos[t] /\ serves[new[t]] = pos[t] + 1
  BY MasterBusy, CurrFacts, ServesFacts DEF Enters, Base
<1>1. /\ curr'[t] = new[t] /\ pos'[t] = pos[t] + 1 /\ ~first'[t]
      /\ \A u \in Threads : u # t => /\ curr'[u] = curr[u] /\ pos'[u] = pos[u]
                                     /\ first'[u] = first[u] /\ new'[u] = new[u]
                                     /\ pc'[u] = pc[u]
  BY DEF Enters, Types
<1>2. pc'[Master] # "serial"
  BY <1>0, <1>1 DEF Enters
<1>3. ASSUME NEW u \in Threads
      PROVE  /\ pc'[u] # "start" => ~first'[u]
             /\ pc'[u] # "woken" => s[curr'[u]] = pos'[u]
             /\ pc'[u] = "woken" => s[Root] = Base' /\ pos'[u] = Base'
             /\ pc'[u] = "start" => /\ new'[u] # NoWs
                                    /\ desc'[curr'[u]].next_ws = new'[u]
                                    /\ s[new'[u]] = pos'[u] + 1
             /\ first'[u] => \A v \in Threads : pos'[v] <= pos'[u]
  <2>1. CASE u = t
    BY <1>0, <1>1, <2>1 DEF Enters
  <2>2. CASE u # t
    <3>1. /\ pc[u] # "start" => ~first[u]
          /\ pc[u] # "woken" => serves[curr[u]] = pos[u]
          /\ pc[u] = "woken" => serves[Root] = Base /\ pos[u] = Base
          /\ pc[u] = "start" => /\ new[u] # NoWs
                                /\ desc[curr[u]].next_ws = new[u]
                                /\ serves[new[u]] = pos[u] + 1
          /\ first[u] => \A v \in Threads : pos[v] <= pos[u]
      BY <1>0 DEF At, AtIn
    <3>2. curr[u] \in Ws /\ pos[u] \in Nat
      BY ServesFacts
    <3>3. desc'[curr[u]].next_ws = desc[curr[u]].next_ws
      BY <3>2 DEF Enters
    <3>4. ASSUME first[u] PROVE \A v \in Threads : pos'[v] <= pos[u]
      <4>1. pc[u] = "start" /\ pos[t] <= pos[u]
        BY <3>1, <3>4
      <4>2. lock[curr[u]] = u /\ lock[curr[t]] = t
        BY <4>1 DEF Locks, Enters
      <4>3. curr[u] # curr[t]
        BY <2>2, <4>2
      <4>4. serves[curr[u]] = pos[u] /\ Live(curr[u])
        BY <3>1, <3>2, <4>1, ServesFacts
      <4>5. pos[u] # pos[t]
        BY <1>0, <3>2, <4>3, <4>4 DEF Chain
      <4>6. pos[t] + 1 <= pos[u]
        BY <1>0, <3>2, <4>1, <4>5
      <4> QED
        BY <1>1, <3>1, <3>4, <4>6
    <3> QED
      BY <1>0, <1>1, <2>2, <3>1, <3>3, <3>4
  <2> QED
    BY <2>1, <2>2
<1> QED
  BY <1>0, <1>2, <1>3 DEF AtIn

\* The old lock is released.
LEMMA EntersLocks ==
  ASSUME Types, Types', Locks, NEW t \in Threads, Enters(t)
  PROVE  Locks'
<1>0. curr[t] \in Ws
  BY DEF Types
<1>1. lock'[curr[t]] = NoThread /\ \A v \in Ws : v # curr[t] => lock'[v] = lock[v]
  BY <1>0 DEF Enters, Types
<1>2. \A u \in Threads : u # t => curr'[u] = curr[u] /\ pc'[u] = pc[u]
  BY DEF Enters, Types
<1>3. ASSUME NEW v \in Ws, lock'[v] # NoThread PROVE pc'[lock'[v]] = "start" /\ curr'[lock'[v]] = v
  <2>1. v # curr[t] /\ lock'[v] = lock[v] /\ lock[v] \in Threads
    BY <1>1, <1>3 DEF Types
  <2>2. pc[lock[v]] = "start" /\ curr[lock[v]] = v
    BY <1>3, <2>1 DEF Locks
  <2> QED
    BY <1>2, <2>1, <2>2
<1>4. ASSUME NEW u \in Threads, pc'[u] = "start" PROVE lock'[curr'[u]] = u
  <2>1. u # t /\ pc[u] = "start" /\ curr'[u] = curr[u] /\ curr[u] \in Ws
    BY <1>2, <1>4 DEF Enters, Types
  <2>2. lock[curr[u]] = u /\ lock[curr[t]] = t
    BY <2>1 DEF Locks, Enters
  <2> QED
    BY <1>1, <2>1, <2>2
<1> QED
  BY <1>3, <1>4 DEF Locks

\* A thread enters a loop.
LEMMA LoopStartChain ==
  ASSUME Types, Types', Phases, Spots, Chain, Ends, At, Locks, Pools, NEW t \in Threads, LoopStart(t)
  PROVE  Chain' /\ Ends' /\ At' /\ Locks' /\ Pools' /\ LinksKept
<1>0. pc[t] = "start" /\ pc[Master] # "serial" /\ pos[t] \in Nat
  BY MasterBusy DEF LoopStart, Advances, Types
<1>1. new[t] \in Ws
  BY <1>0, CurrFacts
<1>2. LinksKept
  BY <1>1, LoopStartBinds, RebindsFacts
<1>3. PICK l \in {"next", "done"} : pc' = [pc EXCEPT ![t] = l]
  BY LoopStartBinds
<1>4. Enters(t)
  BY <1>2, <1>3 DEF LoopStart, Advances, Enters, Types, LinksKept
<1>5. UNCHANGED <<serves, prog, pool, heap, other>>
  BY DEF LoopStart
<1>6. At' /\ pc'[Master] # "serial"
  <2>1. PICK s : s = serves
    OBVIOUS
  <2>2. AtIn(s)' /\ pc'[Master] # "serial"
    BY <1>4, <2>1, EntersAt
  <2> QED
    BY <1>5, <2>1, <2>2 DEF At, AtIn
<1>7. Chain'
  BY <1>2, <1>5, <1>6, ChainFrame DEF LinksKept
<1>8. ASSUME NEW u \in Threads, NEW k \in Nat \ {0} PROVE Completed(u, k)' <=> Completed(u, k)
  <2>1. CASE u = t
    <3>1. pos'[u] = pos[u] + 1 /\ pc'[u] = l /\ pc[u] = "start"
      BY <1>0, <1>3, <1>4, <2>1 DEF Enters, Types
    <3> QED
      BY <1>0, <2>1, <3>1 DEF Completed
  <2>2. CASE u # t
    BY <1>4, <2>2 DEF Completed, Enters, Types
  <2> QED
    BY <2>1, <2>2
<1>9. Ends'
  BY <1>2, <1>5, <1>8, EndsFrame
<1>10. Locks'
  BY <1>4, EntersLocks
<1>11. Pools'
  BY <1>5 DEF Pools, Free, Allocated, Live
<1> QED
  BY <1>2, <1>6, <1>7, <1>9, <1>10, <1>11

\* Thread t calls the end of construct k, whose descriptor is w.
Finishes(t, w, k) ==
  /\ w \in Ws /\ k \in Nat \ {0} /\ serves[w] = k /\ Completes(w)
  /\ UNCHANGED <<prog, heap, other>>
  /\ pc[Master] # "serial" /\ pc'[Master] # "serial"
  /\ ~Completed(t, k) /\ Completed(t, k)'
  /\ \A u \in Threads, j \in Nat \ {0} :
       u # t \/ j # k => (Completed(u, j)' <=> Completed(u, j))

\* It frees the descriptor p of construct k - 1 as the last thread to do so.
FreesBefore(w, k, p) ==
  /\ p \in Ws /\ w # Root /\ serves[p] = k - 1 /\ Live(p) /\ k - 1 \in Nat
  /\ serves' = [serves EXCEPT ![p] = Idle] /\ pool' = Pushed(p)
  /\ \A u \in Threads : Completed(u, k)'

FreesNothing(w, k) ==
  /\ UNCHANGED <<serves, pool>>
  /\ w # Root => \E u \in Threads : ~Completed(u, k)'

\* The count is exact, so the last thread, and only the last, frees.
LEMMA FinishCases ==
  ASSUME Types, Types', Chain, Ends, NEW t \in Threads, NEW w, NEW k, Finishes(t, w, k)
  PROVE  /\ w # Root => desc'[w].completed = Cardinality(CompletedBy(k)')
         /\ FreesNothing(w, k) \/ \E p : FreesBefore(w, k, p)
<1>0. w \in Ws /\ k \in Nat \ {0} /\ serves[w] = k /\ Completes(w) /\ desc[w] \in Descs /\ Live(w)
  BY DEF Finishes, Types, Live, Idle
<1>1. CompletedBy(k)' = CompletedBy(k) \cup {t} /\ t \notin CompletedBy(k)
  BY <1>0 DEF CompletedBy, Finishes
<1>2. /\ IsFiniteSet(Threads) /\ CompletedBy(k) \subseteq Threads /\ CompletedBy(k)' \subseteq Threads
  BY TeamAssumption DEF CompletedBy
<1>3. /\ IsFiniteSet(CompletedBy(k)) /\ Cardinality(CompletedBy(k)) \in Nat
      /\ Cardinality(CompletedBy(k)') = Cardinality(CompletedBy(k)) + 1
  <2>1. IsFiniteSet(CompletedBy(k))
    BY <1>2, FS_Subset
  <2> QED
    BY <1>1, <2>1, FS_AddElement, FS_CardinalityType
<1>4. Cardinality(CompletedBy(k)') = nthreads <=> \A u \in Threads : Completed(u, k)'
  <2>1. Cardinality(CompletedBy(k)') = Cardinality(Threads) => CompletedBy(k)' = Threads
    BY <1>2, FS_Subset
  <2>2. CompletedBy(k)' = Threads <=> \A u \in Threads : Completed(u, k)'
    BY DEF CompletedBy
  <2> QED
    BY <2>1, <2>2 DEF nthreads
<1>5. CASE w = Root
  <2>1. desc[w].prev_ws = NoWs
    BY <1>0, <1>5 DEF Chain
  <2>2. UNCHANGED <<serves, pool>>
    BY <1>0, <2>1 DEF Completes
  <2> QED
    BY <1>5, <2>2 DEF FreesNothing
<1>6. CASE w # Root
  <2>1. desc[w].completed = Cardinality(CompletedBy(k)) /\ desc[w].prev_ws # NoWs
        /\ serves[desc[w].prev_ws] = k - 1
    <3>1. \E u \in Threads : ~Completed(u, k)
      BY DEF Finishes
    <3> QED
      BY <1>0, <1>6, <3>1 DEF Ends, Chain
  <2>2. desc'[w].completed = desc[w].completed + 1
    BY <1>0, CompletesFacts
  <2>3. desc'[w].completed = Cardinality(CompletedBy(k)')
    BY <1>3, <2>1, <2>2
  <2>4. PICK p : p = desc[w].prev_ws
    OBVIOUS
  <2>5. p \in Ws /\ serves[p] = k - 1
    BY <1>0, <2>1, <2>4 DEF Descs
  <2>6. k - 1 \in Nat /\ Live(p)
    BY <1>0, <2>5 DEF Live, Idle
  <2>7. CASE desc[w].completed + 1 = nthreads
    <3>1. serves' = [serves EXCEPT ![p] = Idle] /\ pool' = Pushed(p)
      BY <1>0, <2>1, <2>4, <2>7 DEF Completes
    <3>2. \A u \in Threads : Completed(u, k)'
      BY <1>3, <1>4, <2>1, <2>7
    <3>3. FreesBefore(w, k, p)
      BY <1>6, <2>5, <2>6, <3>1, <3>2 DEF FreesBefore
    <3> QED
      BY <2>3, <3>3
  <2>8. CASE desc[w].completed + 1 # nthreads
    <3>1. UNCHANGED <<serves, pool>>
      BY <1>0, <2>8 DEF Completes
    <3>2. \E u \in Threads : ~Completed(u, k)'
      BY <1>3, <1>4, <2>1, <2>8
    <3> QED
      BY <2>3, <3>1, <3>2 DEF FreesNothing
  <2> QED
    BY <2>7, <2>8
<1> QED
  BY <1>5, <1>6

\* The links are not touched.
LEMMA FinishLinks ==
  ASSUME Types, NEW t \in Threads, NEW w, NEW k, Finishes(t, w, k)
  PROVE  \A v \in Ws : /\ desc'[v].next_ws = desc[v].next_ws
                       /\ desc'[v].prev_ws = desc[v].prev_ws
                       /\ v # w => desc'[v].completed = desc[v].completed
<1>1. w \in Ws /\ Completes(w)
  BY DEF Finishes
<1> QED
  BY <1>1, CompletesFacts

\* After a step: who has completed a construct has completed those before.
LEMMA CompletedNextDown ==
  ASSUME Types', NEW u \in Threads, NEW j \in Nat, NEW k \in Nat, j < k, Completed(u, k)'
  PROVE  Completed(u, j)'
<1>1. pos'[u] \in Nat
  BY DEF Types
<1>2. pos'[u] > k \/ (pos'[u] = k /\ pc'[u] \notin {"woken", "next", "done"})
  BY DEF Completed
<1>3. pos'[u] > j
  BY <1>1, <1>2
<1> QED
  BY <1>3 DEF Completed

\* The chain without the descriptor that is freed: nothing points to it, for
\* the one before it was freed earlier.
LEMMA FinishChain ==
  ASSUME Types, Types', Chain, Ends, NEW t \in Threads, NEW w, NEW k, Finishes(t, w, k)
  PROVE  Chain'
<1>0. /\ w \in Ws /\ k \in Nat \ {0} /\ serves[w] = k /\ prog' = prog /\ Base' = Base
      /\ pc'[Master] # "serial" /\ Base \in {0, 1}
  BY ServesFacts DEF Finishes, Base
<1>1. \A v \in Ws : desc'[v].next_ws = desc[v].next_ws /\ desc'[v].prev_ws = desc[v].prev_ws
  BY FinishLinks
<1>2. CASE FreesNothing(w, k)
  BY <1>0, <1>1, <1>2, ChainFrame DEF FreesNothing
<1>3. ASSUME NEW p, FreesBefore(w, k, p) PROVE Chain'
  <2>0. /\ p \in Ws /\ serves[p] = k - 1 /\ Live(p) /\ k - 1 \in Nat
        /\ \A v \in Ws : serves[v] \in Int /\ (Live(v) <=> serves[v] \in Nat)
    BY <1>3, ServesFacts DEF FreesBefore
  <2>1. /\ ~Live(p)' /\ \A v \in Ws : v # p => serves'[v] = serves[v] /\ (Live(v)' <=> Live(v))
    BY <1>3 DEF FreesBefore, Live, Types
  <2>2. ASSUME NEW x \in Ws, NEW y \in Ws, Live(x)', serves'[x] = serves'[y] PROVE x = y
    BY <2>1, <2>2 DEF Chain, Live
  <2>3. ASSUME NEW x \in Ws, Live(x)'
        PROVE  /\ serves'[x] \in Base .. Len(prog.body)
               /\ serves'[x] = Base <=> x = Root
               /\ desc'[x].next_ws # NoWs => serves'[desc'[x].next_ws] = serves'[x] + 1
               /\ \A v \in Ws : Live(v)' /\ serves'[v] > serves'[x] => desc'[x].next_ws # NoWs
               /\ x = Root => desc'[x].prev_ws = NoWs
               /\ x # Root => desc'[x].prev_ws # NoWs
    <3>1. x # p /\ Live(x) /\ serves'[x] = serves[x]
      BY <2>1, <2>3
    <3>2. /\ serves[x] \in Base .. Len(prog.body)
          /\ serves[x] = Base <=> x = Root
          /\ desc[x].next_ws # NoWs => serves[desc[x].next_ws] = serves[x] + 1
          /\ \A v \in Ws : Live(v) /\ serves[v] > serves[x] => desc[x].next_ws # NoWs
          /\ x = Root => desc[x].prev_ws = NoWs
          /\ x # Root => desc[x].prev_ws # NoWs
      BY <3>1 DEF Chain
    <3>3. ASSUME desc[x].next_ws # NoWs PROVE desc[x].next_ws \in Ws /\ desc[x].next_ws # p
      <4>1. desc[x].next_ws \in Ws
        BY <3>3 DEF Types, Descs
      <4>2. SUFFICES ASSUME desc[x].next_ws = p PROVE FALSE
        BY <4>1
      <4>3. PICK j \in Nat : serves[x] = j /\ k = j + 2
        <5>1. PICK j \in Nat : serves[x] = j
          BY <2>0, <3>1
        <5>2. serves[p] = j + 1
          BY <3>2, <3>3, <4>2, <5>1
        <5>3. k - 1 = j + 1
          BY <2>0, <5>2
        <5>4. k = j + 2
          BY <1>0, <5>3
        <5> QED
          BY <5>1, <5>4
      <4>4. j < Len(prog.body)
        <5>1. k \in Base .. Len(prog.body)
          BY <1>0 DEF Chain, Live, Idle
        <5> QED
          BY <4>3, <5>1, ProgFacts
      <4>5. PICK u \in Threads : ~Completed(u, j + 1)
        BY <4>3, <4>4 DEF Ends
      <4>6. Completed(u, k)'
        BY <1>3 DEF FreesBefore
      <4>7. PICK i \in Nat \ {0} : i = j + 1 /\ i < k /\ i # k
        BY <1>0, <4>3
      <4>8. ~Completed(u, i)'
        BY <4>5, <4>7 DEF Finishes
      <4>9. Completed(u, i)'
        BY <1>0, <4>6, <4>7, CompletedNextDown
      <4> QED
        BY <4>8, <4>9
    <3> QED
      BY <1>1, <2>1, <3>1, <3>2, <3>3
  <2> QED
    BY <1>0, <2>2, <2>3 DEF Chain
<1> QED
  BY <1>2, <1>3, FinishCases\* A descriptor in use is given back.

\* A descriptor in use is given back.
LEMMA FreedPools ==
  ASSUME Types, Types', Pools, Embedded, NEW p \in Ws, Live(p),
         other' = other, Allocated' = Allocated,
         serves' = [serves EXCEPT ![p] = Idle], pool' = Pushed(p)
  PROVE  Pools'
<1>1. ~Live(p)' /\ \A v \in Ws : v # p => (Live(v)' <=> Live(v))
  BY DEF Live, Types
<1>2. p \notin Free /\ p \notin other /\ Distinct /\ p \in Allocated /\ Root \in Allocated
  BY ServesFacts DEF Pools, Distinct
<1>3. CASE p = Root
  <2>1. pool' = pool /\ Free' = Free
    BY <1>3 DEF Pushed, Free
  <2>2. Distinct'
    BY <1>2, <2>1 DEF Distinct
  <2>3. \A v \in Ws : v \in Free' => v # Root /\ v \notin other' /\ ~Live(v)'
    BY <1>1, <1>2, <1>3, <2>1 DEF Pools
  <2>4. \A v \in Ws : v \in other' => v # Root /\ ~Live(v)'
    BY <1>1, <1>2 DEF Pools
  <2>5. \A v \in Ws : v \in Allocated' <=> (v = Root \/ v \in Free' \/ v \in other' \/ Live(v)')
    BY <1>1, <1>2, <1>3, <2>1 DEF Pools
  <2> QED
    BY <2>2, <2>3, <2>4, <2>5, PoolsMove
<1>4. CASE p # Root
  <2>1. pool' = <<p>> \o pool
    BY <1>4 DEF Pushed
  <2>2. Distinct' /\ \A v : v \in Free' <=> v = p \/ v \in Free
    BY <1>2, <2>1, PushFacts
  <2>3. \A v \in Ws : v \in Free' => v # Root /\ v \notin other' /\ ~Live(v)'
    BY <1>1, <1>2, <1>4, <2>2 DEF Pools
  <2>4. \A v \in Ws : v \in other' => v # Root /\ ~Live(v)'
    BY <1>1, <1>2 DEF Pools
  <2>5. \A v \in Ws : v \in Allocated' <=> (v = Root \/ v \in Free' \/ v \in other' \/ Live(v)')
    BY <1>1, <1>2, <2>2 DEF Pools
  <2> QED
    BY <2>2, <2>3, <2>4, <2>5, PoolsMove
<1> QED
  BY <1>3, <1>4

\* The counts and what is still linked, after the end of a construct.
LEMMA FinishEnds ==
  ASSUME Types, Types', Chain, Ends, NEW t \in Threads, NEW w, NEW k, Finishes(t, w, k)
  PROVE  Ends'
<1>0. /\ w \in Ws /\ k \in Nat \ {0} /\ serves[w] = k /\ prog' = prog
      /\ Base \in {0, 1} /\ Live(w)
  BY ServesFacts DEF Finishes, Live, Idle
<1>1. \A v \in Ws : /\ desc'[v].prev_ws = desc[v].prev_ws
                    /\ v # w => desc'[v].completed = desc[v].completed
  BY FinishLinks
<1>2. \A u \in Threads, j \in Nat \ {0} :
        u # t \/ j # k => (Completed(u, j)' <=> Completed(u, j))
  BY DEF Finishes
<1>3. \A v \in Ws : serves'[v] \in Nat => serves'[v] = serves[v]
  <2>1. CASE FreesNothing(w, k)
    BY <2>1 DEF FreesNothing
  <2>2. CASE \E p : FreesBefore(w, k, p)
    BY <2>2 DEF FreesBefore, Types, Idle
  <2> QED
    BY <2>1, <2>2, FinishCases
<1>4. ASSUME NEW v \in Ws, serves'[v] = k - 1 PROVE \E u \in Threads : ~Completed(u, k)'
  <2>1. k - 1 \in Nat /\ serves[v] = k - 1 /\ Live(v)
    BY <1>0, <1>3, <1>4 DEF Live, Idle
  <2>2. k # Base
    BY <1>0, <2>1, ProgFacts DEF Chain
  <2>3. w # Root
    BY <1>0, <2>2 DEF Chain
  <2>4. ASSUME NEW p, FreesBefore(w, k, p) PROVE FALSE
    <3>1. p \in Ws /\ serves[p] = serves[v] /\ serves'[p] = Idle
      BY <2>1, <2>4 DEF FreesBefore, Types
    <3>2. v = p
      BY <2>1, <3>1 DEF Chain
    <3> QED
      BY <1>4, <2>1, <3>1, <3>2 DEF Idle
  <2> QED
    BY <2>3, <2>4, FinishCases DEF FreesNothing
<1>5. ASSUME NEW v \in Ws, NEW j \in Nat, serves'[v] = j
      PROVE  /\ j < Len(prog'.body) => \E u \in Threads : ~Completed(u, j + 1)'
             /\ v # Root => /\ desc'[v].completed = Cardinality(CompletedBy(j)')
                            /\ (\E u \in Threads : ~Completed(u, j)') =>
                                 serves'[desc'[v].prev_ws] = j - 1
  <2>0. serves[v] = j /\ Live(v) /\ (v # w => j # k) /\ (v = w => j = k)
    <3>1. serves[v] = j /\ Live(v)
      BY <1>3, <1>5 DEF Live, Idle
    <3> QED
      BY <1>0, <3>1 DEF Chain
  <2>1. ASSUME j < Len(prog.body) PROVE \E u \in Threads : ~Completed(u, j + 1)'
    <3>1. PICK i \in Nat \ {0} : i = j + 1
      OBVIOUS
    <3>2. CASE i = k
      <4>1. j = k - 1
        BY <1>0, <3>1, <3>2
      <4> QED
        BY <1>4, <1>5, <3>1, <3>2, <4>1
    <3>3. CASE i # k
      <4>1. \E u \in Threads : ~Completed(u, i)
        BY <2>0, <2>1, <3>1 DEF Ends
      <4> QED
        BY <1>2, <3>1, <3>3, <4>1
    <3> QED
      BY <3>2, <3>3
  <2>2. ASSUME v # Root PROVE j \in Nat \ {0}
    <3>1. j # Base /\ j \in Base .. Len(prog.body)
      BY <2>0, <2>2 DEF Chain
    <3> QED
      BY <1>0, <3>1
  <2>3. ASSUME v # Root PROVE desc'[v].completed = Cardinality(CompletedBy(j)')
    <3>1. CASE v = w
      BY <2>0, <2>3, <3>1, FinishCases
    <3>2. CASE v # w
      <4>1. CompletedBy(j)' = CompletedBy(j)
        BY <1>2, <2>0, <2>2, <2>3, <3>2 DEF CompletedBy
      <4>2. desc[v].completed = Cardinality(CompletedBy(j))
        BY <2>0, <2>3 DEF Ends
      <4> QED
        BY <1>1, <3>2, <4>1, <4>2
    <3> QED
      BY <3>1, <3>2
  <2>4. ASSUME v # Root, \E u \in Threads : ~Completed(u, j)'
        PROVE  serves'[desc'[v].prev_ws] = j - 1
    <3>1. \E u \in Threads : ~Completed(u, j)
      <4>1. CASE j = k
        BY <4>1 DEF Finishes
      <4>2. CASE j # k
        BY <1>2, <2>2, <2>4, <4>2
      <4> QED
        BY <4>1, <4>2
    <3>2. PICK q : q = desc[v].prev_ws
      OBVIOUS
    <3>3. serves[q] = j - 1 /\ q # NoWs
      BY <2>0, <2>4, <3>1, <3>2 DEF Ends, Chain
    <3>4. q \in Ws
      BY <3>2, <3>3 DEF Types, Descs
    <3>5. serves'[q] = serves[q]
      <4>1. ASSUME NEW p, FreesBefore(w, k, p) PROVE q # p
        <5>1. serves[p] = k - 1 /\ \A u \in Threads : Completed(u, k)'
          BY <4>1 DEF FreesBefore
        <5>2. j # k
          BY <2>4, <5>1
        <5>3. j - 1 # k - 1
          BY <1>0, <5>2
        <5> QED
          BY <3>3, <5>1, <5>3
      <4> QED
        BY <3>4, <4>1, FinishCases DEF FreesNothing, FreesBefore, Types
    <3> QED
      BY <1>1, <3>2, <3>3, <3>5
  <2> QED
    BY <1>0, <2>1, <2>3, <2>4
<1> QED
  BY <1>5 DEF Ends

\* A freed descriptor is one that no thread is at or about to enter: all are
\* past it.
LEMMA FinishAt ==
  ASSUME Types, Types', Chain, Ends, NEW t \in Threads, NEW w, NEW k, Finishes(t, w, k),
         NEW s, s = serves, AtIn(s)'
  PROVE  At'
<1>0. /\ w \in Ws /\ k \in Nat \ {0} /\ serves[w] = k /\ Live(w) /\ pc'[Master] # "serial"
      /\ Base \in {0, 1} /\ Base' = Base
  BY ServesFacts DEF Finishes, Live, Idle, Base
<1>1. CASE FreesNothing(w, k)
  BY <1>1 DEF FreesNothing, At, AtIn
<1>2. ASSUME NEW p, FreesBefore(w, k, p) PROVE At'
  <2>0. /\ p \in Ws /\ w # Root /\ serves[p] = k - 1 /\ \A u \in Threads : Completed(u, k)'
        /\ serves \in [Ws -> Nat \cup {Idle}]
        /\ serves' = [serves EXCEPT ![p] = Idle]
    BY <1>2 DEF FreesBefore, Types
  <2>1. k > Base
    <3>1. k # Base /\ k \in Base .. Len(prog.body)
      BY <1>0, <2>0 DEF Chain
    <3> QED
      BY <1>0, <3>1, ProgFacts
  <2>2. \A v \in Ws : v # p => serves'[v] = serves[v]
    BY <2>0
  <2>3. \A u \in Threads : pc'[u] # "start" => ~first'[u]
    BY DEF AtIn
  <2>4. ASSUME NEW u \in Threads
        PROVE  /\ pc'[u] # "woken" => serves'[curr'[u]] = pos'[u]
               /\ pc'[u] = "woken" => serves'[Root] = Base' /\ pos'[u] = Base'
               /\ pc'[u] = "start" => /\ new'[u] # NoWs
                                      /\ desc'[curr'[u]].next_ws = new'[u]
                                      /\ serves'[new'[u]] = pos'[u] + 1
               /\ first'[u] => \A x \in Threads : pos'[x] <= pos'[u]
    <3>0. /\ pc'[u] # "woken" => s[curr'[u]] = pos'[u]
          /\ pc'[u] = "woken" => s[Root] = Base' /\ pos'[u] = Base'
          /\ pc'[u] = "start" => /\ new'[u] # NoWs
                                 /\ desc'[curr'[u]].next_ws = new'[u]
                                 /\ s[new'[u]] = pos'[u] + 1
          /\ first'[u] => \A x \in Threads : pos'[x] <= pos'[u]
      BY <1>0 DEF AtIn
    <3>1. PICK n \in Nat : n = pos'[u]
      BY DEF Types
    <3>2. n >= k /\ (n = k => pc'[u] # "woken")
      BY <1>0, <2>0, <3>1 DEF Completed
    <3>3. pc'[u] # "woken"
      BY <1>0, <2>1, <3>0, <3>1, <3>2
    <3>4. curr'[u] \in Ws /\ curr'[u] # p
      <4>1. n # k - 1
        BY <1>0, <3>2
      <4> QED
        BY <2>0, <3>0, <3>1, <3>3, <4>1 DEF Types
    <3>5. pc'[u] = "start" => new'[u] \in Ws /\ new'[u] # p
      <4>1. n + 1 # k - 1
        BY <1>0, <3>2
      <4> QED
        BY <2>0, <3>0, <3>1, <4>1 DEF Types
    <3> QED
      BY <2>2, <3>0, <3>3, <3>4, <3>5
  <2> QED
    BY <2>3, <2>4 DEF At, AtIn
<1> QED
  BY <1>1, <1>2, FinishCases

\* The freed descriptor goes to the pool, unless it is the embedded root.
LEMMA FinishPools ==
  ASSUME Types, Types', Chain, Ends, Pools, Embedded,
         NEW t \in Threads, NEW w, NEW k, Finishes(t, w, k)
  PROVE  Pools'
<1>0. other' = other /\ heap' = heap /\ Allocated' = Allocated
  BY DEF Finishes, Allocated
<1>1. CASE FreesNothing(w, k)
  BY <1>0, <1>1 DEF FreesNothing, Pools, Free, Live
<1>2. ASSUME NEW p, FreesBefore(w, k, p) PROVE Pools'
  BY <1>0, <1>2, FreedPools DEF FreesBefore
<1> QED
  BY <1>1, <1>2, FinishCases

\* A thread calls the end of a loop.
LEMMA LoopEndChain ==
  ASSUME Types, Types', Phases, Spots, Chain, Ends, At, Locks, Pools, Embedded,
         NEW t \in Threads, LoopEnd(t)
  PROVE  Chain' /\ Ends' /\ At' /\ Locks' /\ Pools'
<1>0. /\ pc[t] = "done" /\ pc[Master] # "serial" /\ Completes(curr[t])
      /\ UNCHANGED <<prog, pos, curr, new, first, lock, heap, other>>
      /\ pc' = [pc EXCEPT ![t] = IF Construct(pos[t]).nowait THEN "body" ELSE "bar"]
  BY MasterBusy DEF LoopEnd
<1>1. pc'[t] \in {"body", "bar"} /\ \A u \in Threads : u # t => pc'[u] = pc[u]
  BY <1>0 DEF Types
<1>2. pc'[Master] # "serial"
  BY <1>0, <1>1, ServesFacts
<1>3. PICK k \in Nat \ {0} : k = pos[t]
  BY <1>0 DEF Spots, Spot, Types
<1>4. PICK w \in Ws : w = curr[t] /\ serves[w] = k
  BY <1>0, <1>3, ServesFacts DEF At, AtIn
<1>5. ~Completed(t, k) /\ Completed(t, k)'
  BY <1>0, <1>1, <1>3 DEF Completed
<1>6. ASSUME NEW u \in Threads, NEW j \in Nat \ {0}, u # t \/ j # k
      PROVE  Completed(u, j)' <=> Completed(u, j)
  <2>1. CASE u # t
    BY <1>0, <1>1, <2>1 DEF Completed
  <2>2. CASE u = t
    BY <1>0, <1>3, <1>6, <2>2 DEF Completed
  <2> QED
    BY <2>1, <2>2
<1>7. Finishes(t, w, k)
  BY <1>0, <1>2, <1>4, <1>5, <1>6 DEF Finishes
<1>8. PICK s : s = serves
  OBVIOUS
<1>9. AtIn(s)'
  <2>1. \A v \in Ws : desc'[v].next_ws = desc[v].next_ws
    BY <1>7, FinishLinks
  <2>2. ASSUME NEW u \in Threads
        PROVE  /\ pc'[u] # "start" => ~first'[u]
               /\ pc'[u] # "woken" => s[curr'[u]] = pos'[u]
               /\ pc'[u] = "woken" => s[Root] = Base' /\ pos'[u] = Base'
               /\ pc'[u] = "start" => /\ new'[u] # NoWs
                                      /\ desc'[curr'[u]].next_ws = new'[u]
                                      /\ s[new'[u]] = pos'[u] + 1
               /\ first'[u] => \A v \in Threads : pos'[v] <= pos'[u]
    <3>1. /\ pc[u] # "start" => ~first[u]
          /\ pc[u] # "woken" => serves[curr[u]] = pos[u]
          /\ pc[u] = "woken" => serves[Root] = Base /\ pos[u] = Base
          /\ pc[u] = "start" => /\ new[u] # NoWs
                                /\ desc[curr[u]].next_ws = new[u]
                                /\ serves[new[u]] = pos[u] + 1
          /\ first[u] => \A v \in Threads : pos[v] <= pos[u]
      BY <1>0 DEF At, AtIn
    <3>2. Base' = Base /\ curr[u] \in Ws
      BY <1>0, ServesFacts DEF Base
    <3>3. /\ pc'[u] = "start" <=> pc[u] = "start"
          /\ pc'[u] = "woken" <=> pc[u] = "woken"
      BY <1>0, <1>1
    <3> QED
      BY <1>0, <1>8, <2>1, <3>1, <3>2, <3>3
  <2> QED
    BY <2>2 DEF AtIn
<1>10. Chain' /\ Ends' /\ At' /\ Pools'
  BY <1>7, <1>8, <1>9, FinishChain, FinishEnds, FinishAt, FinishPools
<1>11. Locks'
  <2>1. \A u \in Threads : pc'[u] = "start" <=> pc[u] = "start"
    BY <1>0, <1>1
  <2>2. \A v \in Ws : lock[v] # NoThread => lock[v] \in Threads
    BY DEF Types
  <2> QED
    BY <1>0, <2>1, <2>2 DEF Locks
<1> QED
  BY <1>10, <1>11

\* A thread enters a single, and calls its end in the same step.
LEMMA SingleStartChain ==
  ASSUME Types, Types', Phases, Spots, Chain, Ends, At, Locks, Pools, Embedded,
         NEW t \in Threads, SingleStart(t)
  PROVE  Chain' /\ Ends' /\ At' /\ Locks' /\ Pools'
<1>0. /\ pc[t] = "start" /\ pc[Master] # "serial" /\ Completes(new[t]) /\ Advances(t)
      /\ UNCHANGED <<prog, heap, other>>
      /\ pc' = [pc EXCEPT ![t] = IF Construct(pos[t] + 1).nowait THEN "body" ELSE "bar"]
  BY MasterBusy DEF SingleStart, Advances
<1>1. pc'[t] \in {"body", "bar"} /\ \A u \in Threads : u # t => pc'[u] = pc[u]
  BY <1>0 DEF Types
<1>2. PICK n \in Nat : n = pos[t]
  BY ServesFacts
<1>3. PICK k \in Nat \ {0} : k = n + 1
  BY <1>2
<1>4. PICK w \in Ws : w = new[t] /\ serves[w] = k
  BY <1>0, <1>2, <1>3, CurrFacts
<1>5. \A v \in Ws : desc'[v].next_ws = desc[v].next_ws
  BY <1>0, <1>4, CompletesFacts
<1>6. Enters(t)
  BY <1>0, <1>1, <1>5 DEF Advances, Enters
<1>7. /\ pos'[t] = n + 1 /\ \A u \in Threads : u # t => pos'[u] = pos[u]
  BY <1>2, <1>6 DEF Enters, Types
<1>8. PICK s : s = serves
  OBVIOUS
<1>9. AtIn(s)' /\ pc'[Master] # "serial"
  BY <1>6, <1>8, EntersAt
<1>10. ~Completed(t, k) /\ Completed(t, k)'
  BY <1>1, <1>2, <1>3, <1>7 DEF Completed
<1>11. ASSUME NEW u \in Threads, NEW j \in Nat \ {0}, u # t \/ j # k
       PROVE  Completed(u, j)' <=> Completed(u, j)
  <2>1. CASE u # t
    BY <1>1, <1>7, <2>1 DEF Completed
  <2>2. CASE u = t
    <3>1. j # n + 1
      BY <1>3, <1>11, <2>2
    <3>2. Completed(u, j) <=> n >= j
      BY <1>0, <1>2, <2>2 DEF Completed
    <3>3. Completed(u, j)' <=> n + 1 > j
      BY <1>7, <2>2, <3>1 DEF Completed
    <3> QED
      BY <3>2, <3>3
  <2> QED
    BY <2>1, <2>2
<1>12. Finishes(t, w, k)
  BY <1>0, <1>4, <1>9, <1>10, <1>11 DEF Finishes
<1>13. Chain' /\ Ends' /\ At' /\ Pools'
  BY <1>8, <1>9, <1>12, FinishChain, FinishEnds, FinishAt, FinishPools
<1>14. Locks'
  BY <1>6, EntersLocks
<1> QED
  BY <1>13, <1>14

-----------------------------------------------------------------------------
(* The ends of a region *)

\* A region starts with the root alone.
LEMMA ParallelStartChain ==
  ASSUME Types, Types', Phases, Chain, Ends, At, Locks, Pools, ParallelStart
  PROVE  Chain' /\ Ends' /\ At' /\ Locks' /\ Pools'
<1>0. /\ pc[Master] = "serial" /\ Master \in Threads /\ Root \in Ws
      /\ \A t \in Threads : pc[t] \in {"serial", "docked"}
      /\ \A w \in Ws : ~Live(w)
      /\ UNCHANGED <<new, first, pool, heap, other>>
  <2>1. pc[Master] = "serial" /\ UNCHANGED <<new, first, pool, heap, other>>
    BY DEF ParallelStart
  <2>2. \A t \in Threads : pc[t] \in {"serial", "docked"}
    BY <2>1, ServesFacts DEF Phases
  <2> QED
    BY <2>1, <2>2, ServesFacts DEF Chain
<1>1. PICK p \in Programs :
             LET root == [desc[Root] EXCEPT !.next_ws = NoWs, !.prev_ws = NoWs]
             IN  /\ prog' = p
                 /\ desc' = [desc EXCEPT ![Root] =
                               IF p.combined THEN InitWs(root, p.body[1]) ELSE root]
                 /\ pos' = [t \in Threads |-> IF p.combined THEN 1 ELSE 0]
                 /\ pc' = [t \in Threads |-> IF t # Master THEN "woken"
                                             ELSE IF p.combined THEN "next" ELSE "body"]
                 /\ serves' = [serves EXCEPT ![Root] = IF p.combined THEN 1 ELSE 0]
  BY DEF ParallelStart
<1>2. PICK b \in {0, 1} : b = IF p.combined THEN 1 ELSE 0
  OBVIOUS
<1>3. /\ p.body \in Seq(Constructs) /\ Len(p.body) \in Nat /\ b <= Len(p.body)
      /\ p.combined => p.body[1] \in Constructs
  BY <1>2, ProgramAssumption
<1>4. Base' = b /\ prog' = p
  BY <1>1, <1>2 DEF Base
<1>5. \A t \in Threads : /\ pos'[t] = b
                         /\ t # Master => pc'[t] = "woken"
                         /\ t = Master => pc'[t] \in {"next", "body"}
  BY <1>1, <1>2
<1>6. /\ serves'[Root] = b /\ \A w \in Ws : w # Root => serves'[w] = Idle
      /\ Live(Root)' /\ \A w \in Ws : w # Root => ~Live(w)'
  BY <1>0, <1>1, <1>2 DEF Types, Live, Idle
<1>7. desc'[Root].next_ws = NoWs /\ desc'[Root].prev_ws = NoWs
  <2>1. PICK root : root = [desc[Root] EXCEPT !.next_ws = NoWs, !.prev_ws = NoWs]
    OBVIOUS
  <2>2. root \in Descs /\ root.next_ws = NoWs /\ root.prev_ws = NoWs
    <3>1. desc[Root] \in Descs
      BY <1>0 DEF Types
    <3> QED
      BY <2>1, <3>1 DEF Descs
  <2>3. desc'[Root] = IF p.combined THEN InitWs(root, p.body[1]) ELSE root
    BY <1>0, <1>1, <2>1 DEF Types
  <2> QED
    BY <1>3, <2>2, <2>3, InitWsFacts
<1>8. Chain'
  <2>1. pc'[Master] # "serial"
    BY <1>0, <1>5
  <2>2. \A v, w \in Ws : Live(v)' /\ serves'[v] = serves'[w] => v = w
    BY <1>6 DEF Live
  <2>3. ASSUME NEW w \in Ws, Live(w)'
        PROVE  /\ serves'[w] \in Base' .. Len(prog'.body)
               /\ serves'[w] = Base' <=> w = Root
               /\ desc'[w].next_ws # NoWs => serves'[desc'[w].next_ws] = serves'[w] + 1
               /\ \A v \in Ws : Live(v)' /\ serves'[v] > serves'[w] => desc'[w].next_ws # NoWs
               /\ w = Root => desc'[w].prev_ws = NoWs
               /\ w # Root => desc'[w].prev_ws # NoWs
    <3>1. w = Root
      BY <1>6, <2>3
    <3>2. b \in b .. Len(p.body)
      BY <1>3
    <3>3. \A v \in Ws : Live(v)' => ~(serves'[v] > b)
      BY <1>6
    <3> QED
      BY <1>4, <1>6, <1>7, <3>1, <3>2, <3>3
  <2> QED
    BY <2>1, <2>2, <2>3 DEF Chain
<1>9. Ends'
  <2>1. ASSUME NEW w \in Ws, NEW k \in Nat, serves'[w] = k
        PROVE  w = Root /\ k = b
    BY <1>6, <2>1 DEF Idle
  <2>2. ~Completed(Master, b + 1)'
    BY <1>0, <1>5 DEF Completed
  <2> QED
    BY <1>0, <2>1, <2>2 DEF Ends
<1>10. At'
  <2>1. \A t \in Threads : ~first'[t]
    BY <1>0 DEF At, AtIn
  <2>2. curr'[Master] = Root
    BY <1>0 DEF ParallelStart, Types
  <2> QED
    BY <1>4, <1>5, <1>6, <2>1, <2>2 DEF At, AtIn
<1>11. Locks'
  <2>1. ASSUME NEW w \in Ws PROVE lock[w] = NoThread
    <3>1. lock[w] # NoThread => lock[w] \in Threads /\ pc[lock[w]] = "start"
      BY DEF Locks, Types
    <3> QED
      BY <1>0, <3>1
  <2>2. \A w \in Ws : lock'[w] = NoThread
    BY <2>1 DEF ParallelStart, Types
  <2> QED
    BY <1>5, <2>2 DEF Locks
<1>12. Pools'
  <2>1. Free' = Free /\ Allocated' = Allocated /\ other' = other /\ Distinct'
    BY <1>0 DEF Pools, Free, Allocated, Distinct
  <2>2. \A w \in Ws : w \in Free' => w # Root /\ w \notin other' /\ ~Live(w)'
    BY <1>6, <2>1 DEF Pools
  <2>3. \A w \in Ws : w \in other' => w # Root /\ ~Live(w)'
    BY <1>6, <2>1 DEF Pools
  <2>4. \A w \in Ws : w \in Allocated' <=> (w = Root \/ w \in Free' \/ w \in other' \/ Live(w)')
    BY <1>0, <1>6, <2>1 DEF Pools
  <2> QED
    BY <2>1, <2>2, <2>3, <2>4, PoolsMove
<1> QED
  BY <1>8, <1>9, <1>10, <1>11, <1>12

\* gomp_team_end frees the only descriptor that is left.
LEMMA TeamEndChain ==
  ASSUME Types, Types', Phases, Chain, Ends, At, Locks, Pools, Embedded, TeamEnd
  PROVE  Chain' /\ Ends' /\ At' /\ Locks' /\ Pools'
<1>0. /\ pc[Master] = "end" /\ Master \in Threads
      /\ UNCHANGED <<curr, new, first, lock, desc, heap, other>>
      /\ pool' = Pushed(curr[Master])
      /\ pc' = [pc EXCEPT ![Master] = "serial"]
      /\ serves' = [serves EXCEPT ![curr[Master]] = Idle]
  BY ServesFacts DEF TeamEnd
<1>1. PICK n \in Nat : n = Len(prog.body)
  BY ProgFacts
<1>2. \A t \in Threads : pos[t] = n /\ pc[t] \in {"docked", "end"}
  BY <1>0, <1>1 DEF Phases
<1>3. PICK w \in Ws : w = curr[Master] /\ serves[w] = n
  BY <1>0, <1>2, ServesFacts DEF At, AtIn
<1>4. Live(w)
  BY <1>3 DEF Live, Idle
<1>5. ASSUME NEW v \in Ws, Live(v) PROVE v = w
  <2>1. PICK k \in Nat : serves[v] = k
    BY <1>5, ServesFacts
  <2>2. k <= n
    BY <1>1, <1>5, <2>1, ServesFacts DEF Chain
  <2>3. CASE k = n
    BY <1>3, <1>5, <2>1, <2>3 DEF Chain
  <2>4. CASE k < n
    <3>1. PICK t \in Threads : ~Completed(t, k + 1)
      BY <1>1, <2>1, <2>4 DEF Ends
    <3>2. pos[t] >= k + 1
      BY <1>2, <2>4
    <3> QED
      BY <1>2, <3>1, <3>2 DEF Completed
  <2> QED
    BY <2>2, <2>3, <2>4
<1>6. \A v \in Ws : ~Live(v)'
  BY <1>0, <1>3, <1>5 DEF Live, Types
<1>7. pc'[Master] = "serial" /\ \A t \in Threads : t # Master => pc'[t] = pc[t]
  BY <1>0 DEF Types
<1>8. Chain'
  BY <1>6 DEF Chain
<1>9. Ends'
  BY <1>6 DEF Ends, Live, Idle
<1>10. At'
  <2>1. \A t \in Threads : ~first'[t]
    BY <1>0, <1>2 DEF At, AtIn
  <2> QED
    BY <1>7, <2>1 DEF At, AtIn
<1>11. Locks'
  <2>1. ASSUME NEW v \in Ws PROVE lock[v] = NoThread
    <3>1. lock[v] # NoThread => lock[v] \in Threads /\ pc[lock[v]] = "start"
      BY DEF Locks, Types
    <3> QED
      BY <1>2, <3>1
  <2> QED
    BY <1>0, <1>2, <1>7, <2>1 DEF Locks
<1>12. Pools'
  <2>1. Allocated' = Allocated
    BY <1>0 DEF Allocated
  <2> QED
    BY <1>0, <1>3, <1>4, <2>1, FreedPools
<1> QED
  BY <1>8, <1>9, <1>10, <1>11, <1>12

-----------------------------------------------------------------------------
(* Iterations *)

\* A number is a multiple when it leaves no remainder.
LEMMA Multiple ==
  ASSUME NEW x \in Int, NEW m \in Nat \ {0}
  PROVE  x % m = 0 <=> \E q \in Int : x = q * m
<1>1. ASSUME x % m = 0 PROVE \E q \in Int : x = q * m
  <2>1. x = (x \div m) * m + (x % m) /\ x \div m \in Int
    BY Z3
  <2>2. PICK q \in Int : q = x \div m
    BY <2>1
  <2>3. x = q * m
    BY <1>1, <2>1, <2>2
  <2> QED
    BY <2>3
<1>2. ASSUME NEW q \in Int, x = q * m PROVE x % m = 0
  <2>1. (q * m) % m = 0
    BY Z3
  <2> QED
    BY <1>2, <2>1
<1> QED
  BY <1>1, <1>2

\* Adding a multiple leaves the remainder zero or not zero.
LEMMA AddMultiple ==
  ASSUME NEW x \in Int, NEW y \in Int, NEW m \in Nat \ {0}, y % m = 0
  PROVE  (x + y) % m = 0 <=> x % m = 0
<1>1. PICK q \in Int : y = q * m
  BY Multiple
<1>2. ASSUME x % m = 0 PROVE (x + y) % m = 0
  <2>1. PICK r \in Int : x = r * m
    BY <1>2, Multiple
  <2>2. PICK p \in Int : p = r + q
    OBVIOUS
  <2>3. PICK z \in Int : z = x + y
    OBVIOUS
  <2>4. z = p * m
    BY <1>1, <2>1, <2>2, <2>3, Z3
  <2>5. z % m = 0
    BY <2>4, Multiple
  <2> QED
    BY <2>3, <2>5
<1>3. ASSUME (x + y) % m = 0 PROVE x % m = 0
  <2>1. PICK r \in Int : x + y = r * m
    <3>1. PICK z \in Int : z = x + y
      OBVIOUS
    <3>2. \E r \in Int : z = r * m
      BY <1>3, <3>1, Multiple
    <3> QED
      BY <3>1, <3>2
  <2>2. PICK p \in Int : p = r - q
    OBVIOUS
  <2>3. x = p * m
    BY <1>1, <2>1, <2>2, Z3
  <2> QED
    BY <2>3, Multiple
<1> QED
  BY <1>2, <1>3

\* The distance of two iterations
Stride(g) == IF g > 0 THEN g ELSE -g

\* Membership, whichever way the loop counts.
LEMMA IterMember ==
  ASSUME NEW s \in Int, NEW e \in Int, NEW g \in Int \ {0}, NEW i
  PROVE  i \in Iterations(s, e, g) <=>
           /\ i \in Int /\ ~Before(i, s, g) /\ Before(i, e, g)
           /\ (i - s) % Stride(g) = 0
<1>1. CASE g > 0
  <2>1. i \in s .. e - 1 <=> i \in Int /\ ~(i < s) /\ i < e
    OBVIOUS
  <2> QED
    BY <1>1, <2>1 DEF Iterations, Before, Stride
<1>2. CASE ~(g > 0)
  <2>1. i \in e + 1 .. s <=> i \in Int /\ ~(i > s) /\ i > e
    OBVIOUS
  <2> QED
    BY <1>2, <2>1 DEF Iterations, Before, Stride
<1> QED
  BY <1>1, <1>2

\* The iterations from one of the loop's iterations on, up to x, are those of
\* the loop between the two.
LEMMA IterSplit ==
  ASSUME NEW s \in Int, NEW e \in Int, NEW g \in Int \ {0}, NEW n \in Iterations(s, e, g),
         NEW x \in Int, ~Before(e, x, g)
  PROVE  \A i : i \in Iterations(n, x, g) <=>
           i \in Iterations(s, e, g) /\ ~Before(i, n, g) /\ Before(i, x, g)
<1>1. /\ n \in Int /\ ~Before(n, s, g) /\ Before(n, e, g) /\ (n - s) % Stride(g) = 0
      /\ Stride(g) \in Nat \ {0}
  BY IterMember DEF Stride
<1>2. SUFFICES ASSUME NEW i \in Int
               PROVE  i \in Iterations(n, x, g) <=>
                        i \in Iterations(s, e, g) /\ ~Before(i, n, g) /\ Before(i, x, g)
  BY <1>1, IterMember
<1>3. (i - s) % Stride(g) = 0 <=> (i - n) % Stride(g) = 0
  <2>1. PICK a \in Int, b \in Int : a = i - n /\ b = n - s
    BY <1>1
  <2>2. i - s = a + b
    BY <1>1, <2>1
  <2>3. (a + b) % Stride(g) = 0 <=> a % Stride(g) = 0
    BY <1>1, <2>1, AddMultiple
  <2> QED
    BY <2>1, <2>2, <2>3
<1>4. ~Before(i, n, g) /\ Before(i, x, g) => ~Before(i, s, g) /\ Before(i, e, g)
  BY <1>1 DEF Before
<1> QED
  BY <1>1, <1>3, <1>4, IterMember

\* The bounds gomp_loop_init and gomp_sections_init set are those of the loop.
LEMMA BoundsExact ==
  ASSUME NEW c \in Constructs, c.kind # "single"
  PROVE  /\ StartOf(c) \in Int /\ EndOf(c) \in Int /\ StepOf(c) \in Int \ {0}
         /\ ~Before(EndOf(c), StartOf(c), StepOf(c))
         /\ \A i : i \in IterationsOf(c) <=> i \in Iterations(StartOf(c), EndOf(c), StepOf(c))
<1>1. CASE c.kind = "loop"
  <2>1. /\ c.start \in Int /\ c.end \in Int /\ c.incr \in Int \ {0}
        /\ StartOf(c) = c.start /\ StepOf(c) = c.incr /\ EndOf(c) \in Int
        /\ IterationsOf(c) = Iterations(c.start, c.end, c.incr)
    BY <1>1, ConstructFacts DEF StartOf, StepOf, EndOf, IterationsOf
  <2>2. CASE \/ c.incr > 0 /\ c.start > c.end
             \/ c.incr < 0 /\ c.start < c.end
    <3>1. EndOf(c) = c.start
      BY <1>1, <2>2 DEF EndOf
    <3>2. ~Before(EndOf(c), StartOf(c), StepOf(c))
      BY <2>1, <3>1 DEF Before
    <3>3. ASSUME NEW i PROVE i \notin Iterations(c.start, c.end, c.incr)
      BY <2>1, <2>2, IterMember DEF Before
    <3>4. ASSUME NEW i PROVE i \notin Iterations(c.start, c.start, c.incr)
      BY <2>1, IterMember DEF Before
    <3> QED
      BY <2>1, <3>1, <3>2, <3>3, <3>4
  <2>3. CASE ~(\/ c.incr > 0 /\ c.start > c.end
               \/ c.incr < 0 /\ c.start < c.end)
    <3>1. EndOf(c) = c.end
      BY <1>1, <2>3 DEF EndOf
    <3>2. ~Before(EndOf(c), StartOf(c), StepOf(c))
      BY <2>1, <2>3, <3>1 DEF Before
    <3> QED
      BY <2>1, <3>1, <3>2
  <2> QED
    BY <2>2, <2>3
<1>2. CASE c.kind = "sections"
  <2>1. PICK m \in Nat : m = c.count
    BY <1>2, ConstructFacts
  <2>2. /\ StartOf(c) = 1 /\ StepOf(c) = 1 /\ EndOf(c) = m + 1 /\ IterationsOf(c) = 1 .. m
    BY <1>2, <2>1 DEF StartOf, StepOf, EndOf, IterationsOf
  <2>3. ~Before(m + 1, 1, 1)
    BY DEF Before
  <2>4. ASSUME NEW i PROVE i \in 1 .. m <=> i \in Iterations(1, m + 1, 1)
    <3>1. i \in Int => (i - 1) % 1 = 0
      BY Z3
    <3>2. i \in Iterations(1, m + 1, 1) <=> i \in Int /\ ~(i < 1) /\ i < m + 1
      BY <3>1 DEF Iterations
    <3> QED
      BY <3>2
  <2> QED
    BY <2>2, <2>3, <2>4
<1> QED
  BY <1>1, <1>2, ConstructFacts

\* The fields of the descriptor of a loop that is under way
Fields(d, c) ==
  /\ d.incr = StepOf(c) /\ d.end = EndOf(c) /\ d.chunk \in Nat
  /\ d.next = EndOf(c) \/ d.next \in Iterations(StartOf(c), EndOf(c), StepOf(c))

\* The next chunk ends at the end of the loop or at one of its iterations,
\* and not before it starts.
LEMMA ChunkFacts ==
  ASSUME NEW c \in Constructs, c.kind # "single", NEW d \in Descs, Fields(d, c), ~Exhausted(d)
  PROVE  /\ d.next \in Iterations(StartOf(c), EndOf(c), StepOf(c))
         /\ ChunkEnd(d) \in Int
         /\ ~Before(ChunkEnd(d), d.next, StepOf(c))
         /\ ~Before(EndOf(c), ChunkEnd(d), StepOf(c))
         /\ \/ ChunkEnd(d) = EndOf(c)
            \/ ChunkEnd(d) \in Iterations(StartOf(c), EndOf(c), StepOf(c))
<1>1. PICK s \in Int, e \in Int, g \in Int \ {0} : s = StartOf(c) /\ e = EndOf(c) /\ g = StepOf(c)
  BY BoundsExact
<1>2. PICK n \in Int, h \in Nat : n = d.next /\ h = d.chunk
  BY DEF Descs, Fields
<1>3. d.end = e /\ d.incr = g /\ n \in Iterations(s, e, g)
  BY <1>1, <1>2 DEF Fields, Exhausted
<1>4. ~Before(n, s, g) /\ Before(n, e, g) /\ (n - s) % Stride(g) = 0 /\ Stride(g) \in Nat \ {0}
  BY <1>3, IterMember DEF Stride
<1>5. PICK f \in Int : f = h * g
  BY Z3
<1>6. (g > 0 => f >= 0) /\ (g < 0 => f <= 0)
  BY <1>5, Z3
<1>7. PICK x : x = ChunkEnd(d)
  OBVIOUS
<1>8. x = n + IF g < 0 THEN IF f < e - n THEN e - n ELSE f
              ELSE IF f > e - n THEN e - n ELSE f
  BY <1>2, <1>3, <1>5, <1>7 DEF ChunkEnd
<1>9. x \in Int /\ (x = e \/ (x = n + f /\ ~Before(e, x, g)))
  BY <1>8 DEF Before
<1>10. ~Before(x, n, g) /\ ~Before(e, x, g)
  BY <1>4, <1>6, <1>9 DEF Before
<1>11. x = e \/ x \in Iterations(s, e, g)
  <2>1. SUFFICES ASSUME x # e PROVE x \in Iterations(s, e, g)
    OBVIOUS
  <2>2. x = n + f /\ Before(x, e, g) /\ ~Before(x, s, g)
    BY <1>4, <1>9, <1>10, <2>1 DEF Before
  <2>3. f % Stride(g) = 0
    <3>1. PICK q \in Int : q = IF g > 0 THEN h ELSE -h
      OBVIOUS
    <3>2. CASE g > 0
      <4>1. f = q * Stride(g)
        BY <1>5, <3>1, <3>2 DEF Stride
      <4> QED
        BY <1>4, <4>1, Multiple
    <3>3. CASE g < 0
      <4>1. h * g = (-h) * (-g)
        BY <3>3, Z3
      <4>2. f = q * Stride(g)
        BY <1>5, <3>1, <3>3, <4>1 DEF Stride
      <4> QED
        BY <1>4, <4>2, Multiple
    <3> QED
      BY <3>2, <3>3
  <2>4. (x - s) % Stride(g) = 0
    <3>1. PICK a \in Int : a = n - s
      OBVIOUS
    <3>2. x - s = a + f
      BY <2>2, <3>1
    <3>3. (a + f) % Stride(g) = 0
      BY <1>4, <2>3, <3>1, AddMultiple
    <3> QED
      BY <3>2, <3>3
  <2> QED
    BY <1>9, <2>2, <2>4, IterMember
<1> QED
  BY <1>1, <1>2, <1>3, <1>7, <1>9, <1>10, <1>11

\* The iterations of the chunks handed out, and that no two chunks share one
ChunkRecs == [from : Int, to : Int]
Handed(h, g) == UNION {Iterations(h[j].from, h[j].to, g) : j \in DOMAIN h}
Apart(h, g) ==
  \A i, j \in DOMAIN h :
    i # j => Iterations(h[i].from, h[i].to, g) \cap Iterations(h[j].from, h[j].to, g) = {}

\* One more chunk.
LEMMA AppendChunk ==
  ASSUME NEW h \in Seq(ChunkRecs), NEW r \in ChunkRecs, NEW g
  PROVE  /\ Append(h, r) \in Seq(ChunkRecs)
         /\ \A i : i \in Handed(Append(h, r), g) <=>
                     i \in Handed(h, g) \/ i \in Iterations(r.from, r.to, g)
         /\ /\ Apart(h, g)
            /\ \A i : ~(i \in Handed(h, g) /\ i \in Iterations(r.from, r.to, g))
            => Apart(Append(h, r), g)
<1> DEFINE I(e) == Iterations(e.from, e.to, g)
<1>1. PICK n \in Nat : n = Len(h)
  OBVIOUS
<1>2. PICK b \in Seq(ChunkRecs) : b = Append(h, r)
  <2>1. Append(h, r) \in Seq(ChunkRecs)
    OBVIOUS
  <2> QED
    BY <2>1, Zenon
<1>3. /\ DOMAIN h = 1 .. n /\ DOMAIN b = 1 .. n + 1 /\ b[n + 1] = r
      /\ \A j \in 1 .. n : b[j] = h[j]
  BY <1>1, <1>2
<1>4. /\ \A i : i \in Handed(h, g) <=> \E j \in 1 .. n : i \in I(h[j])
      /\ \A i : i \in Handed(b, g) <=> \E j \in 1 .. n + 1 : i \in I(b[j])
  BY <1>3 DEF Handed
<1>5. \A j \in 1 .. n + 1 : j \in 1 .. n \/ j = n + 1
  OBVIOUS
<1>6. \A j \in 1 .. n : j \in 1 .. n + 1 /\ j # n + 1
  OBVIOUS
<1>7. n + 1 \in 1 .. n + 1
  OBVIOUS
<1> HIDE DEF I
<1>8. \A i : i \in Handed(b, g) <=> i \in Handed(h, g) \/ i \in I(r)
  BY <1>3, <1>4, <1>5, <1>6, <1>7
<1>9. ASSUME Apart(h, g), \A i : ~(i \in Handed(h, g) /\ i \in I(r)) PROVE Apart(b, g)
  <2>1. ASSUME NEW i \in 1 .. n, NEW j \in 1 .. n, i # j PROVE I(b[i]) \cap I(b[j]) = {}
    <3>1. I(h[i]) \cap I(h[j]) = {}
      BY <1>3, <1>9, <2>1 DEF Apart, I
    <3> QED
      BY <1>3, <3>1
  <2>2. ASSUME NEW i \in 1 .. n PROVE I(b[i]) \cap I(b[n + 1]) = {}
    <3>1. \A x : x \in I(h[i]) => x \in Handed(h, g)
      BY <1>4
    <3> QED
      BY <1>3, <1>9, <3>1
  <2>3. ASSUME NEW i \in 1 .. n + 1, NEW j \in 1 .. n + 1, i # j PROVE I(b[i]) \cap I(b[j]) = {}
    <3>1. CASE i = n + 1
      BY <1>5, <2>2, <2>3, <3>1
    <3>2. CASE j = n + 1
      BY <1>5, <2>2, <2>3, <3>2
    <3>3. CASE i # n + 1 /\ j # n + 1
      BY <1>5, <2>1, <2>3, <3>3
    <3> QED
      BY <3>1, <3>2, <3>3
  <2> QED
    BY <1>3, <2>3 DEF Apart, I
<1> QED
  BY <1>2, <1>8, <1>9 DEF I

\* The chunks handed out are apart, and their iterations those before x.
Cut(h, c, x) ==
  /\ h \in Seq(ChunkRecs)
  /\ Apart(h, StepOf(c))
  /\ \A i : i \in Handed(h, StepOf(c)) <=> i \in IterationsOf(c) /\ Before(i, x, StepOf(c))

\* Nothing has been handed out of a loop that was just set up.
LEMMA StartCut ==
  ASSUME NEW c \in Constructs, c.kind # "single"
  PROVE  /\ Cut(<<>>, c, StartOf(c))
         /\ \/ StartOf(c) = EndOf(c)
            \/ StartOf(c) \in Iterations(StartOf(c), EndOf(c), StepOf(c))
<1>1. PICK s \in Int, e \in Int, g \in Int \ {0} : s = StartOf(c) /\ e = EndOf(c) /\ g = StepOf(c)
  BY BoundsExact
<1>2. <<>> \in Seq(ChunkRecs) /\ Apart(<<>>, g) /\ \A i : i \notin Handed(<<>>, g)
  BY DEF Apart, Handed
<1>3. \A i : ~(i \in IterationsOf(c) /\ Before(i, s, g))
  BY <1>1, BoundsExact, IterMember
<1>4. s = e \/ s \in Iterations(s, e, g)
  <2>1. SUFFICES ASSUME s # e PROVE s \in Iterations(s, e, g)
    OBVIOUS
  <2>2. ~Before(e, s, g)
    BY <1>1, BoundsExact
  <2>3. Before(s, e, g) /\ ~Before(s, s, g)
    BY <2>1, <2>2 DEF Before
  <2>4. (s - s) % Stride(g) = 0
    <3>1. PICK z \in Int : z = s - s /\ z = 0 * Stride(g)
      BY DEF Stride
    <3> QED
      BY <3>1, Multiple DEF Stride
  <2> QED
    BY <2>3, <2>4, IterMember
<1> QED
  BY <1>1, <1>2, <1>3, <1>4 DEF Cut

\* The next chunk is cut off where the last one ended.
LEMMA TakeCut ==
  ASSUME NEW c \in Constructs, c.kind # "single", NEW d \in Descs, Fields(d, c), ~Exhausted(d),
         NEW h, Cut(h, c, d.next)
  PROVE  /\ Cut(Append(h, [from |-> d.next, to |-> ChunkEnd(d)]), c, Taken(d).next)
         /\ Fields(Taken(d), c)
<1>1. PICK s \in Int, e \in Int, g \in Int \ {0} : s = StartOf(c) /\ e = EndOf(c) /\ g = StepOf(c)
  BY BoundsExact
<1>2. PICK n \in Int, x \in Int : n = d.next /\ x = ChunkEnd(d)
  BY ChunkFacts DEF Descs
<1>3. /\ n \in Iterations(s, e, g) /\ ~Before(x, n, g) /\ ~Before(e, x, g)
      /\ x = e \/ x \in Iterations(s, e, g)
  BY <1>1, <1>2, ChunkFacts
<1>4. \A i : i \in IterationsOf(c) <=> i \in Iterations(s, e, g)
  BY <1>1, BoundsExact
<1>5. PICK r : r = [from |-> n, to |-> x] /\ r \in ChunkRecs /\ r.from = n /\ r.to = x
  <2>1. PICK r : r = [from |-> n, to |-> x]
    OBVIOUS
  <2>2. r \in ChunkRecs /\ r.from = n /\ r.to = x
    BY <2>1 DEF ChunkRecs
  <2> QED
    BY <2>1, <2>2
<1>6. \A i : i \in Iterations(n, x, g) <=>
             i \in IterationsOf(c) /\ ~Before(i, n, g) /\ Before(i, x, g)
  BY <1>3, <1>4, IterSplit
<1>7. \A i \in Int : Before(i, n, g) => Before(i, x, g)
  BY <1>3 DEF Before
<1>8. \A i : i \in IterationsOf(c) => i \in Int
  BY <1>4, IterMember
<1>9. /\ h \in Seq(ChunkRecs) /\ Apart(h, g)
      /\ \A i : i \in Handed(h, g) <=> i \in IterationsOf(c) /\ Before(i, n, g)
  BY <1>1, <1>2 DEF Cut
<1>10. \A i : ~(i \in Handed(h, g) /\ i \in Iterations(n, x, g))
  BY <1>6, <1>9
<1>11. Apart(Append(h, r), g) /\ Append(h, r) \in Seq(ChunkRecs)
       /\ \A i : i \in Handed(Append(h, r), g) <=> i \in Handed(h, g) \/ i \in Iterations(n, x, g)
  BY <1>5, <1>9, <1>10, AppendChunk
<1>12. \A i : i \in Handed(Append(h, r), g) <=> i \in IterationsOf(c) /\ Before(i, x, g)
  BY <1>6, <1>7, <1>8, <1>9, <1>11
<1>13. Cut(Append(h, r), c, x)
  BY <1>1, <1>11, <1>12 DEF Cut
<1>14. Taken(d) = [d EXCEPT !.next = x]
  BY <1>2 DEF Taken
<1>15. Taken(d).next = x /\ Taken(d).end = d.end /\ Taken(d).incr = d.incr /\ Taken(d).chunk = d.chunk
  BY <1>14 DEF Descs
<1>16. Fields(Taken(d), c)
  BY <1>1, <1>3, <1>15 DEF Fields
<1> QED
  BY <1>2, <1>5, <1>13, <1>15, <1>16

\* When nothing is left, everything has been handed out.
LEMMA EndCut ==
  ASSUME NEW c \in Constructs, c.kind # "single", NEW d \in Descs, Fields(d, c), Exhausted(d),
         NEW h, Cut(h, c, d.next)
  PROVE  Handed(h, StepOf(c)) = IterationsOf(c)
<1>1. PICK s \in Int, e \in Int, g \in Int \ {0} : s = StartOf(c) /\ e = EndOf(c) /\ g = StepOf(c)
  BY BoundsExact
<1>2. d.next = e
  BY <1>1 DEF Exhausted, Fields
<1>3. \A i : i \in IterationsOf(c) => Before(i, e, g)
  BY <1>1, BoundsExact, IterMember
<1>4. \A i : i \in Handed(h, g) <=> i \in IterationsOf(c)
  BY <1>1, <1>2, <1>3 DEF Cut
<1> QED
  BY <1>1, <1>4

-----------------------------------------------------------------------------
(* What has been handed out *)

\* The descriptor has been allocated and not yet initialised.
Uninit(w) == \E t \in Threads : first[t] /\ new[t] = w
Told(k) == \E t \in Threads : ToldDone(t, k)
Entered(k) == \E t \in Threads : pos[t] >= k

\* The chunks h of a loop c, before and after a thread was told of its end
Shared(h, c, told) ==
  /\ Apart(h, StepOf(c))
  /\ \A i : i \in Handed(h, StepOf(c)) => i \in IterationsOf(c)
  /\ told => Handed(h, StepOf(c)) = IterationsOf(c)

\* The same for a loop whose descriptor is d.
Going(h, c, d, told) ==
  /\ Fields(d, c)
  /\ Cut(h, c, d.next)
  /\ told => Exhausted(d)

\* What has been handed out of construct k.
Part(k) ==
  /\ ~Entered(k) => handed[k] = <<>>
  /\ Construct(k).kind = "single" /\ Entered(k) => handed[k] = <<[from |-> 0, to |-> 1]>>
  /\ Construct(k).kind # "single" => Shared(handed[k], Construct(k), Told(k))
  /\ \A w \in Ws : serves[w] = k /\ ~Uninit(w) =>
       /\ Entered(k)
       /\ Construct(k).kind # "single" => Going(handed[k], Construct(k), desc[w], Told(k))

\* The same for all constructs of the region.
Iters ==
  /\ handed \in [1 .. Len(prog.body) -> Seq(ChunkRecs)]
  /\ \A k \in 1 .. Len(prog.body) : Part(k)

\* The iterations left in w are the same.
BoundsKept(w) ==
  /\ desc'[w].next = desc[w].next /\ desc'[w].end = desc[w].end
  /\ desc'[w].chunk = desc[w].chunk /\ desc'[w].incr = desc[w].incr

\* The step does nothing to construct k.
Keeps(k) ==
  /\ prog' = prog /\ handed'[k] = handed[k]
  /\ Told(k)' <=> Told(k)
  /\ Entered(k)' <=> Entered(k)
  /\ \A w \in Ws : serves'[w] = k /\ ~Uninit(w)' =>
       serves[w] = k /\ ~Uninit(w) /\ BoundsKept(w)

\* Nothing changes for a construct the step does nothing to.
LEMMA PartFrame ==
  ASSUME NEW k, Part(k), Keeps(k)
  PROVE  Part(k)'
<1>1. Construct(k)' = Construct(k) /\ handed'[k] = handed[k]
  BY DEF Keeps, Construct
<1>2. ASSUME NEW w \in Ws, serves'[w] = k, ~Uninit(w)'
      PROVE  /\ Entered(k)'
             /\ Construct(k).kind # "single" => Going(handed[k], Construct(k), desc[w], Told(k))'
  <2>1. serves[w] = k /\ ~Uninit(w) /\ BoundsKept(w)
    BY <1>2 DEF Keeps
  <2>2. /\ Entered(k)
        /\ Construct(k).kind # "single" => Going(handed[k], Construct(k), desc[w], Told(k))
    BY <2>1 DEF Part
  <2>3. Told(k)' <=> Told(k)
    BY DEF Keeps
  <2>4. CASE Construct(k).kind # "single"
    <3>1. PICK c : c = Construct(k)
      OBVIOUS
    <3>2. Fields(desc[w], c) /\ Cut(handed[k], c, desc[w].next) /\ (Told(k) => Exhausted(desc[w]))
      BY <2>2, <2>4, <3>1 DEF Going
    <3>3. Fields(desc'[w], c)
      BY <2>1, <3>2 DEF Fields, BoundsKept
    <3>4. Cut(handed'[k], c, desc'[w].next)
      BY <1>1, <2>1, <3>2 DEF BoundsKept
    <3>5. Told(k)' => Exhausted(desc'[w])
      BY <2>1, <2>3, <3>2 DEF Exhausted, BoundsKept
    <3>6. Going(handed'[k], c, desc'[w], Told(k)')
      BY <3>3, <3>4, <3>5 DEF Going
    <3> QED
      BY <1>1, <2>2, <3>1, <3>6 DEF Keeps
  <2> QED
    BY <2>2, <2>4 DEF Keeps
<1>3. Construct(k).kind # "single" => Shared(handed'[k], Construct(k), Told(k)')
  <2>1. Construct(k).kind # "single" => Shared(handed[k], Construct(k), Told(k))
    BY DEF Part
  <2>2. Told(k)' <=> Told(k)
    BY DEF Keeps
  <2> QED
    BY <1>1, <2>1, <2>2 DEF Shared
<1>4. ~Entered(k)' => handed'[k] = <<>>
  BY <1>1 DEF Part, Keeps
<1>5. Construct(k).kind = "single" /\ Entered(k)' => handed'[k] = <<[from |-> 0, to |-> 1]>>
  BY <1>1 DEF Part, Keeps
<1> QED
  BY <1>1, <1>2, <1>3, <1>4, <1>5 DEF Part

\* A thread takes a chunk of construct k from the descriptor w, or finds that
\* nothing is left.
Takes(k, w, d) ==
  /\ k \in 1 .. Len(prog.body) /\ d \in Descs /\ Construct(k).kind # "single"
  /\ Going(handed[k], Construct(k), d, Told(k))
  /\ desc'[w] = Taken(d) /\ handed' = Handing(k, d)
  /\ prog' = prog /\ serves' = serves
  /\ \A v \in Ws : serves[v] = k => v = w
  /\ Entered(k)'
  /\ Told(k)' <=> Told(k) \/ Exhausted(d)

\* The chunk is the next one of the loop.
LEMMA TakesPart ==
  ASSUME Types, Iters, NEW k, NEW w, NEW d, Takes(k, w, d)
  PROVE  /\ Part(k)'
         /\ handed' \in [1 .. Len(prog.body) -> Seq(ChunkRecs)]
         /\ \A j \in 1 .. Len(prog.body) : j # k => handed'[j] = handed[j]
<1>0. PICK c \in Constructs : c = Construct(k) /\ c.kind # "single"
  BY ProgFacts DEF Takes
<1>1. PICK n \in Nat : n = Len(prog.body) /\ k \in 1 .. n
  BY ProgFacts DEF Takes
<1>2. /\ d \in Descs /\ Fields(d, c) /\ Cut(handed[k], c, d.next) /\ (Told(k) => Exhausted(d))
      /\ handed \in [1 .. n -> Seq(ChunkRecs)]
  BY <1>0, <1>1 DEF Takes, Going, Iters
<1>3. Construct(k)' = c /\ prog' = prog
  BY <1>0 DEF Takes, Construct
<1>4. PICK h : h = handed'[k]
  OBVIOUS
<1>5. SUFFICES ASSUME TRUE
               PROVE /\ Shared(h, c, Told(k)') /\ Going(h, c, Taken(d), Told(k)')
                     /\ handed' \in [1 .. n -> Seq(ChunkRecs)]
                     /\ \A j \in 1 .. n : j # k => handed'[j] = handed[j]
  <2>1. ASSUME NEW v \in Ws, serves'[v] = k PROVE desc'[v] = Taken(d)
    BY <2>1 DEF Takes
  <2> QED
    BY <1>0, <1>1, <1>3, <1>4, <2>1 DEF Takes, Part
<1>6. CASE Exhausted(d)
  <2>1. handed' = handed /\ Taken(d) = d
    BY <1>6 DEF Takes, Handing, Taken
  <2>2. Handed(h, StepOf(c)) = IterationsOf(c)
    BY <1>0, <1>2, <1>4, <1>6, <2>1, EndCut
  <2>3. Shared(h, c, Told(k)')
    BY <1>2, <1>4, <2>1, <2>2 DEF Shared, Cut
  <2>4. Going(h, c, Taken(d), Told(k)')
    BY <1>2, <1>4, <1>6, <2>1 DEF Going
  <2> QED
    BY <1>2, <2>1, <2>3, <2>4
<1>7. CASE ~Exhausted(d)
  <2>1. ~Told(k)'
    BY <1>2, <1>7 DEF Takes
  <2>2. PICK r : r = [from |-> d.next, to |-> ChunkEnd(d)]
    OBVIOUS
  <2>3. /\ handed' = [handed EXCEPT ![k] = Append(@, r)] /\ h = Append(handed[k], r)
        /\ \A j \in 1 .. n : j # k => handed'[j] = handed[j]
    BY <1>1, <1>2, <1>4, <1>7, <2>2 DEF Takes, Handing
  <2>4. Cut(h, c, Taken(d).next) /\ Fields(Taken(d), c)
    BY <1>0, <1>2, <1>7, <2>2, <2>3, TakeCut
  <2>5. h \in Seq(ChunkRecs)
    BY <2>4 DEF Cut
  <2>6. handed' \in [1 .. n -> Seq(ChunkRecs)]
    BY <1>1, <1>2, <2>3, <2>5
  <2>7. Shared(h, c, Told(k)') /\ Going(h, c, Taken(d), Told(k)')
    BY <2>1, <2>4 DEF Shared, Going, Cut
  <2> QED
    BY <2>3, <2>6, <2>7
<1> QED
  BY <1>6, <1>7

\* Two threads do not wait to enter the same construct: they would hold the
\* same lock.
LEMMA OneEnters ==
  ASSUME Types, Chain, At, Locks, pc[Master] # "serial", NEW t \in Threads, NEW u \in Threads,
         pc[t] = "start", pc[u] = "start", new[t] = new[u]
  PROVE  t = u
<1>1. /\ serves[curr[t]] = pos[t] /\ serves[new[t]] = pos[t] + 1 /\ curr[t] \in Ws /\ pos[t] \in Nat
      /\ serves[curr[u]] = pos[u] /\ serves[new[u]] = pos[u] + 1 /\ curr[u] \in Ws /\ pos[u] \in Nat
  BY CurrFacts, ServesFacts
<1>2. pos[t] = pos[u]
  BY <1>1
<1>3. Live(curr[t])
  BY <1>1 DEF Live, Idle
<1>4. curr[t] = curr[u]
  BY <1>1, <1>2, <1>3 DEF Chain
<1> QED
  BY <1>4 DEF Locks

\* Steps that hand out nothing and let no thread enter a construct.
Hushed ==
  /\ UNCHANGED <<prog, handed, pos>>
  /\ \A t \in Threads : pos[t] >= 1 =>
       (pc'[t] \in {"next", "woken"} <=> pc[t] \in {"next", "woken"})
  /\ \A w \in Ws : serves'[w] \in Nat /\ ~Uninit(w)' =>
       serves'[w] = serves[w] /\ ~Uninit(w) /\ BoundsKept(w)

\* They change no construct.
LEMMA HushedIters ==
  ASSUME Types, Iters, Hushed
  PROVE  Iters'
<1>1. \A k \in 1 .. Len(prog.body) : k \in Nat /\ k >= 1
  BY ProgFacts
<1>2. ASSUME NEW k \in 1 .. Len(prog.body) PROVE Part(k)'
  <2>1. \A t \in Threads : ToldDone(t, k)' <=> ToldDone(t, k)
    BY <1>1 DEF Hushed, ToldDone, Types
  <2>2. Keeps(k)
    BY <1>1, <2>1 DEF Hushed, Keeps, Told, Entered
  <2>3. Part(k)
    BY DEF Iters
  <2> QED
    BY <2>2, <2>3, PartFrame
<1> QED
  BY <1>2 DEF Iters, Hushed

\* A thread goes from one place to another.
LEMMA QuietIters ==
  ASSUME Types, Types', Phases, Spots, Together, Iters, NEW t \in Threads,
         InitThread(t) \/ BodyDone(t) \/ Barrier(t)
  PROVE  Iters'
<1>0. /\ pc \in [Threads -> Places] /\ \A u \in Threads : pos[u] \in Nat /\ Spot(u)
  BY ServesFacts DEF Types, Spots
<1>1. UNCHANGED <<prog, handed, pos, serves, first, new, desc>>
  BY DEF InitThread, BodyDone, Barrier
<1>2. ASSUME NEW u \in Threads, pos[u] >= 1
      PROVE  pc'[u] \in {"next", "woken"} <=> pc[u] \in {"next", "woken"}
  <2>1. CASE InitThread(t)
    <3>1. CASE u = t
      <4>1. pc[u] = "woken" /\ pc'[u] = IF prog.combined THEN "next" ELSE "body"
        BY <1>0, <2>1, <3>1 DEF InitThread
      <4>2. prog.combined
        BY <1>0, <1>2, <4>1 DEF Spot, Base
      <4> QED
        BY <4>1, <4>2
    <3>2. CASE u # t
      BY <1>0, <2>1, <3>2 DEF InitThread
    <3> QED
      BY <3>1, <3>2
  <2>2. CASE BodyDone(t)
    BY <1>0, <2>2 DEF BodyDone
  <2>3. CASE Barrier(t) /\ arrived \cup {t} = Threads
    <3>1. pc[u] \in {"bar", "bar_wait", "exit", "exit_wait"}
      BY <2>3, SameBarrier
    <3>2. pc'[u] \in {"body", "docked", "end"}
      BY <2>3, SameBarrier
    <3> QED
      BY <3>1, <3>2
  <2>4. CASE Barrier(t) /\ arrived \cup {t} # Threads
    BY <1>0, <2>4 DEF Barrier
  <2> QED
    BY <2>1, <2>2, <2>3, <2>4
<1>3. Hushed
  BY <1>1, <1>2 DEF Hushed, Uninit, BoundsKept
<1> QED
  BY <1>3, HushedIters

\* A thread finds the next descriptor, or allocates it: then it is not
\* initialised yet.
LEMMA StartIters ==
  ASSUME Types, Types', Phases, Chain, At, Pools, Iters, NEW t \in Threads, WorkShareStart(t)
  PROVE  Iters'
<1>0. /\ pc[t] = "body" /\ pc' = [pc EXCEPT ![t] = "start"] /\ ~first[t]
      /\ UNCHANGED <<prog, pos, handed>>
  BY DEF WorkShareStart, At, AtIn
<1>1. \A u \in Threads : pc'[u] \in {"next", "woken"} <=> pc[u] \in {"next", "woken"}
  BY <1>0 DEF Types
<1>2. CASE desc[curr[t]].next_ws # NoWs
  <2>1. /\ UNCHANGED <<desc, serves>> /\ first' = [first EXCEPT ![t] = FALSE]
        /\ new' = [new EXCEPT ![t] = desc[curr[t]].next_ws]
    BY <1>2 DEF WorkShareStart
  <2>2. \A u \in Threads : first'[u] <=> first[u]
    BY <1>0, <2>1 DEF Types
  <2>3. \A u \in Threads : u # t => new'[u] = new[u]
    BY <2>1 DEF Types
  <2>4. \A w \in Ws : Uninit(w) => Uninit(w)'
    BY <1>0, <2>2, <2>3 DEF Uninit
  <2>5. Hushed
    BY <1>0, <1>1, <2>1, <2>4 DEF Hushed, BoundsKept
  <2> QED
    BY <2>5, HushedIters
<1>3. CASE desc[curr[t]].next_ws = NoWs
  <2>1. PICK c, w : Links(t, c, w)
    BY <1>3, StartLinks
  <2>2. /\ w \in Ws /\ c \in Ws /\ new' = [new EXCEPT ![t] = w] /\ first' = [first EXCEPT ![t] = TRUE]
        /\ serves' = [serves EXCEPT ![w] = pos[t] + 1]
    BY <2>1 DEF Links
  <2>3. Uninit(w)'
    BY <2>2 DEF Uninit, Types
  <2>4. ASSUME NEW v \in Ws, v # w
        PROVE  serves'[v] = serves[v] /\ (Uninit(v) => Uninit(v)') /\ BoundsKept(v)
    <3>1. serves'[v] = serves[v]
      BY <2>2, <2>4 DEF Types
    <3>2. \A u \in Threads : u # t => new'[u] = new[u] /\ first'[u] = first[u]
      BY <2>2 DEF Types
    <3>3. Uninit(v) => Uninit(v)'
      BY <1>0, <3>2 DEF Uninit
    <3>4. BoundsKept(v)
      <4>1. CASE v # c
        BY <2>1, <2>4, <4>1 DEF Links, BoundsKept
      <4>2. CASE v = c
        <5>1. desc[c] \in Descs /\ c = curr[t]
          BY <2>1, <2>2 DEF Links, Types
        <5>2. PICK x \in Ws :
                desc' = [desc EXCEPT ![x] = [@ EXCEPT !.completed = 0, !.next_ws = NoWs,
                                                      !.prev_ws = curr[t]],
                                     ![curr[t]].next_ws = x]
                /\ new' = [new EXCEPT ![t] = x]
          BY <1>3 DEF WorkShareStart
        <5>3. x = w
          BY <2>2, <5>2 DEF Types
        <5>4. desc' = [desc EXCEPT ![w] = [@ EXCEPT !.completed = 0, !.next_ws = NoWs, !.prev_ws = c],
                                   ![c].next_ws = w]
          BY <5>1, <5>2, <5>3
        <5>5. desc'[c] = [desc[c] EXCEPT !.next_ws = w]
          BY <2>2, <2>4, <4>2, <5>4 DEF Types
        <5> QED
          BY <4>2, <5>1, <5>5 DEF BoundsKept, Descs
      <4> QED
        BY <4>1, <4>2
    <3> QED
      BY <3>1, <3>3, <3>4
  <2>5. Hushed
    BY <1>0, <1>1, <2>3, <2>4 DEF Hushed
  <2> QED
    BY <2>5, HushedIters
<1> QED
  BY <1>2, <1>3

\* A descriptor that is freed is in use no more; the others are as before.
LEMMA CompletesServes ==
  ASSUME Types, NEW w \in Ws, Completes(w)
  PROVE  \A v \in Ws : (serves'[v] \in Nat => serves'[v] = serves[v]) /\ BoundsKept(v)
<1>1. \A v \in Ws : BoundsKept(v)
  BY CompletesFacts DEF BoundsKept
<1>2. CASE serves' = serves
  BY <1>1, <1>2
<1>3. CASE serves' = [serves EXCEPT ![desc[w].prev_ws] = Idle]
  BY <1>1, <1>3 DEF Types, Idle
<1> QED
  BY <1>2, <1>3 DEF Completes

\* A thread calls the end of a loop.
LEMMA LoopEndIters ==
  ASSUME Types, Iters, NEW t \in Threads, LoopEnd(t)
  PROVE  Iters'
<1>0. /\ pc[t] = "done" /\ Completes(curr[t]) /\ curr[t] \in Ws
      /\ UNCHANGED <<prog, pos, new, first, handed>>
      /\ pc' = [pc EXCEPT ![t] = IF Construct(pos[t]).nowait THEN "body" ELSE "bar"]
  BY DEF LoopEnd, Types
<1>1. \A u \in Threads : pc'[u] \in {"next", "woken"} <=> pc[u] \in {"next", "woken"}
  BY <1>0 DEF Types
<1>2. \A v \in Ws : (serves'[v] \in Nat => serves'[v] = serves[v]) /\ BoundsKept(v)
  BY <1>0, CompletesServes
<1>3. \A v \in Ws : Uninit(v)' <=> Uninit(v)
  BY <1>0 DEF Uninit
<1>4. Hushed
  BY <1>0, <1>1, <1>2, <1>3 DEF Hushed
<1> QED
  BY <1>4, HushedIters

\* When thread t enters construct k, nothing changes for the others.
LEMMA EntersKeeps ==
  ASSUME Types, Types', Phases, At, Iters, NEW t \in Threads, Enters(t), NEW k, k = pos[t] + 1,
         NEW j \in 1 .. Len(prog.body), j # k, handed'[j] = handed[j],
         \A v \in Ws : serves'[v] \in Nat => serves'[v] = serves[v],
         \A v \in Ws : v # new[t] => BoundsKept(v)
  PROVE  Part(j)'
<1>0. /\ pc[t] = "start" /\ pc[Master] # "serial" /\ j \in Nat /\ pos[t] \in Nat /\ k \in Nat
      /\ serves[new[t]] = k /\ pc'[t] \notin {"start", "woken", "serial"}
  BY MasterBusy, CurrFacts, ServesFacts, ProgFacts DEF Enters
<1>1. /\ pos'[t] = k /\ ~first'[t]
      /\ \A u \in Threads : u # t => /\ pos'[u] = pos[u] /\ pc'[u] = pc[u]
                                     /\ first'[u] = first[u] /\ new'[u] = new[u]
  BY DEF Enters, Types
<1>2. ASSUME NEW u \in Threads
      PROVE  (ToldDone(u, j)' <=> ToldDone(u, j)) /\ (pos'[u] >= j <=> pos[u] >= j)
  <2>1. CASE u = t
    <3>1. ToldDone(u, j) <=> pos[t] >= j
      BY <1>0, <2>1 DEF ToldDone
    <3>2. ToldDone(u, j)' <=> k > j
      BY <1>0, <1>1, <2>1 DEF ToldDone
    <3> QED
      BY <1>0, <1>1, <2>1, <3>1, <3>2
  <2>2. CASE u # t
    BY <1>1, <2>2 DEF ToldDone
  <2> QED
    BY <2>1, <2>2
<1>3. (Told(j)' <=> Told(j)) /\ (Entered(j)' <=> Entered(j))
  BY <1>2 DEF Told, Entered
<1>4. ASSUME NEW w \in Ws, serves'[w] = j, ~Uninit(w)'
      PROVE  serves[w] = j /\ ~Uninit(w) /\ BoundsKept(w)
  <2>1. serves[w] = j /\ w # new[t]
    BY <1>0, <1>4
  <2>2. ~Uninit(w)
    BY <1>1, <1>4, <2>1 DEF Uninit
  <2> QED
    BY <2>1, <2>2
<1>5. Keeps(j)
  BY <1>3, <1>4 DEF Keeps, Enters
<1> QED
  BY <1>5, PartFrame DEF Iters

\* A thread that is not the first to enter a construct finds it set up.
LEMMA NotFirst ==
  ASSUME Types, Phases, Chain, At, Locks, NEW t \in Threads, pc[t] = "start", ~first[t]
  PROVE  ~Uninit(new[t])
<1>1. pc[Master] # "serial"
  BY MasterBusy
<1>2. ASSUME NEW u \in Threads, first[u], new[u] = new[t] PROVE FALSE
  <2>1. pc[u] = "start"
    BY <1>2 DEF At, AtIn
  <2>2. u = t
    BY <1>1, <1>2, <2>1, OneEnters
  <2> QED
    BY <1>2, <2>2
<1> QED
  BY <1>2 DEF Uninit

\* Before the first thread enters a construct nothing of it was handed out.
LEMMA FirstEnters ==
  ASSUME Types, Phases, At, Iters, NEW t \in Threads, first[t],
         NEW k \in 1 .. Len(prog.body), k = pos[t] + 1
  PROVE  ~Entered(k) /\ ~Told(k) /\ handed[k] = <<>>
<1>0. pc[t] = "start" /\ pos[t] \in Nat /\ \A u \in Threads : pos[u] \in Nat
  BY ServesFacts DEF At, AtIn
<1>1. pc[Master] # "serial"
  BY <1>0, MasterBusy
<1>2. \A u \in Threads : pos[u] <= pos[t]
  BY <1>1 DEF At, AtIn
<1>3. \A u \in Threads : ~(pos[u] >= k)
  BY <1>0, <1>2
<1>4. ~Entered(k)
  BY <1>3 DEF Entered
<1>5. ~Told(k)
  <2>1. \A u \in Threads : ~(pos[u] > k) /\ pos[u] # k
    BY <1>0, <1>3
  <2> QED
    BY <2>1 DEF Told, ToldDone
<1> QED
  BY <1>4, <1>5 DEF Iters, Part

\* A thread enters a loop, sets it up if it is the first, and takes a chunk.
LEMMA LoopStartIters ==
  ASSUME Types, Types', Phases, Spots, Chain, Ends, At, Locks, Pools, Iters,
         NEW t \in Threads, LoopStart(t)
  PROVE  Iters'
<1>0. /\ pc[t] = "start" /\ pc[Master] # "serial"
      /\ UNCHANGED <<prog, serves>> /\ Construct(pos[t] + 1).kind # "single"
  BY MasterBusy DEF LoopStart, Advances
<1>1. PICK n \in Nat : n = pos[t]
  BY ServesFacts
<1>2. PICK k \in 1 .. Len(prog.body) : k = n + 1
  BY <1>0, <1>1, ProgFacts DEF Spots, Spot
<1>3. PICK w \in Ws : w = new[t] /\ serves[w] = k
  BY <1>0, <1>1, <1>2, CurrFacts
<1>4. PICK d \in Descs : /\ d = IF first[t] THEN InitWs(desc[w], Construct(k)) ELSE desc[w]
                         /\ Rebinds(w, Taken(d))
                         /\ handed' = Handing(k, d)
                         /\ pc' = [pc EXCEPT ![t] = IF Exhausted(d) THEN "done" ELSE "next"]
  BY <1>1, <1>2, <1>3, LoopStartBinds
<1>5. PICK c \in Constructs : c = Construct(k) /\ c.kind # "single"
  BY <1>0, <1>1, <1>2, ProgFacts
<1>6. desc'[w] = Taken(d) /\ \A v \in Ws : v # w => desc'[v] = desc[v]
  BY <1>3, <1>4 DEF Rebinds, Types
<1>7. Enters(t)
  <2>1. LinksKept
    BY <1>3, <1>4, RebindsFacts
  <2>2. PICK l \in {"next", "done"} : pc' = [pc EXCEPT ![t] = l]
    BY <1>4
  <2> QED
    BY <2>1, <2>2 DEF LoopStart, Advances, Enters, Types, LinksKept
<1>8. Going(handed[k], c, d, Told(k))
  <2>1. CASE first[t]
    <3>1. ~Told(k) /\ handed[k] = <<>>
      BY <1>1, <1>2, <2>1, FirstEnters
    <3>2. d = InitWs(desc[w], c) /\ desc[w] \in Descs
      BY <1>3, <1>4, <1>5, <2>1 DEF Types
    <3>3. d.next = StartOf(c) /\ d.end = EndOf(c) /\ d.incr = StepOf(c) /\ d.chunk \in Nat
      BY <1>5, <3>2, InitWsFacts
    <3>4. Cut(<<>>, c, StartOf(c)) /\ (\/ StartOf(c) = EndOf(c)
                                      \/ StartOf(c) \in Iterations(StartOf(c), EndOf(c), StepOf(c)))
      BY <1>5, StartCut
    <3>5. Fields(d, c)
      BY <3>3, <3>4 DEF Fields
    <3> QED
      BY <3>1, <3>3, <3>4, <3>5 DEF Going
  <2>2. CASE ~first[t]
    <3>1. ~Uninit(w)
      BY <1>0, <1>3, <2>2, NotFirst
    <3>2. Part(k)
      BY <1>2 DEF Iters
    <3> QED
      BY <1>3, <1>4, <1>5, <2>2, <3>1, <3>2 DEF Part
  <2> QED
    BY <2>1, <2>2
<1>9. /\ pos'[t] = k /\ pc'[t] = IF Exhausted(d) THEN "done" ELSE "next"
      /\ \A u \in Threads : u # t => pos'[u] = pos[u] /\ pc'[u] = pc[u]
  BY <1>1, <1>2, <1>4, <1>7 DEF Enters, Types
<1>10. Entered(k)'
  <2>1. pos'[t] >= k
    BY <1>2, <1>9, ProgFacts
  <2> QED
    BY <2>1 DEF Entered
<1>11. Told(k)' <=> Told(k) \/ Exhausted(d)
  <2>1. ToldDone(t, k)' <=> Exhausted(d)
    BY <1>2, <1>9, ProgFacts DEF ToldDone
  <2>2. ~ToldDone(t, k)
    BY <1>1, <1>2, ProgFacts DEF ToldDone
  <2>3. \A u \in Threads : u # t => (ToldDone(u, k)' <=> ToldDone(u, k))
    BY <1>9 DEF ToldDone
  <2> QED
    BY <2>1, <2>2, <2>3 DEF Told
<1>12. \A v \in Ws : serves[v] = k => v = w
  <2>1. Live(w)
    BY <1>2, <1>3 DEF Live, Idle
  <2> QED
    BY <1>3, <2>1 DEF Chain
<1>13. Takes(k, w, d)
  BY <1>0, <1>2, <1>4, <1>5, <1>6, <1>8, <1>10, <1>11, <1>12 DEF Takes
<1>14. /\ Part(k)'
       /\ handed' \in [1 .. Len(prog.body) -> Seq(ChunkRecs)]
       /\ \A j \in 1 .. Len(prog.body) : j # k => handed'[j] = handed[j]
  BY <1>13, TakesPart
<1>15. ASSUME NEW j \in 1 .. Len(prog.body) PROVE Part(j)'
  <2>1. \A v \in Ws : v # new[t] => BoundsKept(v)
    BY <1>3, <1>6 DEF BoundsKept
  <2>2. k = pos[t] + 1
    BY <1>1, <1>2
  <2>3. j # k => Part(j)'
    BY <1>0, <1>7, <1>14, <2>1, <2>2, EntersKeeps
  <2> QED
    BY <1>14, <2>3
<1> QED
  BY <1>0, <1>14, <1>15 DEF Iters

\* A thread enters a single: the first runs the block.
LEMMA SingleStartIters ==
  ASSUME Types, Types', Phases, Spots, Chain, Ends, At, Locks, Pools, Iters,
         NEW t \in Threads, SingleStart(t)
  PROVE  Iters'
<1>0. /\ pc[t] = "start" /\ pc[Master] # "serial" /\ Advances(t) /\ Completes(new[t])
      /\ prog' = prog /\ Construct(pos[t] + 1).kind = "single"
      /\ pc' = [pc EXCEPT ![t] = IF Construct(pos[t] + 1).nowait THEN "body" ELSE "bar"]
  BY MasterBusy DEF SingleStart, Advances
<1>1. PICK n \in Nat : n = pos[t]
  BY ServesFacts
<1>2. PICK k \in 1 .. Len(prog.body) : k = n + 1
  BY <1>0, <1>1, ProgFacts DEF Spots, Spot
<1>3. PICK w \in Ws : w = new[t] /\ serves[w] = k
  BY <1>0, <1>1, <1>2, CurrFacts
<1>4. PICK b : b = [from |-> 0, to |-> 1]
  OBVIOUS
<1>5. b \in ChunkRecs
  BY <1>4 DEF ChunkRecs
<1>6. handed' = IF first[t] THEN [handed EXCEPT ![k] = Append(@, b)] ELSE handed
  BY <1>1, <1>2, <1>4 DEF SingleStart
<1>7. \A v \in Ws : (serves'[v] \in Nat => serves'[v] = serves[v]) /\ BoundsKept(v)
  BY <1>0, <1>3, CompletesServes
<1>8. Enters(t)
  <2>1. \A v \in Ws : desc'[v].next_ws = desc[v].next_ws
    BY <1>0, <1>3, CompletesFacts
  <2>2. PICK l \in {"body", "bar"} : pc' = [pc EXCEPT ![t] = l]
    BY <1>0
  <2> QED
    BY <1>0, <2>1, <2>2 DEF Advances, Enters, Types
<1>9. handed \in [1 .. Len(prog.body) -> Seq(ChunkRecs)] /\ Part(k)
  BY <1>2 DEF Iters
<1>10. /\ handed' \in [1 .. Len(prog.body) -> Seq(ChunkRecs)]
       /\ handed'[k] = <<b>>
       /\ \A j \in 1 .. Len(prog.body) : j # k => handed'[j] = handed[j]
  <2>1. CASE first[t]
    <3>1. handed[k] = <<>>
      BY <1>1, <1>2, <2>1, FirstEnters
    <3>2. Append(handed[k], b) = <<b>> /\ <<b>> \in Seq(ChunkRecs)
      BY <1>5, <3>1
    <3> QED
      BY <1>6, <1>9, <2>1, <3>2
  <2>2. CASE ~first[t]
    <3>1. ~Uninit(w)
      BY <1>0, <1>3, <2>2, NotFirst
    <3>2. Entered(k)
      BY <1>3, <1>9, <3>1 DEF Part
    <3> QED
      BY <1>0, <1>1, <1>2, <1>4, <1>6, <1>9, <2>2, <3>2 DEF Part
  <2> QED
    BY <2>1, <2>2
<1>11. Entered(k)'
  <2>1. pos'[t] = k
    BY <1>1, <1>2, <1>8 DEF Enters, Types
  <2>2. pos'[t] >= k
    BY <1>2, <2>1, ProgFacts
  <2> QED
    BY <2>2 DEF Entered
<1>12. Part(k)'
  <2>1. Construct(k)' = Construct(k) /\ Construct(k).kind = "single"
    BY <1>0, <1>1, <1>2 DEF Construct
  <2> QED
    BY <1>4, <1>10, <1>11, <2>1 DEF Part
<1>13. ASSUME NEW j \in 1 .. Len(prog.body) PROVE Part(j)'
  <2>1. k = pos[t] + 1
    BY <1>1, <1>2
  <2>2. j # k => Part(j)'
    BY <1>7, <1>8, <1>10, <2>1, EntersKeeps
  <2> QED
    BY <1>12, <2>2
<1> QED
  BY <1>0, <1>10, <1>13 DEF Iters

\* A thread takes a chunk of the loop it is in.
LEMMA LoopNextIters ==
  ASSUME Types, Types', Phases, Spots, Chain, At, Iters, NEW t \in Threads, LoopNext(t)
  PROVE  Iters'
<1>0. /\ pc[t] = "next" /\ pc[Master] # "serial"
      /\ UNCHANGED <<prog, pos, new, first, serves>>
  BY MasterBusy DEF LoopNext
<1>1. PICK k \in 1 .. Len(prog.body) : k = pos[t] /\ Construct(k).kind # "single"
  <2>1. /\ pos[t] \in Nat /\ pos[t] >= 1 /\ pos[t] <= Len(prog.body)
        /\ Construct(pos[t]).kind # "single"
    BY <1>0, ServesFacts DEF Spots, Spot
  <2>2. pos[t] \in 1 .. Len(prog.body)
    BY <2>1, ProgFacts
  <2> QED
    BY <2>1, <2>2
<1>2. PICK w \in Ws : w = curr[t] /\ serves[w] = k
  BY <1>0, <1>1, ServesFacts DEF At, AtIn
<1>3. PICK d \in Descs : d = desc[w]
  BY DEF Types
<1>4. /\ desc' = [desc EXCEPT ![w] = Taken(d)] /\ handed' = Handing(k, d)
      /\ pc' = [pc EXCEPT ![t] = IF Exhausted(d) THEN "done" ELSE "next"]
  BY <1>1, <1>2, <1>3 DEF LoopNext
<1>5. desc'[w] = Taken(d) /\ \A v \in Ws : v # w => desc'[v] = desc[v]
  BY <1>4 DEF Types
<1>6. ~Uninit(w)
  <2>1. ASSUME NEW u \in Threads, first[u], new[u] = w PROVE FALSE
    <3>1. pc[u] = "start" /\ pos[t] <= pos[u] /\ pos[u] \in Nat
      BY <1>0, <2>1, ServesFacts DEF At, AtIn
    <3>2. serves[w] = pos[u] + 1
      BY <1>0, <2>1, <3>1, CurrFacts
    <3> QED
      BY <1>1, <1>2, <3>1, <3>2, ProgFacts
  <2> QED
    BY <2>1 DEF Uninit
<1>7. Going(handed[k], Construct(k), d, Told(k))
  <2>1. Part(k)
    BY <1>1 DEF Iters
  <2> QED
    BY <1>1, <1>2, <1>3, <1>6, <2>1 DEF Part
<1>8. /\ pc'[t] = IF Exhausted(d) THEN "done" ELSE "next"
      /\ \A u \in Threads : u # t => pc'[u] = pc[u]
  BY <1>4 DEF Types
<1>9. Entered(k)'
  <2>1. pos'[t] >= k
    BY <1>0, <1>1, ProgFacts
  <2> QED
    BY <2>1 DEF Entered
<1>10. Told(k)' <=> Told(k) \/ Exhausted(d)
  <2>1. ToldDone(t, k)' <=> Exhausted(d)
    BY <1>0, <1>1, <1>8, ProgFacts DEF ToldDone
  <2>2. ~ToldDone(t, k)
    BY <1>0, <1>1, ProgFacts DEF ToldDone
  <2>3. \A u \in Threads : u # t => (ToldDone(u, k)' <=> ToldDone(u, k))
    BY <1>0, <1>8 DEF ToldDone
  <2> QED
    BY <2>1, <2>2, <2>3 DEF Told
<1>11. \A v \in Ws : serves[v] = k => v = w
  <2>1. Live(w)
    BY <1>1, <1>2 DEF Live, Idle
  <2> QED
    BY <1>2, <2>1 DEF Chain
<1>12. Takes(k, w, d)
  BY <1>0, <1>1, <1>4, <1>5, <1>7, <1>9, <1>10, <1>11 DEF Takes
<1>13. /\ Part(k)'
       /\ handed' \in [1 .. Len(prog.body) -> Seq(ChunkRecs)]
       /\ \A j \in 1 .. Len(prog.body) : j # k => handed'[j] = handed[j]
  BY <1>12, TakesPart
<1>14. ASSUME NEW j \in 1 .. Len(prog.body), j # k PROVE Part(j)'
  <2>1. \A u \in Threads : ToldDone(u, j)' <=> ToldDone(u, j)
    <3>1. ToldDone(t, j)' <=> ToldDone(t, j)
      BY <1>0, <1>1, <1>14 DEF ToldDone
    <3>2. \A u \in Threads : u # t => (ToldDone(u, j)' <=> ToldDone(u, j))
      BY <1>0, <1>8 DEF ToldDone
    <3> QED
      BY <3>1, <3>2
  <2>2. (Told(j)' <=> Told(j)) /\ (Entered(j)' <=> Entered(j))
    BY <1>0, <2>1 DEF Told, Entered
  <2>3. \A v \in Ws : Uninit(v)' <=> Uninit(v)
    BY <1>0 DEF Uninit
  <2>4. \A v \in Ws : serves'[v] = j => v # w /\ BoundsKept(v)
    BY <1>0, <1>2, <1>5, <1>14 DEF BoundsKept
  <2>5. Keeps(j)
    BY <1>0, <1>13, <1>14, <2>2, <2>3, <2>4 DEF Keeps
  <2>6. Part(j)
    BY DEF Iters
  <2> QED
    BY <2>5, <2>6, PartFrame
<1> QED
  BY <1>0, <1>13, <1>14 DEF Iters

\* A region starts with nothing handed out, and the root set up if its first
\* loop is the region's.
LEMMA ParallelStartIters ==
  ASSUME Types, Types', Phases, Chain, At, ParallelStart
  PROVE  Iters'
<1>0. /\ pc[Master] = "serial" /\ Master \in Threads /\ Root \in Ws
      /\ \A t \in Threads : pc[t] \in {"serial", "docked"}
      /\ \A w \in Ws : ~Live(w)
  <2>1. pc[Master] = "serial"
    BY DEF ParallelStart
  <2>2. \A t \in Threads : pc[t] \in {"serial", "docked"}
    BY <2>1, ServesFacts DEF Phases
  <2> QED
    BY <2>1, <2>2, ServesFacts DEF Chain
<1>1. PICK p \in Programs :
             LET root == [desc[Root] EXCEPT !.next_ws = NoWs, !.prev_ws = NoWs]
             IN  /\ prog' = p
                 /\ desc' = [desc EXCEPT ![Root] =
                               IF p.combined THEN InitWs(root, p.body[1]) ELSE root]
                 /\ pos' = [t \in Threads |-> IF p.combined THEN 1 ELSE 0]
                 /\ pc' = [t \in Threads |-> IF t # Master THEN "woken"
                                             ELSE IF p.combined THEN "next" ELSE "body"]
                 /\ serves' = [serves EXCEPT ![Root] = IF p.combined THEN 1 ELSE 0]
                 /\ handed' = [k \in 1 .. Len(p.body) |-> <<>>]
  BY DEF ParallelStart
<1>2. PICK b \in {0, 1} : b = IF p.combined THEN 1 ELSE 0
  OBVIOUS
<1>3. /\ p.body \in Seq(Constructs) /\ Len(p.body) \in Nat
      /\ p.combined => p.body[1] \in Constructs /\ p.body[1].kind # "single"
      /\ \A k \in 1 .. Len(p.body) : p.body[k] \in Constructs
  BY ProgramAssumption
<1>4. \A t \in Threads : /\ pos'[t] = b
                         /\ pc'[t] \in {"woken", "next"} \/ (b = 0 /\ pc'[t] = "body")
  BY <1>1, <1>2
<1>5. serves'[Root] = b /\ \A w \in Ws : w # Root => serves'[w] = Idle
  BY <1>0, <1>1, <1>2 DEF Types, Live
<1>6. handed' \in [1 .. Len(p.body) -> Seq(ChunkRecs)]
  BY <1>1
<1>7. ASSUME NEW k \in 1 .. Len(p.body) PROVE Part(k)'
  <2>0. PICK c \in Constructs : c = p.body[k] /\ Construct(k)' = c
    BY <1>1, <1>3 DEF Construct
  <2>1. handed'[k] = <<>>
    BY <1>1
  <2>2. ~Told(k)'
    <3>1. k \in Nat /\ k >= 1
      BY <1>3
    <3>2. \A t \in Threads : ~ToldDone(t, k)'
      BY <1>4, <3>1 DEF ToldDone
    <3> QED
      BY <3>2 DEF Told
  <2>3. Entered(k)' <=> k = b
    <3>1. k \in Nat /\ k >= 1
      BY <1>3
    <3>2. \A t \in Threads : pos'[t] >= k <=> k = b
      BY <1>4, <3>1
    <3> QED
      BY <1>0, <3>2 DEF Entered
  <2>4. k = b => p.combined /\ k = 1 /\ c.kind # "single"
    BY <1>2, <1>3, <2>0
  <2>5. ASSUME c.kind # "single" PROVE Shared(<<>>, c, FALSE) /\ Cut(<<>>, c, StartOf(c))
    <3>1. Cut(<<>>, c, StartOf(c))
      BY <2>5, StartCut
    <3> QED
      BY <3>1 DEF Shared, Cut
  <2>6. ASSUME NEW w \in Ws, serves'[w] = k
        PROVE  Entered(k)' /\ Going(<<>>, c, desc'[w], FALSE)
    <3>1. w = Root /\ k = b
      BY <1>3, <1>5, <2>6 DEF Idle
    <3>2. PICK root : root = [desc[Root] EXCEPT !.next_ws = NoWs, !.prev_ws = NoWs]
      OBVIOUS
    <3>3. root \in Descs
      <4>1. desc[Root] \in Descs
        BY <1>0 DEF Types
      <4> QED
        BY <3>2, <4>1 DEF Descs
    <3>4. desc'[w] = InitWs(root, c)
      BY <1>0, <1>1, <2>0, <2>4, <3>1, <3>2 DEF Types
    <3>5. /\ desc'[w].next = StartOf(c) /\ desc'[w].end = EndOf(c)
          /\ desc'[w].incr = StepOf(c) /\ desc'[w].chunk \in Nat
      BY <2>4, <3>1, <3>3, <3>4, InitWsFacts
    <3>6. Fields(desc'[w], c)
      BY <2>4, <3>1, <3>5, StartCut DEF Fields
    <3> QED
      BY <2>3, <2>4, <2>5, <3>1, <3>5, <3>6 DEF Going
  <2>7. Shared(handed'[k], c, Told(k)') \/ c.kind = "single"
    BY <2>1, <2>2, <2>5 DEF Shared
  <2>8. \A w \in Ws : serves'[w] = k =>
           Entered(k)' /\ Going(handed'[k], c, desc'[w], Told(k)')
    BY <2>1, <2>2, <2>6 DEF Going
  <2> QED
    BY <2>0, <2>1, <2>3, <2>4, <2>7, <2>8 DEF Part
<1> QED
  BY <1>1, <1>6, <1>7 DEF Iters

\* Outside of a region nothing is handed out.
LEMMA NoRegionIters ==
  ASSUME prog = NoProgram, handed = <<>>
  PROVE  Iters
BY DEF Iters, NoProgram

\* The region is over.
LEMMA TeamEndIters ==
  ASSUME TeamEnd
  PROVE  Iters'
BY DEF TeamEnd, Iters, NoProgram

\* Other teams hand out nothing of this one.
LEMMA OthersIters ==
  ASSUME Types, Iters, OtherAlloc \/ OtherFree \/ UNCHANGED vars
  PROVE  Iters'
<1>1. UNCHANGED <<prog, handed, pos, pc, serves, first, new, desc>>
  BY DEF OtherAlloc, OtherFree, vars
<1>2. Hushed
  BY <1>1 DEF Hushed, Uninit, BoundsKept
<1> QED
  BY <1>2, HushedIters

\* Every step keeps what has been handed out in order.
LEMMA NextIters ==
  ASSUME IInv, IInv', Iters, [Next]_vars
  PROVE  Iters'
<1>0. Types /\ Types' /\ Phases /\ Spots /\ Together /\ Chain /\ Ends /\ At /\ Locks /\ Pools
  BY DEF IInv
<1>1. ASSUME NEW t \in Threads, Step(t) PROVE Iters'
  <2>1. CASE InitThread(t) \/ BodyDone(t) \/ Barrier(t)
    BY <1>0, <2>1, QuietIters
  <2>2. CASE WorkShareStart(t)
    BY <1>0, <2>2, StartIters
  <2>3. CASE LoopStart(t)
    BY <1>0, <2>3, LoopStartIters
  <2>4. CASE SingleStart(t)
    BY <1>0, <2>4, SingleStartIters
  <2>5. CASE LoopNext(t)
    BY <1>0, <2>5, LoopNextIters
  <2>6. CASE LoopEnd(t)
    BY <1>0, <2>6, LoopEndIters
  <2> QED
    BY <1>1, <2>1, <2>2, <2>3, <2>4, <2>5, <2>6 DEF Step
<1>2. CASE ParallelStart
  BY <1>0, <1>2, ParallelStartIters
<1>3. CASE TeamEnd
  BY <1>3, TeamEndIters
<1>4. CASE OtherAlloc \/ OtherFree \/ UNCHANGED vars
  BY <1>0, <1>4, OthersIters
<1> QED
  BY <1>1, <1>2, <1>3, <1>4 DEF Next

\* It says what EachIterationOnce asks for.
LEMMA ItersSuffice ==
  ASSUME Types, Iters
  PROVE  EachIterationOnce
<1>1. DOMAIN handed = 1 .. Len(prog.body)
  BY DEF Iters
<1>2. ASSUME NEW k \in 1 .. Len(prog.body), NEW parts,
             parts = {ChunkIters(k, j) : j \in DOMAIN handed[k]}
      PROVE  /\ \A i, j \in DOMAIN handed[k] :
                  i # j => ChunkIters(k, i) \cap ChunkIters(k, j) = {}
             /\ UNION parts \subseteq IterationsOf(Construct(k))
             /\ (\E t \in Threads : ToldDone(t, k)) =>
                  UNION parts = IterationsOf(Construct(k))
  <2>0. PICK c \in Constructs : c = Construct(k)
    BY ProgFacts
  <2>1. PICK h : h = handed[k]
    OBVIOUS
  <2>2. UNION parts = Handed(h, StepOf(c))
    BY <1>2, <2>0, <2>1 DEF Handed, ChunkIters
  <2>3. Apart(h, StepOf(c)) =>
          \A i, j \in DOMAIN handed[k] : i # j => ChunkIters(k, i) \cap ChunkIters(k, j) = {}
    BY <2>0, <2>1 DEF Apart, ChunkIters
  <2>4. SUFFICES Shared(h, c, Told(k))
    BY <2>0, <2>2, <2>3 DEF Shared, Told
  <2>5. Part(k)
    BY DEF Iters
  <2>6. CASE c.kind # "single"
    BY <2>0, <2>1, <2>5, <2>6 DEF Part
  <2>7. CASE c.kind = "single"
    <3>1. IterationsOf(c) = {0} /\ StepOf(c) = 1
      BY <2>7 DEF IterationsOf, StepOf
    <3>2. CASE ~Entered(k)
      <4>1. h = <<>> /\ \A t \in Threads : ~(pos[t] >= k)
        BY <2>1, <2>5, <3>2 DEF Part, Entered
      <4>2. ~Told(k)
        BY <4>1, ProgFacts DEF Told, ToldDone, Types
      <4>3. Apart(h, 1) /\ \A i : i \notin Handed(h, 1)
        BY <4>1 DEF Apart, Handed
      <4> QED
        BY <3>1, <4>2, <4>3 DEF Shared
    <3>3. CASE Entered(k)
      <4>1. h = <<[from |-> 0, to |-> 1]>>
        BY <2>0, <2>1, <2>5, <2>7, <3>3 DEF Part
      <4>2. DOMAIN h = {1} /\ h[1].from = 0 /\ h[1].to = 1
        BY <4>1
      <4>3. Handed(h, 1) = Iterations(0, 1, 1) /\ Apart(h, 1)
        BY <4>2 DEF Handed, Apart
      <4>4. \A i : i \in Iterations(0, 1, 1) <=> i = 0
        <5>1. 0 \in 0 .. 1 - 1 /\ (0 - 0) % 1 = 0
          OBVIOUS
        <5>2. \A i \in 0 .. 1 - 1 : i = 0
          OBVIOUS
        <5> QED
          BY <5>1, <5>2 DEF Iterations
      <4>5. Handed(h, 1) = {0}
        BY <4>3, <4>4
      <4> QED
        BY <3>1, <4>3, <4>5 DEF Shared
    <3> QED
      BY <3>2, <3>3
  <2> QED
    BY <2>6, <2>7
<1> QED
  BY <1>1, <1>2 DEF EachIterationOnce

-----------------------------------------------------------------------------
(* The invariant *)

\* What other teams do leaves the chain alone.
LEMMA OthersChain ==
  ASSUME Chain, Ends, At, Locks, OtherAlloc \/ OtherFree \/ UNCHANGED vars
  PROVE  Chain' /\ Ends' /\ At' /\ Locks'
<1>1. UNCHANGED <<prog, pc, pos, curr, new, first, lock, desc, serves>>
  BY DEF OtherAlloc, OtherFree, vars
<1>2. \A t \in Threads, k \in Nat : Completed(t, k)' <=> Completed(t, k)
  BY <1>1 DEF Completed
<1>3. Ends'
  <2>1. \A k \in Nat : CompletedBy(k)' = CompletedBy(k)
    BY <1>2 DEF CompletedBy
  <2>2. \A t \in Threads, k \in Nat : Completed(t, k + 1)' <=> Completed(t, k + 1)
    BY <1>2
  <2> QED
    BY <1>1, <1>2, <2>1, <2>2 DEF Ends
<1>4. Chain' /\ At' /\ Locks'
  BY <1>1 DEF Chain, At, AtIn, Locks, Base, Live
<1> QED
  BY <1>3, <1>4

\* The pool is filled, nothing is in use.
LEMMA InitInv ==
  ASSUME Init
  PROVE  IInv
<1>0. /\ PoolSize \in Nat /\ MaxWs \in Nat /\ PoolSize <= MaxWs /\ Root \in Ws /\ Root = 0
      /\ Ws = 0 .. MaxWs /\ Master \in Threads
  BY PoolAssumption, TeamAssumption DEF Root, Ws
<1>1. /\ pool = [i \in 1 .. PoolSize |-> PoolSize + 1 - i] /\ pool \in Seq(Ws)
      /\ Len(pool) = PoolSize
  <2>1. \A i \in 1 .. PoolSize : PoolSize + 1 - i \in Ws
    BY <1>0
  <2>2. pool \in [1 .. PoolSize -> Ws]
    BY <2>1 DEF Init
  <2> QED
    BY <1>0, <2>2 DEF Init
<1>2. Types
  <2>1. desc \in [Ws -> Descs]
    <3>1. Blank \in Descs
      BY DEF Blank, Descs
    <3> QED
      BY <3>1 DEF Init
  <2>2. heap \in 0 .. MaxWs - PoolSize /\ pc \in [Threads -> Places] /\ pos \in [Threads -> Nat]
    BY <1>0 DEF Init, Places
  <2>3. /\ curr \in [Threads -> Ws] /\ new \in [Threads -> Ws \cup {NoWs}]
        /\ first \in [Threads -> BOOLEAN] /\ lock \in [Ws -> Threads \cup {NoThread}]
        /\ serves \in [Ws -> Nat \cup {Idle}]
    BY <1>0 DEF Init
  <2> QED
    BY <1>1, <2>1, <2>2, <2>3 DEF Init, Types
<1>3. Phases /\ Spots /\ Together
  <2>1. prog = NoProgram /\ Len(prog.body) = 0 /\ pc[Master] = "serial"
    BY <1>0 DEF Init, NoProgram
  <2>2. \A t \in Threads : pos[t] = 0 /\ (t # Master => pc[t] = "docked")
    BY DEF Init
  <2>3. arrived = {}
    BY DEF Init
  <2> QED
    BY <2>1, <2>2, <2>3 DEF Phases, Spots, Spot, Together
<1>4. \A w \in Ws : ~Live(w)
  BY DEF Init, Live
<1>5. Chain /\ Ends
  BY <1>4 DEF Chain, Ends, Live, Idle
<1>6. At /\ Locks
  <2>1. \A t \in Threads : pc[t] # "start" /\ ~first[t]
    BY DEF Init
  <2>2. \A w \in Ws : lock[w] = NoThread
    BY DEF Init
  <2>3. pc[Master] = "serial"
    BY <1>0 DEF Init
  <2> QED
    BY <2>1, <2>2, <2>3 DEF At, AtIn, Locks
<1>7. Pools
  <2>1. other = {} /\ heap = 0 /\ Allocated = 0 .. PoolSize
    BY <1>0 DEF Init, Allocated
  <2>2. \A i, j \in 1 .. Len(pool) : i # j => pool[i] # pool[j]
    BY <1>0, <1>1
  <2>3. ASSUME NEW w \in Ws PROVE w \in Free <=> w \in 1 .. PoolSize
    <3>1. ASSUME w \in Free PROVE w \in 1 .. PoolSize
      <4>1. PICK i \in 1 .. PoolSize : w = pool[i]
        BY <1>1, <3>1 DEF Free
      <4> QED
        BY <1>0, <1>1, <4>1
    <3>2. ASSUME w \in 1 .. PoolSize PROVE w \in Free
      <4>1. PICK i \in 1 .. PoolSize : i = PoolSize + 1 - w
        BY <1>0, <3>2
      <4>2. pool[i] = w
        BY <1>0, <1>1, <3>2, <4>1
      <4> QED
        BY <1>1, <4>1, <4>2 DEF Free
    <3> QED
      BY <3>1, <3>2
  <2>4. \A w \in Free : w \in Ws
    <3>1. \A i \in 1 .. Len(pool) : pool[i] \in Ws
      BY <1>2 DEF Types
    <3> QED
      BY <3>1 DEF Free
  <2>5. \A w \in Ws : w \in 0 .. PoolSize <=> w = Root \/ w \in 1 .. PoolSize
    BY <1>0
  <2>6. \A w \in Free \cup other : w # Root /\ ~Live(w)
    BY <1>0, <1>4, <2>1, <2>3, <2>4
  <2>7. \A w \in Ws : w \in Allocated <=> (w = Root \/ w \in Free \/ w \in other \/ Live(w))
    BY <1>4, <2>1, <2>3, <2>5
  <2> QED
    BY <2>1, <2>2, <2>6, <2>7 DEF Pools
<1> QED
  BY <1>2, <1>3, <1>5, <1>6, <1>7 DEF IInv

\* Every step keeps the invariant, one action after the other.
LEMMA NextInv ==
  ASSUME IInv, [Next]_vars, Embedded
  PROVE  IInv'
<1>0. Types /\ Phases /\ Spots /\ Together /\ Chain /\ Ends /\ At /\ Locks /\ Pools
  BY DEF IInv
<1>1. Types'
  BY <1>0, TypesStep
<1>2. Phases' /\ Spots' /\ Together'
  BY <1>0, <1>1, PlacesStep
<1>3. ASSUME NEW t \in Threads, Step(t) PROVE Chain' /\ Ends' /\ At' /\ Locks' /\ Pools'
  <2>1. CASE InitThread(t) \/ BodyDone(t) \/ Barrier(t) \/ LoopNext(t)
    BY <1>0, <1>1, <2>1, QuietSteps, StillChain
  <2>2. CASE WorkShareStart(t)
    <3>1. CASE desc[curr[t]].next_ws # NoWs
      BY <1>0, <1>1, <2>2, <3>1, StartFound
    <3>2. CASE desc[curr[t]].next_ws = NoWs
      <4>1. PICK c, w : Links(t, c, w)
        BY <1>0, <2>2, <3>2, StartLinks
      <4> QED
        BY <1>0, <1>1, <4>1, LinksChain, LinksEnds, LinksAt, LinksLocks, LinksPools
    <3> QED
      BY <3>1, <3>2
  <2>3. CASE LoopStart(t)
    BY <1>0, <1>1, <2>3, LoopStartChain
  <2>4. CASE SingleStart(t)
    BY <1>0, <1>1, <2>4, SingleStartChain
  <2>5. CASE LoopEnd(t)
    BY <1>0, <1>1, <2>5, LoopEndChain
  <2> QED
    BY <1>3, <2>1, <2>2, <2>3, <2>4, <2>5 DEF Step
<1>4. CASE ParallelStart
  BY <1>0, <1>1, <1>2, <1>4, ParallelStartChain DEF IInv
<1>5. CASE TeamEnd
  BY <1>0, <1>1, <1>2, <1>5, TeamEndChain DEF IInv
<1>6. CASE OtherAlloc \/ OtherFree \/ UNCHANGED vars
  BY <1>0, <1>1, <1>2, <1>6, OthersPools, OthersChain DEF IInv
<1> QED
  BY <1>1, <1>2, <1>3, <1>4, <1>5, <1>6 DEF Next, IInv

\* The invariant says what NoStaleWs and PoolExact ask for.
LEMMA InvSuffices ==
  ASSUME IInv
  PROVE  NoStaleWs /\ PoolExact
<1>0. Types /\ Phases /\ Chain /\ At /\ Locks /\ Pools
  BY DEF IInv
<1>1. ASSUME NEW t \in Threads, InRegion(t), NEW w \in Touches(t) PROVE w \notin Free \cup other
  <2>1. pc[t] \notin {"serial", "docked", "woken"}
    BY <1>1 DEF InRegion
  <2>2. pc[Master] # "serial"
    BY <1>0, <2>1, MasterBusy
  <2>3. serves[curr[t]] = pos[t] /\ pos[t] \in Nat /\ curr[t] \in Ws
    BY <1>0, <2>1, <2>2, ServesFacts DEF At, AtIn
  <2>4. CASE w = curr[t]
    BY <1>0, <2>3, <2>4 DEF Pools, Live, Idle
  <2>5. CASE pc[t] = "start" /\ w = new[t]
    <3>1. serves[w] = pos[t] + 1
      BY <1>0, <2>2, <2>5, CurrFacts
    <3>2. pos[t] + 1 # Idle
      BY <2>3 DEF Idle
    <3> QED
      BY <1>0, <3>1, <3>2 DEF Pools, Live
  <2> QED
    BY <1>1, <2>4, <2>5 DEF Touches
<1>2. ASSUME NEW w \in Free \cup other PROVE lock[w] = NoThread
  <2>1. SUFFICES ASSUME lock[w] # NoThread PROVE FALSE
    OBVIOUS
  <2>2. w \in Ws /\ ~Live(w)
    BY <1>0, <1>2 DEF Pools, Free, Types
  <2>3. PICK t \in Threads : pc[t] = "start" /\ curr[t] = w
    BY <1>0, <2>1, <2>2 DEF Locks, Types
  <2>4. pc[Master] # "serial"
    BY <1>0, <2>3, MasterBusy
  <2>5. serves[w] = pos[t] /\ pos[t] \in Nat
    BY <1>0, <2>3, <2>4, CurrFacts, ServesFacts
  <2> QED
    BY <2>2, <2>5 DEF Live, Idle
<1>3. NoStaleWs
  BY <1>1, <1>2 DEF NoStaleWs
<1>4. ASSUME pc[Master] = "serial" PROVE Free \cup other = Allocated \ {Root}
  <2>1. \A w \in Ws : ~Live(w)
    BY <1>0, <1>4 DEF Chain
  <2>2. Free \subseteq Ws /\ other \subseteq Ws
    BY <1>0 DEF Types, Free
  <2>3. Allocated \subseteq Ws
    BY <1>0, PoolAssumption DEF Types, Allocated, Ws
  <2>4. \A w \in Ws : w \in Free \cup other <=> w \in Allocated /\ w # Root
    BY <1>0, <2>1 DEF Pools
  <2> QED
    BY <2>2, <2>3, <2>4
<1>5. PoolExact
  BY <1>0, <1>4 DEF Pools, PoolExact
<1> QED
  BY <1>3, <1>5

\* No thread uses a descriptor, or holds its lock, that is in the pool or was
\* given to another team: gomp_work_share_end_nowait frees the one before only
\* when every thread is past it (work.c).
THEOREM NoneStale ==
  ASSUME Embedded
  PROVE  Spec => []NoStaleWs
<1>1. Init => IInv
  BY InitInv
<1>2. IInv /\ [Next]_vars => IInv'
  BY NextInv
<1>3. IInv => NoStaleWs
  BY InvSuffices
<1> QED
  BY <1>1, <1>2, <1>3, PTL DEF Spec

\* The pool holds each free descriptor once, and between two regions all that
\* were ever allocated and that no other team has: none leaks.
THEOREM PoolIsExact ==
  ASSUME Embedded
  PROVE  Spec => []PoolExact
<1>1. Init => IInv
  BY InitInv
<1>2. IInv /\ [Next]_vars => IInv'
  BY NextInv
<1>3. IInv => PoolExact
  BY InvSuffices
<1> QED
  BY <1>1, <1>2, <1>3, PTL DEF Spec

\* Every iteration of a loop, every section and every single block is handed
\* out to one thread only, and all have been when a thread is told that the
\* construct is complete, for loops that count up or down, any chunk, any
\* region and any number of threads (loop.c, iter.c, sections.c, single.c).
THEOREM IterationsOnce ==
  ASSUME Embedded
  PROVE  Spec => []EachIterationOnce
<1>1. Init => IInv /\ Iters
  <2>1. Init => prog = NoProgram /\ handed = <<>>
    BY DEF Init
  <2> QED
    BY <2>1, InitInv, NoRegionIters
<1>2. (IInv /\ Iters) /\ [Next]_vars => (IInv /\ Iters)'
  BY NextInv, NextIters
<1>3. IInv /\ Iters => EachIterationOnce
  BY ItersSuffice DEF IInv
<1> QED
  BY <1>1, <1>2, <1>3, PTL DEF Spec
=============================================================================
