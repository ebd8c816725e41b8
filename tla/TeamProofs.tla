----------------------------- MODULE TeamProofs -----------------------------
(***************************************************************************)
(* Proofs about Team: a core works for one region at most, the counters of *)
(* the pools agree with the regions that run, and every core of a region   *)
(* comes to run it.                                                        *)
(***************************************************************************)
EXTENDS Team, FiniteSetTheorems, TLAPS

-----------------------------------------------------------------------------
(* The inductive invariant *)

\* What a core does while it runs the task of a team or of the master region
Execs == {"body", "master_wait", "end", "free"}
Tasks == Execs \cup {"slave_wait"}

\* The descriptors taken from the pool, but for that of the master region
Active == Teams \ (Pooled \cup {Root})

Master(t) == team[t].proc0
Level(t) == team[t].level

Types ==
  /\ thread_pool \subseteq Cores
  /\ idle_cores \in Int
  /\ team_pool \in Seq(Teams)
  /\ lru_team \in Teams
  /\ curr_team \in [Cores -> Teams \cup {Handler, Exit}]
  /\ team \in [Teams -> [level : Nat, parent : Teams, nthreads : Nat,
                         cores : SUBSET Cores, proc0 : Cores]]
  /\ arrived \in [Teams -> SUBSET Cores]
  /\ event \subseteq Workers
  /\ pc \in [Cores -> {"mailbox", "docked", "body", "handling", "master_wait",
                       "slave_wait", "end", "free", "exit"}]
  /\ job \in [Cores -> Teams \cup {Handler, Exit}]
  /\ handlers \in 0 .. NumCores - 1
  /\ offloads \in Nat

\* No descriptor is in the pool twice, and the last one stays in it.
PoolInv ==
  /\ \A i, j \in 1 .. Len(team_pool) : team_pool[i] = team_pool[j] => i = j
  /\ Root \notin Pooled
  /\ Len(team_pool) >= 1 /\ team_pool[Len(team_pool)] = 0

\* The regions a core is the master of are stacked on the task it was woken
\* for: each is one level above its parent.
Owned(t) ==
  /\ Master(t) \in team[t].cores
  /\ team[t].nthreads = Cardinality(team[t].cores)
  /\ pc[Master(t)] \in Execs
  /\ Level(t) <= Level(curr_team[Master(t)])
  /\ Level(t) > Level(job[Master(t)])
  /\ Level(t) = Level(team[t].parent) + 1
  /\ \/ team[t].parent = job[Master(t)]
     \/ team[t].parent \in Active /\ Master(team[t].parent) = Master(t)

OwnInv ==
  /\ Level(Root) = 0
  /\ \A t \in Active : Owned(t)
  /\ \A s, t \in Active : s # t /\ Master(s) = Master(t) => Level(s) # Level(t)

Mastered(p) == curr_team[p] \in Active /\ Master(curr_team[p]) = p

\* What a core runs
AtCore(p) ==
  /\ pc[p] \in {"master_wait", "end", "free"} => Mastered(p)
  /\ pc[p] = "body" => curr_team[p] = job[p] \/ Mastered(p)
  /\ pc[p] = "slave_wait" => curr_team[p] = job[p]
  /\ p # 0 /\ pc[p] \in Tasks => job[p] \in Running /\ p \in WorkersOf(job[p])

CoreInv ==
  /\ job[0] = Root
  /\ pc[0] \in {"mailbox", "exit"} \cup Execs
  /\ pc[0] \in {"mailbox", "exit"} => curr_team[0] = Root
  /\ \A p \in Cores : AtCore(p)

\* The barrier at the end of region t has been passed.
Over(t) == curr_team[Master(t)] = t /\ pc[Master(t)] = "end"

\* A worker of a region waits to be woken for it, runs its task, or has docked
\* again at the barrier.
Member(t, p) ==
  \/ pc[p] = "docked" /\ p \in event /\ curr_team[p] = t /\ ~Over(t)
  \/ pc[p] \in Tasks /\ p \notin event /\ job[p] = t /\ ~Over(t)
  \/ pc[p] = "docked" /\ p \notin event /\ curr_team[p] = t /\ Over(t)

MembInv == \A t \in Running : \A p \in WorkersOf(t) : Member(t, p)

\* A core a barrier has seen waits at it.
Waits(t, p) ==
  /\ t \in Running /\ p \in team[t].cores
  /\ \/ p = Master(t) /\ pc[p] = "master_wait" /\ curr_team[p] = t
     \/ p # Master(t) /\ pc[p] = "slave_wait" /\ job[p] = t

BarInv ==
  /\ \A t \in Teams : \A p \in arrived[t] : Waits(t, p)
  /\ \A p \in Cores : /\ pc[p] = "slave_wait" => p \in arrived[job[p]]
                      /\ pc[p] = "master_wait" => p \in arrived[curr_team[p]]

\* The cores that are miss handlers in each offload
HC == HandlerCores(handlers)

Handles(p) == pc[p] = "docked" \/ (pc[p] = "handling" /\ job[p] = Handler)
Docked(p) == pc[p] = "docked" /\ p \notin event /\ curr_team[p] \in Teams
Leaves(p) == curr_team[p] = Exit /\ (pc[p] = "exit" \/ (p \in event /\ Handles(p)))

\* The cores that work for no region are handlers, are docked, or leave.
RestInv ==
  /\ Busy \cap HC = {}
  /\ offloads = 0 => handlers = 0
  /\ pc[0] # "exit" => \A p \in Workers :
       /\ p \in HC => curr_team[p] = Handler /\ Handles(p)
       /\ p \notin HC /\ p \notin Busy => Docked(p)
  /\ pc[0] = "exit" => \A p \in Workers : Leaves(p)

\* A region of level 1 has the first cores.  They find it in curr_team as long
\* as it is the last used one and no region is active: then a hit need not
\* write curr_team.
LruInv ==
  /\ \A t \in Active : Level(t) = 1 => team[t].cores = First(team[t].nthreads)
  /\ Active = {} /\ pc[0] # "exit" =>
       /\ lru_team = Head(team_pool) /\ Master(lru_team) = 0
       /\ \A q \in Workers \ HC : q < team[lru_team].nthreads => curr_team[q] = lru_team
  /\ pc[0] = "free" /\ Level(curr_team[0]) = 1 =>
       \A q \in WorkersOf(curr_team[0]) : curr_team[q] = curr_team[0]

TInv == /\ Types /\ PoolInv /\ OwnInv /\ CoreInv /\ MembInv /\ BarInv /\ RestInv
        /\ LruInv /\ CoresExact

-----------------------------------------------------------------------------
(* Constants and counting *)

\* The host asks every offload for the same number of miss handlers, and the
\* last descriptor of the pool, whose barrier has the identifier workers skip,
\* is never taken.
Steady == ~Varies /\ MaxTeams \in 0 .. NumTeams - 1

\* Core 0 and the workers are the cores; the master region, the handlers and
\* the exit marker are told apart.
LEMMA Consts ==
  /\ NumCores \in Nat /\ NumCores >= 1 /\ NumTeams \in Nat /\ NumTeams >= 2
  /\ 0 \in Cores /\ Workers \subseteq Cores /\ Cores = {0} \cup Workers /\ 0 \notin Workers
  /\ Cores \subseteq Nat /\ Teams \subseteq Nat
  /\ Root \in Teams /\ Root # 0 /\ 0 \in Teams
  /\ Handler \notin Teams /\ Exit \notin Teams /\ Handler # Exit
BY CoresAssumption, TeamsAssumption DEF Cores, Workers, Teams, Root, Handler, Exit

\* The sets of cores are finite.
LEMMA CoresFinite ==
  /\ IsFiniteSet(Cores) /\ IsFiniteSet(Workers) /\ Cardinality(Workers) = NumCores - 1
  /\ \A S \in SUBSET Cores : IsFiniteSet(S) /\ Cardinality(S) \in Nat
<1>1. IsFiniteSet(Cores) /\ IsFiniteSet(Workers) /\ Cardinality(Workers) = NumCores - 1
  BY Consts, FS_Interval DEF Cores, Workers
<1> QED  BY <1>1, FS_Subset, FS_CardinalityType

\* The miss handlers are the h cores with the highest numbers.
LEMMA HandlersCount ==
  ASSUME NEW h \in 0 .. NumCores - 1
  PROVE  /\ Cardinality(HandlerCores(h)) = h
         /\ HandlerCores(h) \subseteq Workers
         /\ HandlerCores(0) = {}
<1>1. HandlerCores(h) = (NumCores - h) .. (NumCores - 1)
  BY Consts DEF HandlerCores, Workers
<1>2. Cardinality((NumCores - h) .. (NumCores - 1)) = h
  BY Consts, FS_Interval
<1>3. HandlerCores(h) \subseteq Workers
  BY DEF HandlerCores
<1>4. HandlerCores(0) = {}
  BY Consts DEF HandlerCores, Workers
<1> QED  BY <1>1, <1>2, <1>3, <1>4

\* The number of elements of S below x
Rank(S, x) == Cardinality({q \in S : q < x})

\* A greater element has more elements below it.
LEMMA RankIncreases ==
  ASSUME NEW S \in SUBSET Nat, IsFiniteSet(S), NEW x \in S, NEW y \in Nat, x < y
  PROVE  Rank(S, x) \in Nat /\ Rank(S, y) \in Nat /\ Rank(S, x) < Rank(S, y)
<1> DEFINE A == {q \in S : q < x}
           B == {q \in S : q < y}
<1>1. A \subseteq B /\ x \in B /\ x \notin A /\ A \subseteq S /\ B \subseteq S
  <2>1. \A q \in S : q < x => q < y
    OBVIOUS
  <2>2. ~(x < x)
    OBVIOUS
  <2> QED  BY <2>1, <2>2
<1>2. IsFiniteSet(A) /\ IsFiniteSet(B)
  BY <1>1, FS_Subset
<1>3. Cardinality(A) \in Nat /\ Cardinality(B) \in Nat
  BY <1>2, FS_CardinalityType
<1>4. A \in SUBSET B /\ A # B
  BY <1>1
<1>5. Cardinality(A) <= Cardinality(B) /\ Cardinality(B) # Cardinality(A)
  BY <1>2, <1>4, FS_Subset
<1>6. Cardinality(A) < Cardinality(B)
  <2> HIDE DEF A, B
  <2> QED  BY <1>3, <1>5
<1> QED  BY <1>3, <1>6 DEF Rank

\* The scan for the k lowest cores finds k of them when there are as many.
LEMMA LowestCount ==
  ASSUME NEW S \in SUBSET Nat, IsFiniteSet(S), NEW k \in Nat, k <= Cardinality(S)
  PROVE  Cardinality(Lowest(S, k)) = k
<1> DEFINE c == Cardinality(S)
           f == [x \in S |-> Rank(S, x)]
           L == Lowest(S, k)
           g == [x \in L |-> Rank(S, x)]
<1>1. c \in Nat
  BY FS_CardinalityType
<1>2. \A x \in S : Rank(S, x) \in 0 .. c - 1
  <2> TAKE x \in S
  <2> DEFINE A == {q \in S : q < x}
  <2>1. A \in SUBSET S /\ A # S
    <3>1. x \in S /\ ~(x < x)
      OBVIOUS
    <3> QED  BY <3>1
  <2>2. IsFiniteSet(A) /\ Cardinality(A) <= c /\ Cardinality(A) # c
    BY <2>1, FS_Subset
  <2>3. Cardinality(A) \in Nat
    BY <2>2, FS_CardinalityType
  <2>4. Cardinality(A) \in 0 .. c - 1
    <3> HIDE DEF A, c
    <3> QED  BY <2>2, <2>3, <1>1
  <2> QED  BY <2>4 DEF Rank
<1>3. \A x, y \in S : Rank(S, x) = Rank(S, y) => x = y
  <2> SUFFICES ASSUME NEW x \in S, NEW y \in S, x # y PROVE Rank(S, x) # Rank(S, y)
    OBVIOUS
  <2>1. x \in Nat /\ y \in Nat
    OBVIOUS
  <2>2. CASE x < y
    BY <2>1, <2>2, RankIncreases
  <2>3. CASE y < x
    BY <2>1, <2>3, RankIncreases
  <2> QED  BY <2>1, <2>2, <2>3
<1>4. f \in Injection(S, 0 .. c - 1)
  BY <1>2, <1>3 DEF Injection, IsInjective
<1>5. IsFiniteSet(0 .. c - 1) /\ Cardinality(0 .. c - 1) = c
  <2> HIDE DEF c
  <2> QED  BY <1>1, FS_Interval
<1>6. f \in Surjection(S, 0 .. c - 1)
  <2> HIDE DEF f
  <2> QED  BY <1>4, <1>5, FS_Injection
<1>7. \A i \in 0 .. c - 1 : \E x \in S : Rank(S, x) = i
  BY <1>6 DEF Surjection
<1>8. L \subseteq S /\ \A x \in S : x \in L <=> Rank(S, x) < k
  BY DEF Lowest, Rank
<1>9. g \in Injection(L, 0 .. k - 1)
  <2>1. \A x \in L : Rank(S, x) \in 0 .. k - 1
    <3> HIDE DEF L
    <3> QED  BY <1>2, <1>8
  <2> HIDE DEF L
  <2> QED  BY <1>3, <1>8, <2>1 DEF Injection, IsInjective
<1>10. \A i \in 0 .. k - 1 : \E x \in L : g[x] = i
  <2> HIDE DEF L
  <2> TAKE i \in 0 .. k - 1
  <2>1. i \in 0 .. c - 1
    <3> HIDE DEF c
    <3>1. k <= c
      BY DEF c
    <3> QED  BY <1>1, <3>1
  <2>2. PICK x \in S : Rank(S, x) = i
    BY <1>7, <2>1
  <2>3. x \in L
    BY <1>8, <2>2
  <2> QED  BY <2>2, <2>3
<1>11. g \in Surjection(L, 0 .. k - 1)
  <2> HIDE DEF L
  <2> QED  BY <1>9, <1>10 DEF Injection, Surjection
<1>12. IsFiniteSet(0 .. k - 1) /\ Cardinality(0 .. k - 1) = k
  <2>1. 0 \in Int /\ k - 1 \in Int
    OBVIOUS
  <2>2. IsFiniteSet(0 .. k - 1) /\ Cardinality(0 .. k - 1) = IF 0 > k - 1 THEN 0 ELSE k - 1 - 0 + 1
    BY <2>1, FS_Interval
  <2> QED  BY <2>2
<1>13. Cardinality(L) = Cardinality(0 .. k - 1)
  <2> HIDE DEF L, g
  <2> QED  BY <1>9, <1>11, <1>12, FS_Injection
<1> QED  BY <1>12, <1>13

\* No miss handler is among the n lowest free cores when n others are free.
LEMMA LowestAvoids ==
  ASSUME NEW S \in SUBSET Nat, IsFiniteSet(S), NEW T \in SUBSET S, NEW k \in Nat,
         k <= Cardinality(T), NEW x \in S, \A y \in T : y < x
  PROVE  x \notin Lowest(S, k)
<1> DEFINE A == {q \in S : q < x}
<1>1. A \subseteq S /\ T \in SUBSET A
  OBVIOUS
<1>2. IsFiniteSet(A) /\ IsFiniteSet(T)
  BY <1>1, FS_Subset
<1>3. Cardinality(T) <= Cardinality(A) /\ Cardinality(A) \in Nat /\ Cardinality(T) \in Nat
  BY <1>1, <1>2, FS_Subset, FS_CardinalityType
<1>4. ~(Cardinality(A) < k)
  <2> HIDE DEF A
  <2> QED  BY <1>3
<1> QED  BY <1>4 DEF Lowest

\* The scan of a pool in which only core 0 is busy finds the first cores.
LEMMA LowestOfAll ==
  ASSUME NEW k \in 0 .. NumCores - 1
  PROVE  {0} \cup Lowest(Workers, k) = First(k + 1)
<1>1. \A p \in Workers : Cardinality({q \in Workers : q < p}) = p - 1
  <2> TAKE p \in Workers
  <2>1. {q \in Workers : q < p} = 1 .. p - 1
    BY Consts DEF Workers
  <2>2. p \in Nat /\ p >= 1
    BY Consts DEF Workers
  <2>3. Cardinality(1 .. p - 1) = IF 1 > p - 1 THEN 0 ELSE p - 1 - 1 + 1
    <3>1. 1 \in Int /\ p - 1 \in Int
      BY <2>2
    <3> QED  BY <3>1, FS_Interval
  <2>4. Cardinality(1 .. p - 1) = p - 1
    BY <2>2, <2>3
  <2> QED  BY <2>1, <2>4
<1>2. \A p \in Workers : p \in Lowest(Workers, k) <=> p < k + 1
  BY <1>1, Consts DEF Lowest, Workers
<1>3. Lowest(Workers, k) \subseteq Workers
  BY DEF Lowest
<1>4. \A p \in Cores : p \in {0} \cup Lowest(Workers, k) <=> p < k + 1
  BY <1>2, <1>3, Consts
<1>5. {0} \cup Lowest(Workers, k) \subseteq Cores
  BY <1>3, Consts
<1> QED  BY <1>4, <1>5 DEF First

\* The first n cores are n, core 0 among them.
LEMMA FirstCount ==
  ASSUME NEW n \in 1 .. NumCores
  PROVE  Cardinality(First(n)) = n /\ First(n) \subseteq Cores /\ 0 \in First(n)
<1>1. First(n) = 0 .. n - 1
  BY Consts DEF First, Cores
<1>2. Cardinality(0 .. n - 1) = IF 0 > n - 1 THEN 0 ELSE n - 1 - 0 + 1
  <2>1. 0 \in Int /\ n - 1 \in Int
    OBVIOUS
  <2> QED  BY <2>1, FS_Interval
<1>3. n \in Nat /\ n >= 1
  BY Consts
<1>4. First(n) \subseteq Cores
  BY DEF First
<1> QED  BY <1>1, <1>2, <1>3, <1>4

\* A set of naturals that is not empty has a least element.
LEMMA LeastNat ==
  ASSUME NEW S \in SUBSET Nat, S # {}
  PROVE  \E x \in S : \A y \in S : x <= y
<1>1. PICK x \in S : \A y \in S : ~(<<y, x>> \in OpToRel(<, Nat))
  BY NatLessThanWellFounded, WFMin
<1>2. \A y \in S : ~(y < x)
  BY <1>1 DEF OpToRel
<1> QED  BY <1>2

-----------------------------------------------------------------------------
(* Consequences of the invariant *)

\* The fields of a descriptor have their types.
LEMMA TeamTypes ==
  ASSUME Types, NEW t \in Teams
  PROVE  /\ Level(t) \in Nat /\ Master(t) \in Cores /\ team[t].parent \in Teams
         /\ team[t].nthreads \in Nat /\ team[t].cores \subseteq Cores
         /\ WorkersOf(t) \subseteq Cores
BY DEF Types, Level, Master, WorkersOf

\* Regions that end are active, and the rest of the active ones are running.
LEMMA ActiveFacts ==
  ASSUME Types, PoolInv, CoreInv
  PROVE  /\ Active \subseteq Teams /\ Root \notin Active /\ 0 \notin Active
         /\ Ending \subseteq Active /\ Running = Active \ Ending
<1>1. Active \subseteq Teams /\ Root \notin Active
  BY DEF Active
<1>2. 0 \notin Active
  <2>1. Len(team_pool) \in 1 .. Len(team_pool)
    BY DEF Types, PoolInv
  <2> QED  BY <2>1 DEF PoolInv, Pooled, Active
<1>3. Ending \subseteq Active
  BY DEF Ending, CoreInv, AtCore, Mastered
<1> QED  BY <1>1, <1>2, <1>3 DEF Running, Active

\* The region that ends is the one its master ends.
LEMMA EndingIs ==
  ASSUME Types, PoolInv, CoreInv, NEW t \in Active
  PROVE  t \in Ending <=> curr_team[Master(t)] = t /\ pc[Master(t)] = "free"
<1>1. Master(t) \in Cores
  BY ActiveFacts, TeamTypes
<1>2. ASSUME t \in Ending PROVE curr_team[Master(t)] = t /\ pc[Master(t)] = "free"
  <2>1. PICK p \in Cores : pc[p] = "free" /\ curr_team[p] = t
    BY <1>2 DEF Ending
  <2> QED  BY <2>1 DEF CoreInv, AtCore, Mastered
<1> QED  BY <1>1, <1>2 DEF Ending

\* Workers of a region are not core 0, and run nothing else.
LEMMA WorkersAre ==
  ASSUME Types, PoolInv, CoreInv, MembInv, NEW t \in Running
  PROVE  WorkersOf(t) \subseteq Workers
<1> SUFFICES ASSUME 0 \in WorkersOf(t) PROVE FALSE
  BY ActiveFacts, TeamTypes, Consts
<1>1. Member(t, 0)
  BY DEF MembInv
<1>2. pc[0] # "docked" /\ job[0] # t
  BY ActiveFacts DEF CoreInv, Execs
<1> QED  BY <1>1, <1>2 DEF Member

\* Only workers are busy.
LEMMA BusyAre ==
  ASSUME Types, PoolInv, CoreInv, MembInv
  PROVE  Busy \subseteq Workers /\ IsFiniteSet(Busy) /\ Cardinality(Busy) \in Nat
<1>1. Busy \subseteq Workers
  BY WorkersAre DEF Busy
<1> QED  BY <1>1, Consts, CoresFinite

\* While core 0 runs no region, there is none.
LEMMA NoneActive ==
  ASSUME TInv, curr_team[0] = Root
  PROVE  Active = {} /\ Running = {} /\ Ending = {} /\ Busy = {}
<1> USE DEF TInv
<1>1. ASSUME Active # {} PROVE FALSE
  <2> DEFINE L == {Level(t) : t \in Active}
  <2>1. L \in SUBSET Nat /\ L # {}
    BY <1>1, ActiveFacts, TeamTypes
  <2>2. PICK x \in L : \A y \in L : x <= y
    <3> HIDE DEF L
    <3> QED  BY <2>1, LeastNat
  <2>3. PICK t \in Active : Level(t) = x
    BY <2>2
  <2>4. \A s \in Active : Level(t) <= Level(s)
    BY <2>2, <2>3
  <2> HIDE DEF L
  <2>5. Owned(t)
    BY DEF OwnInv
  <2>6. t \in Teams /\ Level(t) \in Nat /\ Master(t) \in Cores /\ team[t].parent \in Teams
    BY ActiveFacts, TeamTypes
  <2>7. Level(team[t].parent) \in Nat
    BY <2>6, TeamTypes
  <2>8. team[t].parent \notin Active
    BY <2>4, <2>5, <2>6, <2>7 DEF Owned
  <2>9. team[t].parent = job[Master(t)]
    BY <2>5, <2>8 DEF Owned
  <2>10. Master(t) = 0
    <3>1. ASSUME Master(t) # 0 PROVE job[Master(t)] \in Active
      BY <3>1, <2>5, <2>6, ActiveFacts DEF CoreInv, AtCore, Owned, Tasks
    <3> QED  BY <3>1, <2>8, <2>9
  <2>11. Level(t) <= Level(Root) /\ Level(Root) = 0 /\ Level(t) > Level(Root)
    BY <2>5, <2>10 DEF Owned, OwnInv, CoreInv
  <2> QED  BY <2>11, <2>6
<1> QED  BY <1>1, ActiveFacts DEF Busy

\* A region of level 1 that has passed its barrier is the only one.
LEMMA OnlyTop ==
  ASSUME TInv, NEW t \in Active, curr_team[0] = t, Level(t) = 1, pc[0] \in {"end", "free"}
  PROVE  Active = {t}
<1> USE DEF TInv
<1> DEFINE S == Active \ {t}
           L == {Level(u) : u \in S}
<1>1. SUFFICES ASSUME S # {} PROVE FALSE
  OBVIOUS
<1>2. L \in SUBSET Nat /\ L # {}
  BY <1>1, ActiveFacts, TeamTypes
<1>3. PICK x \in L : \A y \in L : x <= y
  <2> HIDE DEF L
  <2> QED  BY <1>2, LeastNat
<1>4. PICK s \in S : Level(s) = x
  BY <1>3
<1>5. \A u \in S : Level(s) <= Level(u)
  BY <1>3, <1>4
<1> HIDE DEF L
<1>6. Owned(s) /\ s \in Active /\ s # t
  BY DEF OwnInv
<1>7. s \in Teams /\ Level(s) \in Nat /\ Master(s) \in Cores /\ team[s].parent \in Teams
  BY <1>6, ActiveFacts, TeamTypes
<1>8. Level(team[s].parent) \in Nat /\ Level(s) = Level(team[s].parent) + 1
  BY <1>6, <1>7, TeamTypes DEF Owned
<1>9. team[s].parent \notin S
  BY <1>5, <1>7, <1>8
<1> DEFINE q == Master(s)
<1>10. Master(t) = 0
  BY Consts DEF CoreInv, AtCore, Mastered
<1>11. CASE team[s].parent \in Active /\ Master(team[s].parent) = q
  <2>1. team[s].parent = t
    BY <1>9, <1>11
  <2>2. Level(s) = 2 /\ Level(s) <= Level(curr_team[0])
    BY <2>1, <1>6, <1>8, <1>10, <1>11 DEF Owned
  <2> QED  BY <2>2
<1>12. CASE team[s].parent = job[q] /\ q = 0
  <2>1. Level(s) = 1
    BY <1>8, <1>12 DEF CoreInv, OwnInv
  <2> QED  BY <2>1, <1>6, <1>10, <1>12 DEF OwnInv
<1>13. CASE team[s].parent = job[q] /\ q # 0
  <2>1. job[q] \in Running /\ q \in WorkersOf(job[q]) /\ pc[q] \in Execs
    BY <1>6, <1>7, <1>13 DEF CoreInv, AtCore, Owned, Tasks
  <2>2. job[q] \in Active
    BY <2>1, ActiveFacts
  <2>3. job[q] = t
    BY <2>2, <1>9, <1>13
  <2>4. t \notin Ending
    BY <2>1, <2>3, ActiveFacts
  <2>5. pc[0] = "end"
    BY <2>4, <1>10, EndingIs
  <2>6. Over(t)
    BY <2>5, <1>10 DEF Over
  <2>7. Member(t, q)
    BY <2>1, <2>3 DEF MembInv
  <2> QED  BY <2>1, <2>6, <2>7 DEF Member, Execs
<1> QED  BY <1>6, <1>11, <1>12, <1>13 DEF Owned

\* A core other than 0 that runs a task has its team running.
LEMMA TaskOf ==
  ASSUME TInv, NEW p \in Cores, pc[p] \in Tasks, p # 0
  PROVE  /\ job[p] \in Running /\ job[p] \in Active /\ job[p] \in Teams /\ job[p] # 0
         /\ p \in WorkersOf(job[p]) /\ p \in Workers /\ p \notin event /\ ~Over(job[p])
<1> USE DEF TInv
<1>1. job[p] \in Running /\ p \in WorkersOf(job[p])
  BY DEF CoreInv, AtCore
<1>2. Member(job[p], p)
  BY <1>1 DEF MembInv
<1>3. p \notin event /\ ~Over(job[p])
  BY <1>2 DEF Member, Tasks, Execs
<1> QED  BY <1>1, <1>3, ActiveFacts, Consts

-----------------------------------------------------------------------------
(* The initial state *)

\* The initial state: all workers have docked and the pool holds all but the
\* descriptor of the master region.
LEMMA InitInv == Init => TInv
<1> SUFFICES ASSUME Init PROVE TInv
  OBVIOUS
<1> USE DEF Init
<1>1. Len(team_pool) = NumTeams - 1 /\ team_pool \in Seq(Teams)
  BY Consts DEF Teams
<1>2. Types
  BY <1>1, Consts DEF Types, Teams, Root, Handler, Exit, Cores, Workers
<1>3. PoolInv
  BY <1>1, Consts DEF PoolInv, Pooled, Root
<1>4. Pooled = 0 .. NumTeams - 2
  BY <1>1, Consts DEF Pooled
<1>5. Active = {} /\ Running = {} /\ Ending = {} /\ Busy = {}
  <2>1. Active = {}
    BY <1>4, Consts DEF Active, Teams, Root
  <2>2. Ending = {}
    BY Consts DEF Ending
  <2> QED  BY <2>1, <2>2 DEF Running, Active, Busy
<1>6. OwnInv
  BY <1>5, Consts DEF OwnInv, Level
<1>7. CoreInv
  BY Consts DEF CoreInv, AtCore, Tasks, Execs
<1>8. MembInv
  BY <1>5 DEF MembInv
<1>9. BarInv
  BY Consts DEF BarInv
<1>10. HC = {}
  BY Consts, HandlersCount DEF HC
<1>11. RestInv
  BY <1>5, <1>10, Consts DEF RestInv, Docked, Teams
<1>12. LruInv
  <2>1. Head(team_pool) = NumTeams - 2
    BY <1>1, Consts
  <2>2. Master(lru_team) = 0
    BY Consts DEF Master, Teams
  <2> QED  BY <2>1, <2>2, <1>5, Consts DEF LruInv
<1>13. CoresExact
  <2>1. Handling = {} /\ Cardinality({}) = 0
    BY Consts, FS_EmptySet DEF Handling
  <2> QED  BY <2>1, <1>5, Consts DEF CoresExact
<1> QED  BY <1>2, <1>3, <1>6, <1>7, <1>8, <1>9, <1>11, <1>12, <1>13 DEF TInv

-----------------------------------------------------------------------------
(* Steps of core 0 outside the regions *)

\* While there is no region, no core is at a barrier or runs a task but core 0.
LEMMA Quiet ==
  ASSUME TInv, curr_team[0] = Root
  PROVE  /\ Active = {} /\ Running = {} /\ Ending = {} /\ Busy = {}
         /\ \A t \in Teams : arrived[t] = {}
         /\ \A p \in Workers : pc[p] \notin Tasks
         /\ pc[0] \in {"mailbox", "exit", "body"}
         /\ thread_pool = {0} /\ Cardinality({}) = 0
         /\ idle_cores + Cardinality(Handling) = NumCores - 1
<1> USE DEF TInv
<1>1. Active = {} /\ Running = {} /\ Ending = {} /\ Busy = {}
  BY NoneActive
<1>2. \A t \in Teams : arrived[t] = {}
  BY <1>1 DEF BarInv, Waits
<1>3. \A p \in Workers : pc[p] \notin Tasks
  BY <1>1, TaskOf, Consts
<1>4. pc[0] \in {"mailbox", "exit", "body"}
  BY <1>1, Consts DEF CoreInv, AtCore, Mastered, Execs
<1>5. Cardinality({}) = 0
  BY FS_EmptySet
<1>6. thread_pool = {0} /\ idle_cores + Cardinality(Handling) = NumCores - 1
  <2>1. Cardinality(Handling) \in Nat
    <3>1. Handling \subseteq Cores
      BY Consts DEF Handling, HandlerCores
    <3> QED  BY <3>1, CoresFinite
  <2> QED  BY <1>1, <1>5, <2>1, Consts DEF CoresExact, Types
<1> QED  BY <1>1, <1>2, <1>3, <1>4, <1>5, <1>6

\* Only pc of core 0, handlers and events change while there is no region.
LEMMA QuietNext ==
  ASSUME TInv, curr_team[0] = Root, curr_team'[0] = Root,
         UNCHANGED <<thread_pool, team_pool, lru_team, team, arrived, job>>,
         pc'[0] \in {"mailbox", "exit", "body"},
         \A p \in Workers : pc'[p] = pc[p],
         Types'
  PROVE  /\ Active' = {} /\ Running' = {} /\ Ending' = {} /\ Busy' = {}
         /\ PoolInv' /\ OwnInv' /\ CoreInv' /\ MembInv' /\ BarInv'
<1> USE DEF TInv
<1>1. Pooled' = Pooled /\ Active' = {}
  BY Quiet DEF Pooled, Active
<1>2. Ending' = {}
  BY Quiet, Consts DEF Ending, Tasks, Execs
<1>3. Running' = {} /\ Busy' = {}
  BY <1>1, <1>2 DEF Running, Active, Busy
<1>4. PoolInv'
  BY <1>1 DEF PoolInv
<1>5. OwnInv'
  BY <1>1 DEF OwnInv, Level
<1>6. CoreInv'
  <2>1. job'[0] = Root
    BY DEF CoreInv
  <2>2. ASSUME NEW p \in Workers PROVE AtCore(p)'
    BY Quiet, Consts, <2>2 DEF AtCore, Tasks, Execs
  <2>3. AtCore(0)'
    BY <2>1 DEF AtCore
  <2> QED  BY <2>1, <2>2, <2>3, Consts DEF CoreInv, Execs
<1>7. MembInv'
  BY <1>3 DEF MembInv
<1>8. BarInv'
  <2>1. \A p \in Cores : pc'[p] \notin {"slave_wait", "master_wait"}
    BY Quiet, Consts DEF Tasks, Execs
  <2> QED  BY <2>1, Quiet DEF BarInv
<1> QED  BY <1>1, <1>2, <1>3, <1>4, <1>5, <1>6, <1>7, <1>8

\* An offload begins: the handlers are taken from the idle cores.
LEMMA OffloadStartInv ==
  ASSUME TInv, Steady, NEW asked \in HandlerCounts, OffloadStart(asked)
  PROVE  TInv'
<1> USE DEF TInv
<1> DEFINE h == IF asked < NumCores - 1 THEN asked ELSE NumCores - 1
<1>0. h \in 0 .. NumCores - 1
  BY ChoiceAssumption, Consts
<1>1. /\ pc[0] = "mailbox" /\ handlers' = h
      /\ offloads = 0 \/ h = handlers
      /\ offloads' = offloads + 1
      /\ curr_team' = [p \in Cores |-> IF p \in HandlerCores(h) THEN Handler
                                       ELSE curr_team[p]]
      /\ event' = event \cup HandlerCores(h)
      /\ idle_cores' = idle_cores - h
      /\ pc' = [pc EXCEPT ![0] = "body"]
      /\ UNCHANGED <<thread_pool, team_pool, lru_team, team, arrived, job, regions>>
  BY DEF OffloadStart, Steady
<1> HIDE DEF h
<1>2. HandlerCores(h) \subseteq Workers /\ Cardinality(HandlerCores(h)) = h
      /\ HandlerCores(0) = {}
  BY <1>0, HandlersCount
<1>3. curr_team[0] = Root /\ curr_team'[0] = Root
  BY <1>1, <1>2, Consts DEF CoreInv
<1>4. Types'
  <2>1. curr_team' \in [Cores -> Teams \cup {Handler, Exit}]
    BY <1>1 DEF Types
  <2>2. event' \subseteq Workers
    BY <1>1, <1>2 DEF Types
  <2>3. idle_cores' \in Int /\ offloads' \in Nat /\ handlers' \in 0 .. NumCores - 1
    BY <1>0, <1>1, Consts DEF Types
  <2>4. pc' \in [Cores -> {"mailbox", "docked", "body", "handling", "master_wait",
                           "slave_wait", "end", "free", "exit"}]
    BY <1>1 DEF Types
  <2> QED  BY <1>1, <2>1, <2>2, <2>3, <2>4 DEF Types
<1>5. pc'[0] = "body" /\ \A p \in Workers : pc'[p] = pc[p]
  BY <1>1, Consts DEF Types
<1>6. /\ Active' = {} /\ Running' = {} /\ Ending' = {} /\ Busy' = {}
      /\ PoolInv' /\ OwnInv' /\ CoreInv' /\ MembInv' /\ BarInv'
  BY <1>1, <1>3, <1>4, <1>5, QuietNext
<1>7. HC \subseteq HC' /\ HC' = HandlerCores(h)
  BY <1>1, <1>2 DEF HC, RestInv
<1>8. ASSUME NEW p \in Workers, p \notin HC'
      PROVE  /\ curr_team'[p] = curr_team[p] /\ Docked(p) /\ Docked(p)'
  <2>1. Docked(p)
    BY <1>1, <1>3, <1>7, <1>8, NoneActive DEF RestInv
  <2> QED  BY <1>1, <1>5, <1>7, <1>8, <2>1, Consts DEF Docked
<1>9. RestInv'
  <2>1. ASSUME NEW p \in Workers, p \in HC' PROVE curr_team'[p] = Handler /\ Handles(p)'
    <3>1. curr_team'[p] = Handler
      BY <1>1, <1>7, <2>1, Consts
    <3>2. pc'[p] = pc[p] /\ job'[p] = job[p]
      BY <1>1, <1>5
    <3>3. Handles(p)
      <4>1. CASE p \in HC
        BY <4>1, <1>1 DEF RestInv
      <4>2. CASE p \notin HC
        BY <4>2, <1>1, <1>3, NoneActive DEF RestInv, Docked, Handles
      <4> QED  BY <4>1, <4>2
    <3> QED  BY <3>1, <3>2, <3>3 DEF Handles
  <2>2. offloads' # 0
    BY <1>1 DEF Types
  <2> QED  BY <1>5, <1>6, <1>8, <2>1, <2>2 DEF RestInv
<1>10. LruInv'
  <2>1. lru_team' = Head(team_pool') /\ pc'[0] # "free" /\ team' = team /\ Master(lru_team)' = 0
    BY <1>1, <1>3, <1>5, NoneActive DEF LruInv, Master
  <2>2. ASSUME NEW q \in Workers \ HC', q < team[lru_team].nthreads
        PROVE  curr_team'[q] = lru_team
    BY <2>2, <1>1, <1>3, <1>7, <1>8, NoneActive DEF LruInv
  <2> QED  BY <1>1, <1>6, <2>1, <2>2 DEF LruInv
<1>11. CoresExact'
  <2>1. Handling = {} /\ Handling' = HandlerCores(h)
    BY <1>1, <1>5 DEF Handling
  <2>2. idle_cores = NumCores - 1
    <3>1. idle_cores + Cardinality({}) = NumCores - 1 /\ Cardinality({}) = 0
      BY <2>1, <1>3, Quiet
    <3>2. idle_cores \in Int
      BY DEF Types
    <3> QED  BY <3>1, <3>2, Consts
  <2>3. idle_cores' + 0 + h = NumCores - 1
    BY <1>0, <1>1, <2>2, Consts
  <2>4. thread_pool' = {0} /\ Cardinality({}) = 0
    BY <1>1, <1>3, Quiet
  <2>5. Cardinality(Handling') = h /\ Cardinality(Busy') = 0
    BY <1>2, <1>6, <2>1, <2>4
  <2> QED  BY <1>6, <2>3, <2>4, <2>5 DEF CoresExact
<1> QED  BY <1>4, <1>6, <1>9, <1>10, <1>11

\* An offload ends: the handlers are idle cores again.
LEMMA OffloadEndInv ==
  ASSUME TInv, OffloadEnd
  PROVE  TInv'
<1> USE DEF TInv
<1>1. /\ pc[0] = "body" /\ curr_team[0] = job[0]
      /\ idle_cores' = idle_cores + handlers
      /\ pc' = [pc EXCEPT ![0] = "mailbox"]
      /\ UNCHANGED <<thread_pool, team_pool, lru_team, curr_team, team, arrived,
                     event, job, handlers, offloads>>
  BY DEF OffloadEnd
<1>2. curr_team[0] = Root /\ curr_team'[0] = Root
  BY <1>1 DEF CoreInv
<1>3. Types'
  BY <1>1, Consts DEF Types
<1>4. pc'[0] = "mailbox" /\ \A p \in Workers : pc'[p] = pc[p]
  BY <1>1, Consts DEF Types
<1>5. /\ Active' = {} /\ Running' = {} /\ Ending' = {} /\ Busy' = {}
      /\ PoolInv' /\ OwnInv' /\ CoreInv' /\ MembInv' /\ BarInv'
  BY <1>1, <1>2, <1>3, <1>4, QuietNext
<1>6. HC' = HC /\ Busy = {} /\ Active = {}
  BY <1>1, <1>2, NoneActive DEF HC
<1>7. RestInv'
  <2>1. ASSUME NEW p \in Workers
        PROVE  (Docked(p)' <=> Docked(p)) /\ (Handles(p)' <=> Handles(p))
    BY <1>1, <1>4 DEF Docked, Handles
  <2> QED  BY <1>1, <1>4, <1>5, <1>6, <2>1 DEF RestInv
<1>8. LruInv'
  BY <1>1, <1>4, <1>5, <1>6 DEF LruInv, Master
<1>9. CoresExact'
  <2>1. Handling = HandlerCores(handlers) /\ Handling' = {}
    BY <1>1, <1>4 DEF Handling
  <2>2. Cardinality(Handling) = handlers
    BY <2>1, HandlersCount DEF Types
  <2>3. thread_pool' = {0} /\ Cardinality({}) = 0 /\ idle_cores + handlers = NumCores - 1
    BY <1>1, <1>2, <2>2, Quiet
  <2>4. idle_cores' + 0 + 0 = NumCores - 1
    BY <1>1, <2>3, Consts
  <2> QED  BY <1>5, <2>1, <2>3, <2>4 DEF CoresExact
<1> QED  BY <1>3, <1>5, <1>7, <1>8, <1>9

\* PULP_STOP: every worker is to leave.
LEMMA StopInv ==
  ASSUME TInv, Stop
  PROVE  TInv'
<1> USE DEF TInv
<1>1. /\ pc[0] = "mailbox"
      /\ curr_team' = [p \in Cores |-> IF p = 0 THEN curr_team[p] ELSE Exit]
      /\ event' = event \cup Workers
      /\ pc' = [pc EXCEPT ![0] = "exit"]
      /\ UNCHANGED <<thread_pool, idle_cores, team_pool, lru_team, team, arrived,
                     job, handlers, offloads>>
  BY DEF Stop
<1>2. curr_team[0] = Root /\ curr_team'[0] = Root
  BY <1>1, Consts DEF CoreInv
<1>3. Types'
  <2>1. curr_team' \in [Cores -> Teams \cup {Handler, Exit}]
    BY <1>1 DEF Types
  <2>2. event' \subseteq Workers
    BY <1>1 DEF Types
  <2> QED  BY <1>1, <2>1, <2>2 DEF Types
<1>4. pc'[0] = "exit" /\ \A p \in Workers : pc'[p] = pc[p]
  BY <1>1, Consts DEF Types
<1>5. /\ Active' = {} /\ Running' = {} /\ Ending' = {} /\ Busy' = {}
      /\ PoolInv' /\ OwnInv' /\ CoreInv' /\ MembInv' /\ BarInv'
  BY <1>1, <1>2, <1>3, <1>4, QuietNext
<1>6. HC' = HC /\ Busy = {} /\ Active = {}
  BY <1>1, <1>2, NoneActive DEF HC
<1>7. RestInv'
  <2>1. ASSUME NEW p \in Workers PROVE Leaves(p)'
    <3>1. Handles(p)
      BY <1>1, <1>6, <2>1 DEF RestInv, Docked, Handles
    <3>2. Handles(p)'
      BY <3>1, <1>1, <1>4 DEF Handles
    <3> QED  BY <3>2, <1>1, Consts DEF Leaves
  <2> QED  BY <1>1, <1>4, <1>5, <2>1 DEF RestInv
<1>8. LruInv'
  BY <1>4, <1>5 DEF LruInv
<1>9. CoresExact'
  <2>1. Handling = {} /\ Handling' = {}
    BY <1>1, <1>4 DEF Handling
  <2> QED  BY <1>1, <1>2, <1>5, <2>1, Quiet DEF CoresExact
<1> QED  BY <1>3, <1>5, <1>7, <1>8, <1>9

-----------------------------------------------------------------------------
(* Workers that wake, and miss handlers that end *)

\* Facts that hold of a step that leaves the pool and the descriptors alone and
\* in which no region begins or stops to end
LEMMA SameTeams ==
  ASSUME TInv, UNCHANGED <<team_pool, team, curr_team>>,
         \A p \in Cores : pc[p] = "free" <=> pc'[p] = "free"
  PROVE  /\ Pooled' = Pooled /\ Active' = Active /\ Ending' = Ending /\ Running' = Running
         /\ Busy' = Busy /\ PoolInv'
         /\ \A t : /\ WorkersOf(t)' = WorkersOf(t) /\ Master(t)' = Master(t)
                   /\ Level(t)' = Level(t)
<1>1. Pooled' = Pooled /\ Active' = Active
  BY DEF Pooled, Active
<1>2. Ending' = Ending
  BY DEF Ending
<1>3. Running' = Running
  BY <1>1, <1>2 DEF Running
<1>4. \A t : WorkersOf(t)' = WorkersOf(t) /\ Master(t)' = Master(t) /\ Level(t)' = Level(t)
  BY DEF WorkersOf, Master, Level
<1>5. Busy' = Busy
  BY <1>3, <1>4 DEF Busy
<1> QED  BY <1>1, <1>2, <1>3, <1>4, <1>5 DEF TInv, PoolInv

\* The cores of the regions do not change either, nor do the counters.
LEMMA SameCores ==
  ASSUME TInv, UNCHANGED <<team_pool, team, curr_team, thread_pool, idle_cores, handlers>>,
         \A p \in Cores : pc[p] = "free" <=> pc'[p] = "free",
         pc[0] \in {"mailbox", "exit"} <=> pc'[0] \in {"mailbox", "exit"}
  PROVE  CoresExact'
<1>1. Running' = Running /\ Busy' = Busy /\ \A t : WorkersOf(t)' = WorkersOf(t)
  BY SameTeams
<1>2. Handling' = Handling
  BY DEF Handling
<1> QED  BY <1>1, <1>2 DEF TInv, CoresExact

\* A worker p that waits at no barrier and runs no task moves on to something
\* that is not a barrier: everything but what it runs stays as it is.
WorkerMoves(p) ==
  /\ p \in Workers /\ pc[p] \notin Tasks
  /\ pc'[p] \notin Tasks \ {"body"}
  /\ \A q \in Cores \ {p} : /\ pc'[q] = pc[q] /\ job'[q] = job[q]
                            /\ q \in event' <=> q \in event
  /\ UNCHANGED <<thread_pool, idle_cores, team_pool, lru_team, curr_team, team, arrived,
                 handlers, offloads>>

\* The invariant after such a step, but for the cores at rest
LEMMA MovesInv ==
  ASSUME TInv, NEW p, WorkerMoves(p), Types', AtCore(p)',
         \A t \in Running : p \in WorkersOf(t) => Member(t, p)'
  PROVE  /\ PoolInv' /\ OwnInv' /\ CoreInv' /\ MembInv' /\ BarInv' /\ LruInv' /\ CoresExact'
         /\ Busy' = Busy /\ HC' = HC /\ pc'[0] = pc[0]
<1> USE DEF TInv, WorkerMoves
<1>1. /\ p \in Cores /\ p # 0 /\ 0 \in Cores \ {p}
      /\ pc'[0] = pc[0]
      /\ \A q \in Cores : pc[q] = "free" <=> pc'[q] = "free"
  BY Consts DEF Tasks, Execs
<1>2. /\ Pooled' = Pooled /\ Active' = Active /\ Ending' = Ending /\ Running' = Running
      /\ Busy' = Busy /\ PoolInv'
      /\ \A t : /\ WorkersOf(t)' = WorkersOf(t) /\ Master(t)' = Master(t)
                /\ Level(t)' = Level(t)
  BY <1>1, SameTeams
<1>3. CoresExact'
  BY <1>1, SameCores
<1>4. OwnInv'
  <2>1. ASSUME NEW t \in Active PROVE Owned(t)'
    <3>1. Owned(t) /\ Master(t) \in Cores
      BY ActiveFacts, TeamTypes DEF OwnInv
    <3>2. Master(t) # p
      BY <3>1 DEF Owned, Tasks
    <3>3. pc'[Master(t)] = pc[Master(t)] /\ job'[Master(t)] = job[Master(t)]
      BY <3>1, <3>2
    <3> QED  BY <3>1, <3>3, <1>2 DEF Owned
  <2> QED  BY <1>2, <2>1 DEF OwnInv
<1>5. CoreInv'
  <2>1. ASSUME NEW q \in Cores \ {p} PROVE AtCore(q)'
    <3>1. AtCore(q)
      BY DEF CoreInv
    <3>2. Mastered(q)' <=> Mastered(q)
      BY <1>2 DEF Mastered
    <3> QED  BY <3>1, <3>2, <1>2 DEF AtCore
  <2> QED  BY <1>1, <2>1 DEF CoreInv
<1>6. \A t \in Running : Over(t)' <=> Over(t)
  <2> TAKE t \in Running
  <2>1. Master(t) \in Cores
    BY ActiveFacts, TeamTypes
  <2>2. CASE Master(t) = p
    BY <2>2, <1>2 DEF Over, Tasks, Execs
  <2>3. CASE Master(t) # p
    BY <2>1, <2>3, <1>2 DEF Over
  <2> QED  BY <2>2, <2>3
<1>7. MembInv'
  <2>1. ASSUME NEW t \in Running, NEW q \in WorkersOf(t), q # p PROVE Member(t, q)'
    <3>1. Member(t, q) /\ q \in Cores
      BY ActiveFacts, TeamTypes DEF MembInv
    <3> QED  BY <3>1, <1>6, <2>1 DEF Member
  <2> QED  BY <1>2, <2>1 DEF MembInv
<1>8. BarInv'
  <2>1. ASSUME NEW t \in Teams, NEW q \in arrived[t] PROVE Waits(t, q)'
    <3>1. Waits(t, q) /\ q \in Cores
      BY DEF BarInv, Types
    <3>2. q # p
      BY <3>1 DEF Waits, Tasks, Execs
    <3> QED  BY <3>1, <3>2, <1>2 DEF Waits
  <2>2. ASSUME NEW q \in Cores PROVE /\ pc'[q] = "slave_wait" => q \in arrived[job'[q]]
                                     /\ pc'[q] = "master_wait" => q \in arrived[curr_team[q]]
    <3>1. CASE q = p
      BY <3>1 DEF Tasks, Execs
    <3>2. CASE q # p
      BY <3>2 DEF BarInv
    <3> QED  BY <3>1, <3>2
  <2> QED  BY <2>1, <2>2 DEF BarInv
<1>9. HC' = HC
  BY DEF HC
<1>10. LruInv'
  BY <1>1, <1>2, <1>9 DEF LruInv
<1> QED  BY <1>1, <1>2, <1>3, <1>4, <1>5, <1>7, <1>8, <1>9, <1>10

\* A core that wakes is leaving, a miss handler, or a worker of the region it
\* finds in curr_team.
LEMMA WakeInv ==
  ASSUME TInv, NEW p \in Cores, Wake(p)
  PROVE  TInv'
<1> USE DEF TInv
<1> DEFINE x == CASE curr_team[p] = Exit    -> "exit"
                  [] curr_team[p] = Handler -> "handling"
                  [] OTHER                  -> "body"
<1>1. /\ pc[p] = "docked" /\ p \in event /\ event' = event \ {p}
      /\ job' = [job EXCEPT ![p] = curr_team[p]]
      /\ pc' = [pc EXCEPT ![p] = x]
      /\ UNCHANGED <<thread_pool, idle_cores, team_pool, lru_team, curr_team, team,
                     arrived, sync, handlers, offloads>>
  BY DEF Wake
<1>2. /\ x \in {"exit", "handling", "body"}
      /\ curr_team[p] = Exit => x = "exit"
      /\ curr_team[p] = Handler => x = "handling"
      /\ curr_team[p] \in Teams => x = "body"
  BY Consts
<1> HIDE DEF x
<1>3. p \in Workers /\ pc'[p] = x /\ job'[p] = curr_team[p]
  BY <1>1 DEF Types
<1>4. Types'
  <2>1. pc' \in [Cores -> {"mailbox", "docked", "body", "handling", "master_wait",
                           "slave_wait", "end", "free", "exit"}]
    BY <1>1, <1>2 DEF Types
  <2>2. job' \in [Cores -> Teams \cup {Handler, Exit}]
    BY <1>1 DEF Types
  <2>3. event' \subseteq Workers
    BY <1>1 DEF Types
  <2> QED  BY <1>1, <2>1, <2>2, <2>3 DEF Types
<1>5. WorkerMoves(p)
  <2>1. \A q \in Cores \ {p} : /\ pc'[q] = pc[q] /\ job'[q] = job[q]
                               /\ q \in event' <=> q \in event
    BY <1>1 DEF Types
  <2>2. pc[p] \notin Tasks /\ pc'[p] \notin Tasks \ {"body"}
    BY <1>1, <1>2, <1>3 DEF Tasks, Execs
  <2> QED  BY <1>1, <1>3, <2>1, <2>2 DEF WorkerMoves
<1>6. \A q \in Cores : pc[q] = "free" <=> pc'[q] = "free"
  BY <1>5 DEF WorkerMoves, Tasks, Execs
<1>7. Running' = Running /\ \A t : WorkersOf(t)' = WorkersOf(t) /\ Master(t)' = Master(t)
  BY <1>1, <1>6, SameTeams
<1>8. ASSUME NEW t \in Running, p \in WorkersOf(t)
      PROVE  curr_team[p] = t /\ ~Over(t) /\ t \in Teams
  BY <1>1, <1>8, ActiveFacts DEF MembInv, Member, Tasks, Execs
<1>9. \A t \in Running : p \in WorkersOf(t) => Member(t, p)'
  <2> SUFFICES ASSUME NEW t \in Running, p \in WorkersOf(t) PROVE Member(t, p)'
    OBVIOUS
  <2>1. x = "body" /\ job'[p] = t /\ p \notin event' /\ ~Over(t)
    BY <1>1, <1>2, <1>3, <1>8
  <2>2. ~Over(t)'
    <3>1. Master(t) \in Cores
      BY ActiveFacts, TeamTypes
    <3>2. CASE Master(t) = p
      BY <3>2, <2>1, <1>3, <1>7 DEF Over
    <3>3. CASE Master(t) # p
      BY <3>1, <3>3, <2>1, <1>1, <1>5, <1>7 DEF Over, WorkerMoves
    <3> QED  BY <3>2, <3>3
  <2> QED  BY <1>3, <2>1, <2>2 DEF Member, Tasks, Execs
<1>10. CASE pc[0] = "exit"
  <2>1. curr_team[p] = Exit /\ x = "exit"
    BY <1>2, <1>3, <1>10 DEF RestInv, Leaves
  <2>2. AtCore(p)'
    BY <1>3, <2>1 DEF AtCore, Tasks, Execs
  <2>3. /\ PoolInv' /\ OwnInv' /\ CoreInv' /\ MembInv' /\ BarInv' /\ LruInv' /\ CoresExact'
        /\ Busy' = Busy /\ HC' = HC /\ pc'[0] = pc[0]
    BY <1>4, <1>5, <1>9, <2>2, MovesInv
  <2>4. RestInv'
    <3>1. ASSUME NEW q \in Workers PROVE Leaves(q)'
      <4>1. Leaves(q) /\ q \in Cores
        BY <1>10, Consts DEF RestInv
      <4>2. CASE q = p
        BY <1>1, <1>3, <2>1, <4>2 DEF Leaves
      <4>3. CASE q # p
        BY <1>1, <1>5, <4>1, <4>3 DEF Leaves, Handles, WorkerMoves
      <4> QED  BY <4>2, <4>3
    <3> QED  BY <1>1, <1>10, <2>3, <3>1 DEF RestInv
  <2> QED  BY <1>4, <2>3, <2>4
<1>11. CASE pc[0] # "exit"
  <2>1. ASSUME p \in HC PROVE curr_team[p] = Handler /\ x = "handling"
    BY <1>2, <1>3, <1>11, <2>1 DEF RestInv
  <2>2. ASSUME p \notin HC
        PROVE  p \in Busy /\ curr_team[p] \in Running /\ p \in WorkersOf(curr_team[p]) /\ x = "body"
    <3>1. p \in Busy
      BY <1>1, <1>3, <1>11, <2>2 DEF RestInv, Docked
    <3>2. PICK t \in Running : p \in WorkersOf(t)
      BY <3>1 DEF Busy
    <3> QED  BY <3>1, <3>2, <1>2, <1>8
  <2>3. AtCore(p)'
    <3>1. CASE p \in HC
      BY <3>1, <2>1, <1>3 DEF AtCore, Tasks, Execs
    <3>2. CASE p \notin HC
      BY <3>2, <2>2, <1>1, <1>3, <1>7 DEF AtCore
    <3> QED  BY <3>1, <3>2
  <2>4. /\ PoolInv' /\ OwnInv' /\ CoreInv' /\ MembInv' /\ BarInv' /\ LruInv' /\ CoresExact'
        /\ Busy' = Busy /\ HC' = HC /\ pc'[0] = pc[0]
    BY <1>4, <1>5, <1>9, <2>3, MovesInv
  <2>5. RestInv'
    <3>1. ASSUME NEW q \in Workers, q # p
          PROVE  (Handles(q)' <=> Handles(q)) /\ (Docked(q)' <=> Docked(q))
      BY <3>1, <1>1, <1>5, Consts DEF Handles, Docked, WorkerMoves
    <3>2. p \in HC => curr_team'[p] = Handler /\ Handles(p)'
      BY <1>1, <1>3, <2>1 DEF Handles
    <3>3. p \notin HC => p \in Busy
      BY <2>2
    <3> QED  BY <1>1, <1>11, <2>4, <3>1, <3>2, <3>3 DEF RestInv
  <2> QED  BY <1>4, <2>4, <2>5
<1> QED  BY <1>10, <1>11

\* A miss handler docks again without passing a barrier.
LEMMA HandlerDoneInv ==
  ASSUME TInv, NEW p \in Cores, HandlerDone(p)
  PROVE  TInv'
<1> USE DEF TInv
<1>1. p \in Workers
  BY Consts DEF CoreInv, Execs, HandlerDone
<1>2. p \notin Busy
  <2> SUFFICES ASSUME p \in Busy PROVE FALSE
    OBVIOUS
  <2>1. PICK t \in Running : p \in WorkersOf(t)
    BY DEF Busy
  <2> QED  BY <2>1 DEF MembInv, Member, Tasks, Execs, HandlerDone
<1>3. job[p] = Handler
  <2>1. CASE pc[0] = "exit"
    BY <1>1, <2>1 DEF RestInv, Leaves, Handles, HandlerDone
  <2>2. CASE pc[0] # "exit"
    BY <1>1, <1>2, <2>2 DEF RestInv, Handles, Docked, HandlerDone
  <2> QED  BY <2>1, <2>2
<1>4. /\ pc[p] = "handling" /\ pc' = [pc EXCEPT ![p] = "docked"]
      /\ UNCHANGED <<thread_pool, idle_cores, team_pool, lru_team, curr_team, team,
                     arrived, event, job, handlers, offloads>>
  BY <1>3, Consts DEF HandlerDone, SlaveEnter
<1>5. Types'
  BY <1>4 DEF Types
<1>6. WorkerMoves(p) /\ pc'[p] = "docked"
  BY <1>1, <1>4 DEF WorkerMoves, Types, Tasks, Execs
<1>7. AtCore(p)'
  BY <1>6 DEF AtCore, Tasks, Execs
<1>8. \A t \in Running : p \notin WorkersOf(t)
  BY <1>2 DEF Busy
<1>9. /\ PoolInv' /\ OwnInv' /\ CoreInv' /\ MembInv' /\ BarInv' /\ LruInv' /\ CoresExact'
      /\ Busy' = Busy /\ HC' = HC /\ pc'[0] = pc[0]
  BY <1>5, <1>6, <1>7, <1>8, MovesInv
<1>10. RestInv'
  <2>1. ASSUME NEW q \in Workers, q # p
        PROVE  /\ (Handles(q)' <=> Handles(q)) /\ (Docked(q)' <=> Docked(q))
               /\ Leaves(q)' <=> Leaves(q)
    BY <2>1, <1>4, <1>6, Consts DEF Handles, Docked, Leaves, WorkerMoves
  <2>2. Handles(p)'
    BY <1>6 DEF Handles
  <2>3. CASE pc[0] = "exit"
    <3>1. Leaves(p)'
      BY <1>1, <1>4, <2>2, <2>3 DEF RestInv, Leaves
    <3> QED  BY <1>4, <1>9, <2>1, <2>3, <3>1 DEF RestInv
  <2>4. CASE pc[0] # "exit"
    <3>1. p \in HC
      BY <1>1, <1>2, <1>4, <2>4 DEF RestInv, Docked
    <3> QED  BY <1>4, <1>9, <2>1, <2>2, <2>4, <3>1 DEF RestInv
  <2> QED  BY <2>3, <2>4
<1> QED  BY <1>5, <1>9, <1>10

-----------------------------------------------------------------------------
(* The barrier that ends a region *)

\* Core p arrives at the barrier of b as its master, or at the end of its task.
ArrivesAt(p, b, wait) ==
  /\ pc[p] = "body" /\ curr_team[p] = b
  /\ \/ wait = "master_wait" /\ Mastered(p)
     \/ wait = "slave_wait" /\ p # 0 /\ job[p] = b
  /\ Arrives(p, b, wait)
  /\ UNCHANGED <<thread_pool, idle_cores, team_pool, lru_team, curr_team, team,
                 event, job, handlers, offloads>>

\* The region is running and p is one of its cores, its master or not.
LEMMA ArrivesFacts ==
  ASSUME TInv, NEW p \in Cores, NEW b, NEW wait, ArrivesAt(p, b, wait)
  PROVE  /\ b \in Running /\ b \in Active /\ b \in Teams /\ p \in team[b].cores
         /\ wait = "master_wait" => p = Master(b)
         /\ wait = "slave_wait" => p # Master(b) /\ job[p] = b /\ p \in WorkersOf(b)
         /\ wait \in {"master_wait", "slave_wait"}
         /\ wait = "slave_wait" => \A t \in Active : Master(t) # p
<1> USE DEF TInv, ArrivesAt
<1>1. CASE wait = "master_wait"
  <2>1. b \in Active /\ p = Master(b)
    BY <1>1 DEF Mastered
  <2>2. b \notin Ending
    BY <2>1, EndingIs
  <2>3. p \in team[b].cores
    BY <2>1 DEF OwnInv, Owned
  <2> QED  BY <1>1, <2>1, <2>2, <2>3, ActiveFacts
<1>2. CASE wait = "slave_wait"
  <2>1. b \in Running /\ b \in Active /\ b \in Teams /\ p \in WorkersOf(b) /\ job[p] = b
    BY <1>2, TaskOf DEF Tasks, Execs
  <2>2. p \in team[b].cores /\ p # Master(b)
    BY <2>1 DEF WorkersOf, Master
  <2>3. ASSUME NEW t \in Active, Master(t) = p PROVE FALSE
    <3>1. Level(t) <= Level(b) /\ Level(t) > Level(b)
      BY <2>1, <2>3 DEF OwnInv, Owned
    <3>2. Level(t) \in Nat /\ Level(b) \in Nat
      BY <2>1, ActiveFacts, TeamTypes
    <3> QED  BY <3>1, <3>2
  <2> QED  BY <1>2, <2>1, <2>2, <2>3
<1> QED  BY <1>1, <1>2

\* The barrier still waits for others.
LEMMA ArrivesFirst ==
  ASSUME TInv, NEW p \in Cores, NEW b, NEW wait, ArrivesAt(p, b, wait),
         arrived[b] \cup {p} # team[b].cores
  PROVE  TInv'
<1> USE DEF TInv
<1>1. /\ pc[p] = "body" /\ curr_team[p] = b
      /\ \/ wait = "master_wait" /\ Mastered(p)
         \/ wait = "slave_wait" /\ p # 0 /\ job[p] = b
      /\ arrived' = [arrived EXCEPT ![b] = arrived[b] \cup {p}]
      /\ pc' = [pc EXCEPT ![p] = wait]
      /\ UNCHANGED <<thread_pool, idle_cores, team_pool, lru_team, curr_team, team,
                     event, job, handlers, offloads>>
  BY DEF ArrivesAt, Arrives
<1>2. /\ b \in Running /\ b \in Active /\ b \in Teams /\ p \in team[b].cores
      /\ wait = "master_wait" => p = Master(b)
      /\ wait = "slave_wait" => p # Master(b) /\ job[p] = b /\ p \in WorkersOf(b)
      /\ wait \in {"master_wait", "slave_wait"}
      /\ wait = "slave_wait" => \A t \in Active : Master(t) # p
  BY ArrivesFacts
<1>3. pc'[p] = wait /\ \A q \in Cores \ {p} : pc'[q] = pc[q]
  BY <1>1 DEF Types
<1>4. Types'
  <2>1. pc' \in [Cores -> {"mailbox", "docked", "body", "handling", "master_wait",
                           "slave_wait", "end", "free", "exit"}]
    BY <1>1, <1>2 DEF Types
  <2>2. arrived' \in [Teams -> SUBSET Cores]
    BY <1>1 DEF Types
  <2> QED  BY <1>1, <2>1, <2>2 DEF Types
<1>5. \A q \in Cores : pc[q] = "free" <=> pc'[q] = "free"
  BY <1>1, <1>2, <1>3
<1>6. /\ Pooled' = Pooled /\ Active' = Active /\ Ending' = Ending /\ Running' = Running
      /\ Busy' = Busy /\ PoolInv'
      /\ \A t : /\ WorkersOf(t)' = WorkersOf(t) /\ Master(t)' = Master(t)
                /\ Level(t)' = Level(t)
  BY <1>1, <1>5, SameTeams
<1>7. CoresExact'
  <2>1. pc[0] \in {"mailbox", "exit"} <=> pc'[0] \in {"mailbox", "exit"}
    BY <1>1, <1>2, <1>3, Consts
  <2> QED  BY <1>1, <1>5, <2>1, SameCores
<1>8. OwnInv'
  <2>1. ASSUME NEW t \in Active PROVE Owned(t)'
    <3>1. Owned(t) /\ Master(t) \in Cores
      BY ActiveFacts, TeamTypes DEF OwnInv
    <3>2. pc'[Master(t)] \in Execs
      <4>1. CASE Master(t) = p
        BY <4>1, <1>2, <1>3 DEF Execs
      <4>2. CASE Master(t) # p
        BY <4>2, <3>1, <1>3 DEF Owned
      <4> QED  BY <4>1, <4>2
    <3> QED  BY <3>1, <3>2, <1>1, <1>6 DEF Owned
  <2> QED  BY <1>6, <2>1 DEF OwnInv
<1>9. CoreInv'
  <2>1. ASSUME NEW q \in Cores PROVE AtCore(q)'
    <3>1. AtCore(q)
      BY DEF CoreInv
    <3>2. Mastered(q)' <=> Mastered(q)
      BY <1>1, <1>6 DEF Mastered
    <3>3. CASE q = p
      <4>1. pc[p] \in Tasks /\ pc'[p] \in Tasks /\ pc'[p] \in {"master_wait", "slave_wait"}
        BY <1>1, <1>2, <1>3 DEF Tasks, Execs
      <4> QED  BY <3>1, <3>2, <3>3, <4>1, <1>1, <1>2, <1>3, <1>6 DEF AtCore
    <3>4. CASE q # p
      BY <3>1, <3>2, <3>4, <1>1, <1>3, <1>6 DEF AtCore
    <3> QED  BY <3>3, <3>4
  <2>2. pc'[0] \in {"mailbox", "exit"} \cup Execs /\ (p = 0 => pc'[0] = "master_wait")
    BY <1>1, <1>2, <1>3, Consts DEF CoreInv, Execs
  <2> QED  BY <1>1, <1>3, <2>1, <2>2, Consts DEF CoreInv
<1>10. \A t \in Running : Over(t)' <=> Over(t)
  <2> TAKE t \in Running
  <2>1. Master(t) \in Cores
    BY ActiveFacts, TeamTypes
  <2>2. CASE Master(t) = p
    BY <2>2, <1>1, <1>2, <1>3, <1>6 DEF Over
  <2>3. CASE Master(t) # p
    BY <2>1, <2>3, <1>1, <1>3, <1>6 DEF Over
  <2> QED  BY <2>2, <2>3
<1>11. MembInv'
  <2>1. ASSUME NEW t \in Running, NEW q \in WorkersOf(t) PROVE Member(t, q)'
    <3>1. Member(t, q) /\ q \in Cores
      BY ActiveFacts, TeamTypes DEF MembInv
    <3>2. CASE q = p
      BY <3>1, <3>2, <1>1, <1>2, <1>3, <1>10 DEF Member, Tasks, Execs
    <3>3. CASE q # p
      BY <3>1, <3>3, <1>1, <1>3, <1>10 DEF Member
    <3> QED  BY <3>2, <3>3
  <2> QED  BY <1>6, <2>1 DEF MembInv
<1>12. BarInv'
  <2>1. \A t \in Teams : arrived'[t] = IF t = b THEN arrived[b] \cup {p} ELSE arrived[t]
    BY <1>1 DEF Types
  <2>2. ASSUME NEW t \in Teams, NEW q \in arrived[t] PROVE Waits(t, q)'
    <3>1. Waits(t, q) /\ q \in Cores
      BY DEF BarInv, Types
    <3>2. q # p
      BY <3>1, <1>1 DEF Waits
    <3> QED  BY <3>1, <3>2, <1>1, <1>3, <1>6 DEF Waits
  <2>3. Waits(b, p)'
    BY <1>1, <1>2, <1>3, <1>6 DEF Waits
  <2>4. ASSUME NEW q \in Cores PROVE /\ pc'[q] = "slave_wait" => q \in arrived'[job[q]]
                                     /\ pc'[q] = "master_wait" => q \in arrived'[curr_team[q]]
    <3>1. CASE q = p
      BY <3>1, <1>1, <1>2, <1>3, <2>1
    <3>2. CASE q # p
      <4>1. pc[q] = "slave_wait" => job[q] \in Teams
        BY Consts, TaskOf DEF Tasks, CoreInv
      <4>2. pc[q] = "master_wait" => curr_team[q] \in Teams
        BY ActiveFacts DEF CoreInv, AtCore, Mastered
      <4> QED  BY <3>2, <4>1, <4>2, <1>3, <2>1 DEF BarInv
    <3> QED  BY <3>1, <3>2
  <2> QED  BY <1>1, <2>1, <2>2, <2>3, <2>4 DEF BarInv
<1>13. HC' = HC
  BY <1>1 DEF HC
<1>14. RestInv'
  <2>1. pc[0] # "exit" /\ pc'[0] # "exit"
    <3>1. pc[0] # "exit"
      BY <1>2, NoneActive DEF CoreInv
    <3> QED  BY <3>1, <1>2, <1>3, Consts
  <2>2. ASSUME NEW q \in Workers, Handles(q) \/ Docked(q) PROVE q # p
    BY <2>2, <1>1 DEF Handles, Docked
  <2>3. ASSUME NEW q \in Workers, q # p
        PROVE  (Handles(q)' <=> Handles(q)) /\ (Docked(q)' <=> Docked(q))
    BY <2>3, <1>1, <1>3, Consts DEF Handles, Docked
  <2> QED  BY <1>1, <1>6, <1>13, <2>1, <2>2, <2>3 DEF RestInv
<1>15. LruInv'
  BY <1>1, <1>2, <1>5, <1>6, Consts DEF LruInv
<1> QED  BY <1>4, <1>6, <1>7, <1>8, <1>9, <1>11, <1>12, <1>14, <1>15

\* The last core arrives: the master goes on and the workers dock.
LEMMA ArrivesLast ==
  ASSUME TInv, NEW p \in Cores, NEW b, NEW wait, ArrivesAt(p, b, wait),
         arrived[b] \cup {p} = team[b].cores
  PROVE  TInv'
<1> USE DEF TInv
<1> DEFINE here == arrived[b] \cup {p}
           asleep == [pc EXCEPT ![p] = wait]
<1>1. /\ pc[p] = "body" /\ curr_team[p] = b
      /\ \/ wait = "master_wait" /\ Mastered(p)
         \/ wait = "slave_wait" /\ p # 0 /\ job[p] = b
      /\ arrived' = [arrived EXCEPT ![b] = {}]
      /\ pc' = [q \in Cores |-> IF q \notin here THEN pc[q]
                                ELSE IF asleep[q] = "master_wait" THEN "end" ELSE "docked"]
      /\ UNCHANGED <<thread_pool, idle_cores, team_pool, lru_team, curr_team, team,
                     event, job, handlers, offloads>>
  BY DEF ArrivesAt, Arrives
<1>2. /\ b \in Running /\ b \in Active /\ b \in Teams /\ p \in team[b].cores
      /\ wait = "master_wait" => p = Master(b)
      /\ wait = "slave_wait" => p # Master(b) /\ job[p] = b /\ p \in WorkersOf(b)
      /\ wait \in {"master_wait", "slave_wait"}
      /\ wait = "slave_wait" => \A t \in Active : Master(t) # p
  BY ArrivesFacts
<1>3. Master(b) \in here /\ here = team[b].cores /\ here \subseteq Cores
  BY <1>2, TeamTypes DEF OwnInv, Owned
<1>4. ASSUME NEW q \in here
      PROVE  /\ q = Master(b) => curr_team[q] = b /\ pc[q] \in {"body", "master_wait"}
                                 /\ pc'[q] = "end"
             /\ q # Master(b) => job[q] = b /\ curr_team[q] = b /\ q \in WorkersOf(b)
                                 /\ pc[q] \in {"body", "slave_wait"} /\ pc'[q] = "docked"
                                 /\ \A t \in Active : Master(t) # q
  <2>1. CASE q = p
    <3>1. asleep[q] = wait
      BY <2>1 DEF Types
    <3> QED  BY <1>1, <1>2, <2>1, <3>1
  <2>2. CASE q # p
    <3>1. q \in arrived[b] /\ Waits(b, q) /\ q \in Cores
      BY <1>2, <1>3, <2>2 DEF BarInv
    <3>2. asleep[q] = pc[q]
      BY <2>2, <3>1 DEF Types
    <3>3. pc'[q] = IF pc[q] = "master_wait" THEN "end" ELSE "docked"
      BY <1>1, <3>1, <3>2
    <3>4. q = Master(b) => curr_team[q] = b /\ pc[q] = "master_wait"
      BY <3>1 DEF Waits
    <3>5. q # Master(b) => job[q] = b /\ pc[q] = "slave_wait"
      BY <3>1 DEF Waits
    <3>6. q # Master(b) => curr_team[q] = b
      BY <3>1, <3>5 DEF CoreInv, AtCore
    <3>7. q # Master(b) => q \in WorkersOf(b)
      BY <1>3 DEF WorkersOf, Master
    <3>8. q # Master(b) => \A t \in Active : Master(t) # q
      BY <3>5 DEF OwnInv, Owned, Execs
    <3> QED  BY <3>3, <3>4, <3>5, <3>6, <3>7, <3>8
  <2> QED  BY <2>1, <2>2
<1>5. \A q \in Cores \ here : pc'[q] = pc[q]
  BY <1>1
<1>6. \A q \in here : pc[q] \in Tasks /\ pc[q] \notin {"end", "free"}
                      /\ pc'[q] \in {"end", "docked"} /\ pc[q] # "exit" /\ pc[q] # "mailbox"
  <2> TAKE q \in here
  <2>1. pc[q] \in {"body", "master_wait", "slave_wait"} /\ pc'[q] \in {"end", "docked"}
    BY <1>4
  <2> QED  BY <2>1 DEF Tasks, Execs
<1>7. Types'
  <2>1. pc' \in [Cores -> {"mailbox", "docked", "body", "handling", "master_wait",
                           "slave_wait", "end", "free", "exit"}]
    BY <1>1 DEF Types
  <2>2. arrived' \in [Teams -> SUBSET Cores]
    BY <1>1 DEF Types
  <2> QED  BY <1>1, <2>1, <2>2 DEF Types
<1>8. /\ \A t \in Teams : arrived'[t] = IF t = b THEN {} ELSE arrived[t]
      /\ UNCHANGED <<thread_pool, idle_cores, team_pool, lru_team, curr_team, team,
                     event, job, handlers, offloads>>
      /\ arrived[b] \subseteq here
  BY <1>1 DEF Types
<1> HIDE DEF here, asleep
<1>9. \A q \in Cores : pc[q] = "free" <=> pc'[q] = "free"
  BY <1>5, <1>6
<1>10. /\ Pooled' = Pooled /\ Active' = Active /\ Ending' = Ending /\ Running' = Running
       /\ Busy' = Busy /\ PoolInv'
       /\ \A t : /\ WorkersOf(t)' = WorkersOf(t) /\ Master(t)' = Master(t)
                 /\ Level(t)' = Level(t)
  BY <1>8, <1>9, SameTeams
<1>11. 0 \in here => Master(b) = 0
  BY <1>2, <1>4, WorkersAre, Consts
<1>12. pc[0] # "exit" /\ pc'[0] # "exit" /\ pc[0] # "mailbox" /\ pc'[0] # "mailbox"
  <2>1. pc[0] # "exit" /\ pc[0] # "mailbox"
    BY <1>2, NoneActive DEF CoreInv
  <2> QED  BY <2>1, <1>5, <1>6, Consts
<1>13. CoresExact'
  BY <1>8, <1>9, <1>12, SameCores
<1>14. OwnInv'
  <2>1. ASSUME NEW t \in Active PROVE Owned(t)'
    <3>1. Owned(t) /\ Master(t) \in Cores
      BY ActiveFacts, TeamTypes DEF OwnInv
    <3>2. pc'[Master(t)] \in Execs
      <4>1. CASE Master(t) \in here
        BY <4>1, <1>4 DEF Execs
      <4>2. CASE Master(t) \notin here
        BY <4>2, <3>1, <1>5 DEF Owned
      <4> QED  BY <4>1, <4>2
    <3> QED  BY <3>1, <3>2, <1>8, <1>10 DEF Owned
  <2> QED  BY <1>10, <2>1 DEF OwnInv
<1>15. CoreInv'
  <2>1. ASSUME NEW q \in Cores PROVE AtCore(q)'
    <3>1. AtCore(q)
      BY DEF CoreInv
    <3>2. Mastered(q)' <=> Mastered(q)
      BY <1>8, <1>10 DEF Mastered
    <3>3. CASE q \in here /\ q = Master(b)
      <4>1. Mastered(q) /\ pc'[q] = "end" /\ pc[q] \in Tasks
        BY <3>3, <1>2, <1>4, <1>6 DEF Mastered
      <4> QED  BY <3>1, <3>2, <4>1, <1>8, <1>10 DEF AtCore
    <3>4. CASE q \in here /\ q # Master(b)
      BY <3>4, <1>4 DEF AtCore, Tasks, Execs
    <3>5. CASE q \notin here
      BY <3>1, <3>2, <3>5, <1>5, <1>8, <1>10 DEF AtCore
    <3> QED  BY <3>3, <3>4, <3>5
  <2>2. pc'[0] \in {"mailbox", "exit"} \cup Execs
    BY <1>4, <1>5, <1>11, Consts DEF CoreInv, Execs
  <2> QED  BY <1>8, <1>12, <2>1, <2>2 DEF CoreInv
<1>16. Over(b)'
  BY <1>3, <1>4, <1>8, <1>10 DEF Over
<1>17. \A t \in Running : t # b => (Over(t)' <=> Over(t))
  <2> TAKE t \in Running
  <2>1. Master(t) \in Cores
    BY ActiveFacts, TeamTypes
  <2>2. CASE Master(t) \in here
    <3>1. pc[Master(t)] # "end" /\ (pc'[Master(t)] = "end" => curr_team[Master(t)] = b)
      BY <2>2, <1>4, <1>6
    <3> QED  BY <3>1, <1>8, <1>10 DEF Over
  <2>3. CASE Master(t) \notin here
    BY <2>1, <2>3, <1>5, <1>8, <1>10 DEF Over
  <2> QED  BY <2>2, <2>3
<1>18. MembInv'
  <2>1. ASSUME NEW t \in Running, NEW q \in WorkersOf(t) PROVE Member(t, q)'
    <3>1. Member(t, q) /\ q \in Cores
      BY ActiveFacts, TeamTypes DEF MembInv
    <3>2. CASE t = b
      <4>1. q \in here /\ q # Master(b)
        BY <3>2, <1>3 DEF WorkersOf, Master
      <4>2. curr_team[q] = b /\ pc'[q] = "docked" /\ pc[q] # "docked"
        BY <4>1, <1>4
      <4>3. q \notin event
        BY <3>1, <4>2 DEF Member
      <4> QED  BY <3>2, <4>2, <4>3, <1>8, <1>16 DEF Member
    <3>3. CASE t # b /\ q \in here
      <4>1. q = Master(b)
        BY <3>3, <1>2, <1>4 DEF CoresExact
      <4>2. pc'[q] = "end" /\ pc[q] \in {"body", "master_wait"}
        BY <3>3, <4>1, <1>4
      <4>3. q \notin event /\ job[q] = t /\ ~Over(t)
        BY <3>1, <4>2 DEF Member
      <4> QED  BY <3>3, <4>2, <4>3, <1>8, <1>17 DEF Member, Tasks, Execs
    <3>4. CASE t # b /\ q \notin here
      BY <3>1, <3>4, <1>5, <1>8, <1>17 DEF Member
    <3> QED  BY <3>2, <3>3, <3>4
  <2> QED  BY <1>10, <2>1 DEF MembInv
<1>19. BarInv'
  <2>1. ASSUME NEW t \in Teams, t # b, NEW q \in arrived[t] PROVE Waits(t, q)'
    <3>1. Waits(t, q) /\ q \in Cores
      BY DEF BarInv, Types
    <3>2. q \notin here
      BY <3>1, <2>1, <1>1, <1>4 DEF Waits
    <3> QED  BY <3>1, <3>2, <1>5, <1>8, <1>10 DEF Waits
  <2>2. ASSUME NEW q \in Cores PROVE /\ pc'[q] = "slave_wait" => q \in arrived'[job[q]]
                                     /\ pc'[q] = "master_wait" => q \in arrived'[curr_team[q]]
    <3>1. CASE q \in here
      BY <3>1, <1>6
    <3>2. CASE q \notin here
      <4>1. pc[q] = "slave_wait" => job[q] \in Teams
        BY Consts, TaskOf DEF Tasks, CoreInv
      <4>2. pc[q] = "master_wait" => curr_team[q] \in Teams
        BY ActiveFacts DEF CoreInv, AtCore, Mastered
      <4> QED  BY <3>2, <4>1, <4>2, <1>5, <1>8 DEF BarInv
    <3> QED  BY <3>1, <3>2
  <2> QED  BY <1>8, <2>1, <2>2 DEF BarInv
<1>20. HC' = HC
  BY <1>8 DEF HC
<1>21. RestInv'
  <2>1. ASSUME NEW q \in Workers, Handles(q) \/ Docked(q) PROVE q \notin here
    BY <2>1, <1>4 DEF Handles, Docked
  <2>2. ASSUME NEW q \in Workers, q \notin here
        PROVE  (Handles(q)' <=> Handles(q)) /\ (Docked(q)' <=> Docked(q))
    BY <2>2, <1>5, <1>8, Consts DEF Handles, Docked
  <2> QED  BY <1>8, <1>10, <1>12, <1>20, <2>1, <2>2 DEF RestInv
<1>22. LruInv'
  BY <1>2, <1>8, <1>9, <1>10, Consts DEF LruInv
<1> QED  BY <1>7, <1>10, <1>13, <1>14, <1>15, <1>18, <1>19, <1>21, <1>22

\* GOMP_parallel_end: the master arrives at the barrier of its region.
LEMMA ParallelEndInv ==
  ASSUME TInv, NEW p \in Cores, ParallelEnd(p)
  PROVE  TInv'
<1>1. Mastered(p)
  BY DEF TInv, CoreInv, AtCore, ParallelEnd
<1>2. ArrivesAt(p, curr_team[p], "master_wait")
  BY <1>1 DEF ParallelEnd, ArrivesAt
<1> QED  BY <1>2, ArrivesFirst, ArrivesLast

\* A worker arrives at the barrier of its team, which never is the one of the
\* identifier that is skipped.
LEMMA TaskDoneInv ==
  ASSUME TInv, NEW p \in Cores, TaskDone(p)
  PROVE  TInv'
<1>1. job[p] \in Teams /\ job[p] # 0
  BY TaskOf DEF TaskDone, Tasks, Execs
<1>2. job[p] > 0
  <2>1. \A t \in Teams : t # 0 => t > 0
    BY DEF Teams
  <2> QED  BY <1>1, <2>1
<1>3. ArrivesAt(p, job[p], "slave_wait")
  BY <1>1, <1>2 DEF TaskDone, SlaveEnter, ArrivesAt
<1> QED  BY <1>3, ArrivesFirst, ArrivesLast

-----------------------------------------------------------------------------
(* The end of a region *)

\* The workers of a region are all of its threads but one.
LEMMA WorkersCount ==
  ASSUME TInv, NEW t \in Active
  PROVE  /\ IsFiniteSet(WorkersOf(t)) /\ team[t].nthreads \in Nat
         /\ Cardinality(WorkersOf(t)) = team[t].nthreads - 1
<1> USE DEF TInv
<1>1. t \in Teams /\ Master(t) \in team[t].cores
      /\ team[t].nthreads = Cardinality(team[t].cores)
  BY ActiveFacts DEF OwnInv, Owned
<1>2. IsFiniteSet(team[t].cores) /\ team[t].nthreads \in Nat
  BY <1>1, TeamTypes, CoresFinite
<1>3. WorkersOf(t) = team[t].cores \ {Master(t)}
  BY DEF WorkersOf, Master
<1>4. /\ IsFiniteSet(team[t].cores \ {Master(t)})
      /\ Cardinality(team[t].cores \ {Master(t)}) = Cardinality(team[t].cores) - 1
  BY <1>1, <1>2, FS_RemoveElement
<1> QED  BY <1>1, <1>2, <1>3, <1>4

\* gomp_team_end gives back exactly the workers of the region.
LEMMA TeamEndInv ==
  ASSUME TInv, NEW p \in Cores, TeamEnd(p)
  PROVE  TInv'
<1> USE DEF TInv
<1> DEFINE t == curr_team[p]
<1>1. /\ pc[p] = "end" /\ pc' = [pc EXCEPT ![p] = "free"]
      /\ idle_cores' = idle_cores + (team[t].nthreads - 1)
      /\ thread_pool' = thread_pool \ (team[t].cores \ {p})
      /\ UNCHANGED <<team_pool, lru_team, curr_team, team, arrived, event, job,
                     handlers, offloads>>
  BY DEF TeamEnd, Released
<1>2. t \in Active /\ Master(t) = p /\ t \in Teams
  BY <1>1, ActiveFacts DEF CoreInv, AtCore, Mastered
<1>3. pc'[p] = "free" /\ \A q \in Cores \ {p} : pc'[q] = pc[q]
  BY <1>1 DEF Types
<1>4. t \notin Ending /\ t \in Running /\ Over(t)
  BY <1>1, <1>2, EndingIs, ActiveFacts DEF Over
<1>5. thread_pool' = thread_pool \ WorkersOf(t)
  BY <1>1, <1>2 DEF WorkersOf, Master
<1> HIDE DEF t
<1>6. Types'
  <2>1. idle_cores' \in Int
    BY <1>1, <1>2, WorkersCount DEF Types
  <2>2. pc' \in [Cores -> {"mailbox", "docked", "body", "handling", "master_wait",
                           "slave_wait", "end", "free", "exit"}]
    BY <1>1 DEF Types
  <2> QED  BY <1>1, <2>1, <2>2 DEF Types
<1>7. /\ Pooled' = Pooled /\ Active' = Active
      /\ \A s : WorkersOf(s)' = WorkersOf(s) /\ Master(s)' = Master(s) /\ Level(s)' = Level(s)
  BY <1>1 DEF Pooled, Active, WorkersOf, Master, Level
<1>8. Ending' = Ending \cup {t}
  <2>1. \A q \in Cores : pc'[q] = "free" <=> q = p \/ pc[q] = "free"
    BY <1>3
  <2>2. curr_team' = curr_team /\ curr_team[p] = t
    BY <1>1 DEF t
  <2> QED  BY <2>1, <2>2 DEF Ending
<1>9. Running' = Running \ {t}
  BY <1>7, <1>8 DEF Running
<1>10. ASSUME NEW q \in WorkersOf(t)
       PROVE  pc[q] = "docked" /\ q \notin event /\ curr_team[q] = t /\ q # p /\ q \in Workers
  <2>1. Member(t, q)
    BY <1>4 DEF MembInv
  <2>2. q # p
    BY <1>2 DEF WorkersOf, Master
  <2> QED  BY <1>4, <2>1, <2>2, WorkersAre DEF Member
<1>11. Busy' = Busy \ WorkersOf(t) /\ WorkersOf(t) \subseteq Busy
  <2>1. \A s \in Running : s # t => WorkersOf(s) \cap WorkersOf(t) = {}
    BY <1>4 DEF CoresExact
  <2> QED  BY <2>1, <1>4, <1>7, <1>9 DEF Busy
<1>12. PoolInv'
  BY <1>1, <1>7 DEF PoolInv
<1>13. OwnInv'
  <2>1. ASSUME NEW s \in Active PROVE Owned(s)'
    <3>1. Owned(s) /\ Master(s) \in Cores
      BY ActiveFacts, TeamTypes DEF OwnInv
    <3>2. pc'[Master(s)] \in Execs
      BY <3>1, <1>3 DEF Owned, Execs
    <3> QED  BY <3>1, <3>2, <1>1, <1>7 DEF Owned
  <2> QED  BY <1>7, <2>1 DEF OwnInv
<1>14. CoreInv'
  <2>1. ASSUME NEW q \in Cores PROVE AtCore(q)'
    <3>1. AtCore(q)
      BY DEF CoreInv
    <3>2. Mastered(q)' <=> Mastered(q)
      BY <1>1, <1>7 DEF Mastered
    <3>3. q # 0 /\ pc[q] \in Tasks => job[q] # t
      BY <1>4, TaskOf
    <3>4. CASE q = p
      <4>1. pc[p] \in Tasks /\ Mastered(p)
        BY <1>1, <3>1, <3>4 DEF AtCore, Tasks, Execs
      <4> QED  BY <3>1, <3>2, <3>3, <3>4, <4>1, <1>1, <1>3, <1>7, <1>9 DEF AtCore
    <3>5. CASE q # p
      BY <3>1, <3>2, <3>3, <3>5, <1>1, <1>3, <1>7, <1>9 DEF AtCore
    <3> QED  BY <3>4, <3>5
  <2>2. pc'[0] \in {"mailbox", "exit"} \cup Execs
    BY <1>3, Consts DEF CoreInv, Execs
  <2>3. pc'[0] \in {"mailbox", "exit"} => pc[0] \in {"mailbox", "exit"}
    BY <1>3, Consts
  <2> QED  BY <1>1, <2>1, <2>2, <2>3 DEF CoreInv
<1>15. \A s \in Running : s # t => (Over(s)' <=> Over(s))
  <2> SUFFICES ASSUME NEW s \in Running, s # t PROVE Over(s)' <=> Over(s)
    OBVIOUS
  <2>1. Master(s) \in Cores
    BY ActiveFacts, TeamTypes
  <2>2. CASE Master(s) = p
    <3>1. curr_team[p] # s /\ curr_team' = curr_team
      BY <1>1 DEF t
    <3> QED  BY <2>2, <3>1, <1>7 DEF Over
  <2>3. CASE Master(s) # p
    BY <2>1, <2>3, <1>1, <1>3, <1>7 DEF Over
  <2> QED  BY <2>2, <2>3
<1>16. MembInv'
  <2>1. ASSUME NEW s \in Running, s # t, NEW q \in WorkersOf(s) PROVE Member(s, q)'
    <3>1. Member(s, q) /\ q \in Cores
      BY ActiveFacts, TeamTypes DEF MembInv
    <3>2. CASE q = p
      BY <3>1, <3>2, <1>1, <1>3, <1>15, <2>1 DEF Member, Tasks, Execs
    <3>3. CASE q # p
      BY <3>1, <3>3, <1>1, <1>3, <1>15, <2>1 DEF Member
    <3> QED  BY <3>2, <3>3
  <2> QED  BY <1>7, <1>9, <2>1 DEF MembInv
<1>17. BarInv'
  <2>1. ASSUME NEW s \in Teams, NEW q \in arrived[s] PROVE Waits(s, q)'
    <3>1. Waits(s, q) /\ q \in Cores
      BY DEF BarInv, Types
    <3>2. q # p
      BY <3>1, <1>1 DEF Waits
    <3>3. s # t
      <4>1. SUFFICES ASSUME s = t PROVE FALSE
        OBVIOUS
      <4>2. q \in WorkersOf(t) /\ pc[q] = "slave_wait"
        BY <4>1, <3>1, <3>2, <1>2 DEF Waits, WorkersOf, Master
      <4> QED  BY <4>2, <1>10
    <3> QED  BY <3>1, <3>2, <3>3, <1>1, <1>3, <1>7, <1>9 DEF Waits
  <2>2. \A q \in Cores : /\ pc'[q] = "slave_wait" => pc[q] = "slave_wait"
                         /\ pc'[q] = "master_wait" => pc[q] = "master_wait"
    BY <1>3
  <2> QED  BY <1>1, <2>1, <2>2 DEF BarInv
<1>18. HC' = HC
  BY <1>1 DEF HC
<1>19. pc[0] # "exit" /\ pc'[0] # "exit" /\ pc[0] # "mailbox" /\ pc'[0] # "mailbox"
  <2>1. pc[0] # "exit" /\ pc[0] # "mailbox"
    BY <1>2, NoneActive DEF CoreInv
  <2> QED  BY <2>1, <1>3, Consts
<1>20. RestInv'
  <2>1. ASSUME NEW q \in Workers, Handles(q) \/ Docked(q) PROVE q # p
    BY <2>1, <1>1 DEF Handles, Docked
  <2>2. ASSUME NEW q \in Workers, q # p
        PROVE  (Handles(q)' <=> Handles(q)) /\ (Docked(q)' <=> Docked(q))
    BY <2>2, <1>1, <1>3, Consts DEF Handles, Docked
  <2>3. ASSUME NEW q \in WorkersOf(t) PROVE Docked(q)
    BY <1>2, <1>10 DEF Docked
  <2>4. ASSUME NEW q \in Workers
        PROVE  /\ q \in HC => curr_team'[q] = Handler /\ Handles(q)'
               /\ q \notin HC /\ q \notin Busy' => Docked(q)'
    BY <1>1, <1>11, <1>19, <2>1, <2>2, <2>3 DEF RestInv
  <2>5. Busy' \cap HC' = {}
    BY <1>11, <1>18 DEF RestInv
  <2> QED  BY <1>1, <1>18, <1>19, <2>4, <2>5 DEF RestInv
<1>21. LruInv'
  <2>1. ASSUME pc'[0] = "free", Level(curr_team[0])' = 1, NEW q \in WorkersOf(curr_team[0])
        PROVE  curr_team[q] = curr_team[0]
    <3>1. CASE p = 0
      BY <3>1, <2>1, <1>10 DEF t
    <3>2. CASE p # 0
      BY <3>2, <2>1, <1>1, <1>3, <1>7, Consts DEF LruInv
    <3> QED  BY <3>1, <3>2
  <2>2. WorkersOf(curr_team[0])' = WorkersOf(curr_team[0])
    BY <1>1 DEF WorkersOf
  <2> QED  BY <1>1, <1>2, <1>7, <2>1, <2>2 DEF LruInv
<1>22. CoresExact'
  <2>1. /\ \A s, u \in Running' : s # u => WorkersOf(s)' \cap WorkersOf(u)' = {}
        /\ \A s \in Running' : /\ team'[s].proc0 \in team'[s].cores
                               /\ team'[s].nthreads = Cardinality(team'[s].cores)
    BY <1>1, <1>7, <1>9 DEF CoresExact
  <2>2. Handling' = Handling
    BY <1>1, <1>19 DEF Handling
  <2>3. Busy' \cap Handling' = {}
    BY <1>11, <2>2 DEF CoresExact
  <2>4. 0 \notin WorkersOf(t)
    BY <1>10, Consts
  <2>5. thread_pool' = {0} \cup Busy'
    BY <1>5, <1>11, <2>4 DEF CoresExact
  <2>6. Cardinality(Busy') = Cardinality(Busy) - Cardinality(WorkersOf(t))
    <3>1. Busy \cap WorkersOf(t) = WorkersOf(t)
      BY <1>11
    <3>2. Cardinality(Busy \ WorkersOf(t)) = Cardinality(Busy) - Cardinality(Busy \cap WorkersOf(t))
      BY BusyAre, FS_Difference
    <3> QED  BY <1>11, <3>1, <3>2
  <2>7. Cardinality(Handling) \in Nat
    <3>1. Handling \subseteq Cores
      BY Consts DEF Handling, HandlerCores
    <3> QED  BY <3>1, CoresFinite
  <2>8. idle_cores' + Cardinality(Busy') + Cardinality(Handling') = NumCores - 1
    <3>1. PICK x \in Nat : Cardinality(Busy) = x
      BY BusyAre
    <3>2. PICK y \in Nat : Cardinality(Handling) = y
      BY <2>7
    <3>3. PICK n \in Nat : team[t].nthreads = n /\ Cardinality(WorkersOf(t)) = n - 1
      BY <1>2, WorkersCount
    <3>4. idle_cores \in Int /\ idle_cores + x + y = NumCores - 1
      BY <3>1, <3>2 DEF CoresExact, Types
    <3>5. idle_cores' = idle_cores + (n - 1) /\ Cardinality(Busy') = x - (n - 1)
      BY <1>1, <2>6, <3>1, <3>3
    <3> QED  BY <2>2, <3>2, <3>4, <3>5, Consts
  <2> QED  BY <2>1, <2>3, <2>5, <2>8 DEF CoresExact
<1> QED  BY <1>6, <1>12, <1>13, <1>14, <1>16, <1>17, <1>20, <1>21, <1>22

\* A descriptor that is put back in front of the pool
LEMMA PoolPush ==
  ASSUME Types, PoolInv, NEW t \in Active, team_pool' = <<t>> \o team_pool
  PROVE  /\ PoolInv' /\ team_pool' \in Seq(Teams) /\ Head(team_pool') = t
         /\ Pooled' = Pooled \cup {t} /\ Active' = Active \ {t}
<1> DEFINE n == Len(team_pool)
<1>1. t \in Teams /\ t # Root /\ t \notin Pooled /\ team_pool \in Seq(Teams) /\ n \in Nat /\ n >= 1
  BY DEF Active, Types, PoolInv
<1>2. /\ team_pool' \in Seq(Teams) /\ Len(team_pool') = n + 1 /\ team_pool'[1] = t
      /\ Head(team_pool') = t
      /\ \A i \in 1 .. n : team_pool'[i + 1] = team_pool[i]
  BY <1>1
<1>3. \A i \in 2 .. n + 1 : team_pool'[i] = team_pool[i - 1] /\ i - 1 \in 1 .. n
  <2> TAKE i \in 2 .. n + 1
  <2>1. i - 1 \in 1 .. n /\ (i - 1) + 1 = i
    BY <1>1
  <2> QED  BY <1>2, <2>1
<1>4. \A i \in 1 .. n : team_pool[i] \in Pooled /\ team_pool[i] # t
  BY <1>1 DEF Pooled
<1>5. Pooled' = Pooled \cup {t}
  <2>1. ASSUME NEW x \in Pooled' PROVE x \in Pooled \cup {t}
    <3>1. PICK i \in 1 .. Len(team_pool') : x = team_pool'[i]
      BY <2>1 DEF Pooled
    <3>2. i = 1 \/ i \in 2 .. n + 1
      BY <1>1, <1>2, <3>1
    <3> QED  BY <1>2, <1>3, <1>4, <3>1, <3>2
  <2>2. ASSUME NEW x \in Pooled PROVE x \in Pooled'
    <3>1. PICK i \in 1 .. n : x = team_pool[i]
      BY <2>2 DEF Pooled
    <3>2. i + 1 \in 1 .. Len(team_pool') /\ x = team_pool'[i + 1]
      BY <1>1, <1>2, <3>1
    <3> QED  BY <3>2 DEF Pooled
  <2>3. t \in Pooled'
    <3>1. 1 \in 1 .. Len(team_pool')
      BY <1>1, <1>2
    <3> QED  BY <3>1, <1>2 DEF Pooled
  <2> QED  BY <2>1, <2>2, <2>3
<1>6. Active' = Active \ {t}
  BY <1>5 DEF Active
<1>7. PoolInv'
  <2>1. ASSUME NEW i \in 1 .. n + 1, NEW j \in 1 .. n + 1, team_pool'[i] = team_pool'[j]
        PROVE  i = j
    <3>1. i = 1 \/ i \in 2 .. n + 1
      BY <1>1
    <3>2. j = 1 \/ j \in 2 .. n + 1
      BY <1>1
    <3>3. CASE i \in 2 .. n + 1 /\ j \in 2 .. n + 1
      <4>1. i - 1 = j - 1
        BY <1>3, <2>1, <3>3 DEF PoolInv
      <4> QED  BY <4>1, <3>3
    <3>4. CASE i = 1 /\ j \in 2 .. n + 1
      BY <1>2, <1>3, <1>4, <2>1, <3>4
    <3>5. CASE j = 1 /\ i \in 2 .. n + 1
      BY <1>2, <1>3, <1>4, <2>1, <3>5
    <3> QED  BY <3>1, <3>2, <3>3, <3>4, <3>5
  <2>2. team_pool'[n + 1] = 0
    BY <1>1, <1>2 DEF PoolInv
  <2>3. Root \notin Pooled'
    BY <1>1, <1>5 DEF PoolInv
  <2> QED  BY <1>1, <1>2, <2>1, <2>2, <2>3 DEF PoolInv
<1> QED  BY <1>2, <1>5, <1>6, <1>7

\* gomp_team_end puts the descriptor back; after a region of level 1 the cores
\* the next hit will use have it in curr_team.
LEMMA TeamFreeInv ==
  ASSUME TInv, NEW p \in Cores, TeamFree(p)
  PROVE  TInv'
<1> USE DEF TInv
<1> DEFINE t == curr_team[p]
           u == team[t].parent
<1>1. /\ pc[p] = "free" /\ pc' = [pc EXCEPT ![p] = "body"]
      /\ curr_team' = [curr_team EXCEPT ![p] = u]
      /\ lru_team' = t
      /\ team_pool' = <<t>> \o team_pool
      /\ UNCHANGED <<thread_pool, idle_cores, team, arrived, event, job, handlers, offloads>>
  BY DEF TeamFree
<1>2. t \in Active /\ Master(t) = p /\ t \in Teams /\ u \in Teams
  BY <1>1, ActiveFacts, TeamTypes DEF CoreInv, AtCore, Mastered
<1>3. /\ pc'[p] = "body" /\ curr_team'[p] = u
      /\ \A q \in Cores \ {p} : pc'[q] = pc[q] /\ curr_team'[q] = curr_team[q]
  BY <1>1 DEF Types
<1>4. curr_team[p] = t /\ Owned(t)
  BY <1>2 DEF OwnInv
<1>5. Level(t) \in Nat /\ Level(u) \in Nat /\ Level(t) = Level(u) + 1 /\ u # t
  BY <1>2, <1>4, TeamTypes DEF Owned
<1>6. u = job[p] \/ (u \in Active /\ Master(u) = p)
  BY <1>2, <1>4 DEF Owned
<1>7. /\ PoolInv' /\ team_pool' \in Seq(Teams) /\ Head(team_pool') = t
      /\ Pooled' = Pooled \cup {t} /\ Active' = Active \ {t}
  BY <1>1, <1>2, PoolPush
<1> HIDE DEF t, u
<1>8. Types'
  <2>1. pc' \in [Cores -> {"mailbox", "docked", "body", "handling", "master_wait",
                           "slave_wait", "end", "free", "exit"}]
    BY <1>1 DEF Types
  <2>2. curr_team' \in [Cores -> Teams \cup {Handler, Exit}]
    BY <1>1, <1>2 DEF Types
  <2> QED  BY <1>1, <1>2, <1>7, <2>1, <2>2 DEF Types
<1>9. \A s : WorkersOf(s)' = WorkersOf(s) /\ Master(s)' = Master(s) /\ Level(s)' = Level(s)
  BY <1>1 DEF WorkersOf, Master, Level
<1>10. t \in Ending /\ Ending' = Ending \ {t}
  <2>1. \A q \in Cores : pc'[q] = "free" <=> q # p /\ pc[q] = "free"
    BY <1>3
  <2>2. \A q \in Cores : pc[q] = "free" /\ curr_team[q] = t => q = p
    BY <1>2 DEF CoreInv, AtCore, Mastered
  <2>3. \A q \in Cores : q # p => curr_team'[q] = curr_team[q]
    BY <1>3
  <2> QED  BY <2>1, <2>2, <2>3, <1>1, <1>4 DEF Ending
<1>11. Running' = Running /\ t \notin Running
  BY <1>7, <1>10 DEF Running
<1>12. Busy' = Busy
  BY <1>9, <1>11 DEF Busy
<1>13. OwnInv'
  <2>1. ASSUME NEW s \in Active, s # t PROVE Owned(s)'
    <3>1. Owned(s) /\ Master(s) \in Cores /\ s \in Teams /\ Level(s) \in Nat
      BY ActiveFacts, TeamTypes DEF OwnInv
    <3>2. pc'[Master(s)] \in Execs
      BY <3>1, <1>3 DEF Owned, Execs
    <3>3. Level(s) <= Level(curr_team'[Master(s)])
      <4>1. CASE Master(s) = p
        <5>1. Level(s) <= Level(t) /\ Level(s) # Level(t)
          BY <4>1, <2>1, <3>1, <1>2, <1>4 DEF Owned, OwnInv
        <5> QED  BY <5>1, <4>1, <3>1, <1>3, <1>5
      <4>2. CASE Master(s) # p
        BY <4>2, <3>1, <1>3 DEF Owned
      <4> QED  BY <4>1, <4>2
    <3>4. ASSUME team[s].parent \in Active, Master(team[s].parent) = Master(s)
          PROVE  team[s].parent # t
      <4>1. SUFFICES ASSUME team[s].parent = t PROVE FALSE
        OBVIOUS
      <4>2. Master(s) = p /\ Level(s) = Level(t) + 1
        BY <4>1, <3>1, <3>4, <1>2 DEF Owned
      <4>3. Level(s) <= Level(t)
        BY <4>2, <3>1, <1>4 DEF Owned
      <4> QED  BY <4>2, <4>3, <1>5
    <3> QED  BY <3>1, <3>2, <3>3, <3>4, <1>1, <1>7, <1>9 DEF Owned, Level, Master
  <2> QED  BY <1>7, <1>9, <2>1 DEF OwnInv
<1>14. CoreInv'
  <2>1. ASSUME NEW q \in Cores PROVE AtCore(q)'
    <3>1. AtCore(q)
      BY DEF CoreInv
    <3>2. CASE q = p
      <4>1. curr_team'[p] = job'[p] \/ Mastered(p)'
        BY <1>1, <1>3, <1>5, <1>6, <1>7, <1>9 DEF Mastered
      <4>2. pc[p] \in Tasks
        BY <1>1 DEF Tasks, Execs
      <4> QED  BY <3>1, <3>2, <4>1, <4>2, <1>1, <1>3, <1>9, <1>11 DEF AtCore
    <3>3. CASE q # p
      <4>1. Mastered(q) => Mastered(q)'
        BY <3>3, <1>2, <1>3, <1>7, <1>9 DEF Mastered
      <4> QED  BY <3>1, <3>3, <4>1, <1>1, <1>3, <1>9, <1>11 DEF AtCore
    <3> QED  BY <3>2, <3>3
  <2>2. pc'[0] \in {"mailbox", "exit"} \cup Execs
    BY <1>3, Consts DEF CoreInv, Execs
  <2>3. pc'[0] \in {"mailbox", "exit"} =>
          pc[0] \in {"mailbox", "exit"} /\ curr_team'[0] = curr_team[0]
    BY <1>3, Consts
  <2> QED  BY <1>1, <2>1, <2>2, <2>3 DEF CoreInv
<1>15. \A s \in Running : Over(s)' <=> Over(s)
  <2> TAKE s \in Running
  <2>1. Master(s) \in Cores
    BY ActiveFacts, TeamTypes
  <2>2. CASE Master(s) = p
    BY <2>2, <1>1, <1>3, <1>9 DEF Over
  <2>3. CASE Master(s) # p
    BY <2>1, <2>3, <1>3, <1>9 DEF Over
  <2> QED  BY <2>2, <2>3
<1>16. MembInv'
  <2>1. ASSUME NEW s \in Running, NEW q \in WorkersOf(s) PROVE Member(s, q)'
    <3>1. Member(s, q) /\ q \in Cores
      BY ActiveFacts, TeamTypes DEF MembInv
    <3>2. CASE q = p
      BY <3>1, <3>2, <1>1, <1>3, <1>15 DEF Member, Tasks, Execs
    <3>3. CASE q # p
      BY <3>1, <3>3, <1>1, <1>3, <1>15 DEF Member
    <3> QED  BY <3>2, <3>3
  <2> QED  BY <1>9, <1>11, <2>1 DEF MembInv
<1>17. BarInv'
  <2>1. ASSUME NEW s \in Teams, NEW q \in arrived[s] PROVE Waits(s, q)'
    <3>1. Waits(s, q) /\ q \in Cores
      BY DEF BarInv, Types
    <3>2. q # p
      BY <3>1, <1>1 DEF Waits
    <3> QED  BY <3>1, <3>2, <1>1, <1>3, <1>9, <1>11 DEF Waits
  <2>2. \A q \in Cores :
           /\ pc'[q] = "slave_wait" => pc[q] = "slave_wait"
           /\ pc'[q] = "master_wait" => pc[q] = "master_wait" /\ curr_team'[q] = curr_team[q]
    BY <1>3
  <2> QED  BY <1>1, <2>1, <2>2 DEF BarInv
<1>18. HC' = HC
  BY <1>1 DEF HC
<1>19. pc[0] # "exit" /\ pc'[0] # "exit" /\ pc[0] # "mailbox" /\ pc'[0] # "mailbox"
  <2>1. pc[0] # "exit" /\ pc[0] # "mailbox"
    BY <1>2, NoneActive DEF CoreInv
  <2> QED  BY <2>1, <1>3, Consts
<1>20. RestInv'
  <2>1. ASSUME NEW q \in Workers, Handles(q) \/ Docked(q) PROVE q # p
    BY <2>1, <1>1 DEF Handles, Docked
  <2>2. ASSUME NEW q \in Workers, q # p
        PROVE  /\ (Handles(q)' <=> Handles(q)) /\ (Docked(q)' <=> Docked(q))
               /\ curr_team'[q] = curr_team[q]
    BY <2>2, <1>1, <1>3, Consts DEF Handles, Docked
  <2> QED  BY <1>1, <1>12, <1>18, <1>19, <2>1, <2>2 DEF RestInv
<1>21. LruInv'
  <2>1. \A s \in Active' : Level(s)' = 1 => team'[s].cores = First(team'[s].nthreads)
    BY <1>1, <1>7, <1>9 DEF LruInv
  <2>2. ASSUME Active' = {}
        PROVE  /\ Master(t) = 0
               /\ \A q \in Workers \ HC : q < team[t].nthreads => curr_team'[q] = t
    <3>1. Active = {t} /\ u = job[p]
      BY <2>2, <1>2, <1>5, <1>6, <1>7
    <3>2. p = 0
      <4>1. pc[p] \in Tasks
        BY <1>1 DEF Tasks, Execs
      <4>2. p # 0 => job[p] \in Running /\ Running \subseteq Active
        BY <4>1, TaskOf, ActiveFacts
      <4> QED  BY <4>2, <3>1, <1>11
    <3>3. Level(t) = 1
      BY <3>1, <3>2, <1>5 DEF CoreInv, OwnInv
    <3>4. \A q \in WorkersOf(t) : curr_team[q] = t
      BY <3>2, <3>3, <1>1, <1>4 DEF LruInv
    <3>5. team[t].cores = First(team[t].nthreads)
      BY <3>3, <1>2 DEF LruInv
    <3> SUFFICES ASSUME NEW q \in Workers \ HC, q < team[t].nthreads PROVE curr_team'[q] = t
      BY <1>2, <3>2
    <3>6. q \in WorkersOf(t) /\ q # p /\ q \in Cores
      BY <3>2, <3>5, <1>2, Consts DEF WorkersOf, Master, First
    <3> QED  BY <3>4, <3>6, <1>3
  <2>3. ASSUME pc'[0] = "free", Level(curr_team'[0]) = 1 PROVE FALSE
    <3>1. p # 0 /\ pc[0] = "free" /\ curr_team'[0] = curr_team[0]
      BY <2>3, <1>3, Consts
    <3>2. curr_team[0] \in Active /\ Master(curr_team[0]) = 0
      BY <3>1, Consts DEF CoreInv, AtCore, Mastered
    <3>3. Active = {curr_team[0]}
      BY <2>3, <3>1, <3>2, OnlyTop
    <3> QED  BY <3>1, <3>2, <3>3, <1>2
  <2>4. Level(curr_team[0])' = Level(curr_team'[0])
    BY <1>1 DEF Level
  <2>5. Master(lru_team)' = Master(t)
    BY <1>1 DEF Master
  <2> QED  BY <1>1, <1>7, <1>18, <2>1, <2>2, <2>3, <2>4, <2>5 DEF LruInv
<1>22. CoresExact'
  <2>1. Handling' = Handling
    BY <1>1, <1>19 DEF Handling
  <2> QED  BY <2>1, <1>1, <1>9, <1>11, <1>12 DEF CoresExact
<1> QED  BY <1>7, <1>8, <1>13, <1>14, <1>16, <1>17, <1>20, <1>21, <1>22

-----------------------------------------------------------------------------
(* The start of a region *)

\* A descriptor that is taken from the pool
LEMMA PoolPop ==
  ASSUME Types, PoolInv, Len(team_pool) >= 2, team_pool' = Tail(team_pool)
  PROVE  /\ PoolInv' /\ team_pool' \in Seq(Teams)
         /\ Head(team_pool) \in Teams /\ Head(team_pool) \notin Active
         /\ Head(team_pool) # Root /\ Active' = Active \cup {Head(team_pool)}
<1> DEFINE n == Len(team_pool)
           new == Head(team_pool)
<1>1. team_pool \in Seq(Teams) /\ n \in Nat /\ n >= 2
  BY DEF Types
<1>2. /\ team_pool' \in Seq(Teams) /\ Len(team_pool') = n - 1 /\ team_pool[1] = new /\ new \in Teams
      /\ \A i \in 1 .. n - 1 : team_pool'[i] = team_pool[i + 1] /\ i + 1 \in 1 .. n
  BY <1>1
<1>3. new \in Pooled
  <2>1. 1 \in 1 .. Len(team_pool)
    BY <1>1
  <2> QED  BY <2>1, <1>2 DEF Pooled
<1>4. Pooled' = Pooled \ {new}
  <2>1. ASSUME NEW x \in Pooled' PROVE x \in Pooled /\ x # new
    <3>1. PICK i \in 1 .. n - 1 : x = team_pool'[i]
      BY <2>1, <1>2 DEF Pooled
    <3>2. x = team_pool[i + 1] /\ i + 1 \in 1 .. n /\ i + 1 # 1 /\ 1 \in 1 .. n
      BY <1>1, <1>2, <3>1
    <3>3. x # team_pool[1]
      BY <3>2 DEF PoolInv
    <3> QED  BY <1>2, <3>2, <3>3 DEF Pooled
  <2>2. ASSUME NEW x \in Pooled, x # new PROVE x \in Pooled'
    <3>1. PICK i \in 1 .. n : x = team_pool[i]
      BY <2>2 DEF Pooled
    <3>2. i # 1
      BY <1>2, <2>2, <3>1
    <3>3. i - 1 \in 1 .. n - 1 /\ (i - 1) + 1 = i
      BY <1>1, <3>1, <3>2
    <3>4. team_pool'[i - 1] = x
      BY <1>2, <3>1, <3>3
    <3> QED  BY <1>2, <3>3, <3>4 DEF Pooled
  <2> QED  BY <2>1, <2>2
<1>5. new # Root /\ new \notin Active
  BY <1>3 DEF PoolInv, Active
<1>6. Active' = Active \cup {new}
  BY <1>2, <1>4, <1>5 DEF Active
<1>7. PoolInv'
  <2>1. ASSUME NEW i \in 1 .. n - 1, NEW j \in 1 .. n - 1, team_pool'[i] = team_pool'[j]
        PROVE  i = j
    <3>1. i + 1 = j + 1
      BY <1>2, <2>1 DEF PoolInv
    <3> QED  BY <3>1
  <2>2. team_pool'[n - 1] = 0
    <3>1. n - 1 \in 1 .. n - 1 /\ (n - 1) + 1 = n
      BY <1>1
    <3> QED  BY <3>1, <1>2 DEF PoolInv
  <2>3. Root \notin Pooled'
    BY <1>4 DEF PoolInv
  <2> QED  BY <1>1, <1>2, <2>1, <2>2, <2>3 DEF PoolInv
<1> QED  BY <1>2, <1>5, <1>6, <1>7

\* A core that runs a task, its own or one of its regions
LEMMA ExecFacts ==
  ASSUME TInv, NEW p \in Cores, pc[p] \in Execs
  PROVE  /\ job[p] \in Active \cup {Root} /\ curr_team[p] \in Active \cup {Root}
         /\ job[p] \in Teams /\ curr_team[p] \in Teams
         /\ curr_team[p] = job[p] \/ Mastered(p)
         /\ Level(job[p]) \in Nat /\ Level(curr_team[p]) \in Nat
         /\ Level(job[p]) <= Level(curr_team[p])
         /\ pc[0] \notin {"mailbox", "exit"}
         /\ p = 0 \/ p \in Busy
<1> USE DEF TInv
<1>1. p # 0 => job[p] \in Active /\ p \in Busy /\ Active # {}
  BY TaskOf DEF Tasks, Busy
<1>2. job[p] \in Active \cup {Root}
  BY <1>1 DEF CoreInv
<1>3. curr_team[p] = job[p] \/ Mastered(p)
  BY DEF CoreInv, AtCore, Execs
<1>4. curr_team[p] \in Active \cup {Root}
  BY <1>2, <1>3 DEF Mastered
<1>5. job[p] \in Teams /\ curr_team[p] \in Teams
  BY <1>2, <1>4, ActiveFacts, Consts
<1>6. Level(job[p]) \in Nat /\ Level(curr_team[p]) \in Nat
  BY <1>5, TeamTypes
<1>7. Level(job[p]) <= Level(curr_team[p])
  <2>1. CASE curr_team[p] = job[p]
    BY <2>1, <1>6
  <2>2. CASE Mastered(p)
    <3>1. Owned(curr_team[p]) /\ Master(curr_team[p]) = p
      BY <2>2 DEF OwnInv, Mastered
    <3> QED  BY <3>1, <1>6 DEF Owned
  <2> QED  BY <1>3, <2>1, <2>2
<1>8. pc[0] \notin {"mailbox", "exit"}
  <2>1. CASE p = 0
    BY <2>1 DEF Execs
  <2>2. CASE p # 0
    BY <2>2, <1>1, NoneActive DEF CoreInv
  <2> QED  BY <2>1, <2>2
<1> QED  BY <1>1, <1>2, <1>3, <1>4, <1>5, <1>6, <1>7, <1>8

\* The cores that are free and no miss handlers
Free == Workers \ (Busy \cup HC)

\* idle_cores counts them while an offload runs.
LEMMA IdleIsFree ==
  ASSUME TInv, pc[0] \notin {"mailbox", "exit"}
  PROVE  /\ IsFiniteSet(Free) /\ Cardinality(Free) = idle_cores /\ idle_cores \in Nat
         /\ idle_cores + handlers <= NumCores - 1
<1> USE DEF TInv
<1>1. HC \subseteq Workers /\ Cardinality(HC) = handlers /\ handlers \in Nat /\ Handling = HC
  BY HandlersCount, Consts DEF HC, Types, Handling
<1>2. IsFiniteSet(HC)
  BY <1>1, CoresFinite, Consts
<1>3. Busy \subseteq Workers /\ IsFiniteSet(Busy) /\ Cardinality(Busy) \in Nat
  BY BusyAre
<1>4. Busy \cap HC = {} /\ Cardinality({}) = 0
  BY FS_EmptySet DEF RestInv
<1> DEFINE U == Busy \cup HC
<1>5. Cardinality(U) = Cardinality(Busy) + handlers - 0
  BY <1>1, <1>2, <1>3, <1>4, FS_Union
<1>6. Workers \cap U = U
  BY <1>1, <1>3
<1>7. /\ IsFiniteSet(Workers \ U)
      /\ Cardinality(Workers \ U) = Cardinality(Workers) - Cardinality(Workers \cap U)
  BY CoresFinite, FS_Difference
<1>8. Free = Workers \ U
  BY DEF Free
<1>9. Cardinality(Free) \in Nat
  BY <1>7, <1>8, FS_CardinalityType
<1> HIDE DEF U
<1>10. PICK x \in Nat : Cardinality(Busy) = x
  BY <1>3
<1>11. Cardinality(Free) = (NumCores - 1) - (x + handlers)
  <2>1. Cardinality(U) = x + handlers
    BY <1>1, <1>5, <1>10
  <2>2. Cardinality(Free) = Cardinality(Workers) - Cardinality(U)
    BY <1>6, <1>7, <1>8
  <2> QED  BY <2>1, <2>2, CoresFinite
<1>12. idle_cores \in Int /\ idle_cores + x + handlers = NumCores - 1
  BY <1>1, <1>10 DEF CoresExact, Types
<1>13. Cardinality(Free) = idle_cores
  BY <1>1, <1>11, <1>12, Consts
<1>14. idle_cores \in Nat
  BY <1>9, <1>13
<1>15. idle_cores + handlers <= NumCores - 1
  BY <1>1, <1>12, <1>14, Consts
<1> QED  BY <1>7, <1>8, <1>13, <1>14, <1>15

\* Core p starts a region of n threads with descriptor new and workers W.
StartsWith(p, W, n, new) ==
  /\ pc[p] = "body" /\ new = Head(team_pool) /\ Len(team_pool) >= 2
  /\ W \subseteq Free /\ p \notin W /\ n \in Nat /\ Cardinality(W) = n - 1
  /\ Level(curr_team[p]) = 0 => {p} \cup W = First(n)
  /\ team_pool' = Tail(team_pool)
  /\ team' = [team EXCEPT ![new] = [level |-> Level(curr_team[p]) + 1, parent |-> curr_team[p],
                                    nthreads |-> n, cores |-> {p} \cup W, proc0 |-> p]]
  /\ curr_team' = [q \in Cores |-> IF q = p \/ q \in W THEN new ELSE curr_team[q]]
  /\ thread_pool' = thread_pool \cup W
  /\ idle_cores' = idle_cores - (n - 1)
  /\ event' = event \cup W
  /\ UNCHANGED <<lru_team, arrived, pc, job, handlers, offloads>>

\* A core at level 0 is core 0, and there is no region.
LEMMA LevelZero ==
  ASSUME TInv, NEW p \in Cores, pc[p] \in Execs, Level(curr_team[p]) = 0
  PROVE  /\ p = 0 /\ curr_team[0] = Root /\ Active = {} /\ Busy = {}
<1> USE DEF TInv
<1>1. ASSUME NEW t \in Active PROVE Level(t) > 0
  <2>1. t \in Teams /\ Level(t) \in Nat /\ Level(team[t].parent) \in Nat
    BY ActiveFacts, TeamTypes
  <2>2. Level(t) = Level(team[t].parent) + 1
    BY DEF OwnInv, Owned
  <2> QED  BY <2>1, <2>2
<1>2. curr_team[p] = Root
  BY <1>1, ExecFacts
<1>3. p = 0
  <2>1. curr_team[p] = job[p]
    BY <1>2, ExecFacts, ActiveFacts DEF Mastered
  <2>2. p # 0 => job[p] \in Active
    BY TaskOf DEF Tasks
  <2> QED  BY <1>2, <2>1, <2>2, ActiveFacts
<1> QED  BY <1>2, <1>3, NoneActive

\* The number of threads: those asked for, at most the free ones and the master
LEMMA ThreadsBound ==
  ASSUME NEW s \in Specified, idle_cores \in Nat
  PROVE  NumThreads(s) \in 1 .. idle_cores + 1
BY ChoiceAssumption DEF NumThreads

\* On a miss: the cores the scan finds are free and no miss handlers.
LEMMA PickedFree ==
  ASSUME TInv, NEW p \in Cores, pc[p] = "body", NEW n \in 1 .. idle_cores + 1
  PROVE  /\ Picked(n) \subseteq Free /\ p \notin Picked(n) /\ Cardinality(Picked(n)) = n - 1
         /\ Level(curr_team[p]) = 0 => {p} \cup Picked(n) = First(n)
<1> USE DEF TInv
<1> DEFINE S == Workers \ thread_pool
<1>1. pc[p] \in Execs /\ pc[0] \notin {"mailbox", "exit"} /\ (p = 0 \/ p \in Busy)
  BY ExecFacts DEF Execs
<1>2. /\ IsFiniteSet(Free) /\ Cardinality(Free) = idle_cores /\ idle_cores \in Nat
      /\ idle_cores + handlers <= NumCores - 1
  BY <1>1, IdleIsFree
<1>3. n - 1 \in Nat /\ n \in Nat /\ n - 1 <= idle_cores
  BY <1>2
<1>4. S = Workers \ Busy /\ Free \subseteq S /\ S \subseteq Nat /\ IsFiniteSet(S)
  <2>1. S = Workers \ Busy
    BY Consts DEF CoresExact
  <2>2. IsFiniteSet(S) /\ S \subseteq Nat
    BY <2>1, CoresFinite, Consts
  <2> QED  BY <2>1, <2>2 DEF Free
<1>5. Picked(n) = Lowest(S, n - 1)
  BY DEF Picked
<1> HIDE DEF S
<1>6. n - 1 <= Cardinality(S)
  <2>1. Cardinality(Free) <= Cardinality(S) /\ Cardinality(S) \in Nat
    BY <1>4, FS_Subset, FS_CardinalityType
  <2>2. PICK x \in Nat : Cardinality(S) = x
    BY <2>1
  <2> QED  BY <2>1, <2>2, <1>2, <1>3
<1>7. Cardinality(Picked(n)) = n - 1
  BY <1>3, <1>4, <1>5, <1>6, LowestCount
<1>8. \A x \in S \cap HC : x \notin Picked(n)
  <2> TAKE x \in S \cap HC
  <2>1. \A y \in Free : y < x
    <3>1. handlers \in 0 .. NumCores - 1
      BY DEF Types
    <3> QED  BY <3>1, Consts DEF Free, HC, HandlerCores, Workers
  <2>2. n - 1 <= Cardinality(Free)
    BY <1>2, <1>3
  <2> QED  BY <2>1, <2>2, <1>3, <1>4, <1>5, LowestAvoids
<1>9. Picked(n) \subseteq S
  BY <1>5 DEF Lowest
<1>10. Picked(n) \subseteq Free
  BY <1>4, <1>8, <1>9 DEF Free
<1>11. p \notin Picked(n)
  BY <1>1, <1>4, <1>9, Consts
<1>12. ASSUME Level(curr_team[p]) = 0 PROVE {p} \cup Picked(n) = First(n)
  <2>1. p = 0 /\ Busy = {}
    BY <1>1, <1>12, LevelZero
  <2>2. S = Workers
    BY <1>4, <2>1
  <2>3. n - 1 \in 0 .. NumCores - 1 /\ (n - 1) + 1 = n
    <3>1. handlers \in Nat
      BY Consts DEF Types
    <3> QED  BY <1>2, <1>3, <3>1, Consts
  <2>4. {0} \cup Lowest(Workers, n - 1) = First((n - 1) + 1)
    BY <2>3, LowestOfAll
  <2> QED  BY <1>5, <2>1, <2>2, <2>3, <2>4
<1> QED  BY <1>7, <1>10, <1>11, <1>12

\* On a hit: the first cores are free and already have the region in curr_team.
LEMMA HitFree ==
  ASSUME TInv, NEW p \in Cores, pc[p] = "body", NEW n \in 1 .. idle_cores + 1,
         LruHit(Head(team_pool), Level(curr_team[p]) + 1, n)
  PROVE  /\ p = 0 /\ Master(Head(team_pool)) = 0
         /\ First(n) \ {0} \subseteq Free /\ Cardinality(First(n) \ {0}) = n - 1
         /\ {0} \cup (First(n) \ {0}) = First(n)
         /\ \A q \in First(n) \ {0} : curr_team[q] = Head(team_pool)
         /\ 0 \in thread_pool
<1> USE DEF TInv
<1>1. pc[p] \in Execs /\ pc[0] \notin {"mailbox", "exit"} /\ Level(curr_team[p]) \in Nat
  BY ExecFacts DEF Execs
<1>2. Level(curr_team[p]) = 0
  BY <1>1 DEF LruHit
<1>3. p = 0 /\ Active = {} /\ Busy = {}
  BY <1>1, <1>2, LevelZero
<1>4. /\ IsFiniteSet(Free) /\ Cardinality(Free) = idle_cores /\ idle_cores \in Nat
      /\ idle_cores + handlers <= NumCores - 1
  BY <1>1, IdleIsFree
<1>5. handlers \in Nat /\ n \in Nat /\ n >= 1 /\ n <= NumCores - handlers /\ n \in 1 .. NumCores
  <2>1. handlers \in Nat
    BY Consts DEF Types
  <2> QED  BY <1>4, <2>1, Consts
<1>6. First(n) \ {0} \subseteq Free
  <2>1. \A q \in Workers : q < n => q \notin HC
    BY <1>5, Consts DEF HC, HandlerCores, Workers
  <2> QED  BY <1>3, <2>1, Consts DEF First, Free
<1>7. Cardinality(First(n)) = n /\ First(n) \subseteq Cores /\ 0 \in First(n)
  BY <1>5, FirstCount
<1>8. Cardinality(First(n) \ {0}) = n - 1
  BY <1>7, CoresFinite, FS_RemoveElement
<1>9. /\ lru_team = Head(team_pool) /\ Master(lru_team) = 0
      /\ \A q \in Workers \ HC : q < team[lru_team].nthreads => curr_team[q] = lru_team
  BY <1>1, <1>3 DEF LruInv
<1>10. ASSUME NEW q \in First(n) \ {0} PROVE curr_team[q] = Head(team_pool)
  <2>1. q \in Workers \ HC /\ q < n /\ q \in Nat
    BY <1>6, Consts DEF First, Free
  <2>2. n <= team[lru_team].nthreads /\ team[lru_team].nthreads \in Nat
    BY <1>9, TeamTypes DEF LruHit, Types
  <2>3. q < team[lru_team].nthreads
    BY <2>1, <2>2, <1>5
  <2> QED  BY <1>9, <2>1, <2>3
<1> QED  BY <1>3, <1>6, <1>7, <1>8, <1>9, <1>10 DEF CoresExact

\* gomp_team_start, hit or miss, takes free cores and leaves the new region in
\* curr_team of all of them.
LEMMA TeamStartEffect ==
  ASSUME TInv, Steady, NEW p \in Cores, NEW specified \in Specified, TeamStart(p, specified)
  PROVE  \E W \in SUBSET Cores, n \in Nat : StartsWith(p, W, n, Head(team_pool))
<1> USE DEF TInv
<1> DEFINE new == Head(team_pool)
           n   == NumThreads(specified)
           hit == LruHit(new, Level(curr_team[p]) + 1, n)
<1>1. pc[p] = "body" /\ pc[p] \in Execs /\ pc[0] \notin {"mailbox", "exit"}
  BY ExecFacts DEF Execs, TeamStart
<1>2. idle_cores \in Nat
  BY <1>1, IdleIsFree
<1>3. n \in 1 .. idle_cores + 1 /\ n \in Nat
  BY <1>2, ThreadsBound
<1>4. Len(team_pool) >= 2
  <2>1. Len(team_pool) \in Nat /\ Len(team_pool) > NumTeams - MaxTeams
    BY DEF TeamStart, Types
  <2> QED  BY <2>1, Consts DEF Steady
<1>5. UNCHANGED <<lru_team, arrived, pc, job, handlers, offloads>>
      /\ team_pool' = Tail(team_pool)
      /\ idle_cores' = idle_cores - (n - 1)
  BY DEF TeamStart
<1>6. CASE ~hit
  <2>1. /\ Picked(n) \subseteq Free /\ p \notin Picked(n) /\ Cardinality(Picked(n)) = n - 1
        /\ Level(curr_team[p]) = 0 => {p} \cup Picked(n) = First(n)
    BY <1>1, <1>3, PickedFree
  <2>2. /\ team' = [team EXCEPT ![new] = [level |-> Level(curr_team[p]) + 1,
                        parent |-> curr_team[p], nthreads |-> n,
                        cores |-> {p} \cup Picked(n), proc0 |-> p]]
        /\ thread_pool' = thread_pool \cup Picked(n)
        /\ curr_team' = [q \in Cores |-> IF q = p \/ q \in {p} \cup Picked(n) THEN new
                                         ELSE curr_team[q]]
        /\ event' = event \cup (({p} \cup Picked(n)) \ {p})
    BY <1>6 DEF TeamStart, Level
  <2> HIDE DEF n, new, hit
  <2>3. curr_team' = [q \in Cores |-> IF q = p \/ q \in Picked(n) THEN new ELSE curr_team[q]]
    BY <2>2
  <2>4. event' = event \cup Picked(n)
    BY <2>1, <2>2
  <2>5. StartsWith(p, Picked(n), n, new)
    BY <1>1, <1>3, <1>4, <1>5, <2>1, <2>2, <2>3, <2>4 DEF StartsWith, new
  <2>6. Picked(n) \in SUBSET Cores
    BY <2>1, Consts DEF Free
  <2> QED  BY <1>3, <2>5, <2>6 DEF new
<1>7. CASE hit
  <2> DEFINE W == First(n) \ {0}
  <2>1. /\ p = 0 /\ Master(new) = 0
        /\ W \subseteq Free /\ Cardinality(W) = n - 1
        /\ {0} \cup W = First(n)
        /\ \A q \in W : curr_team[q] = new
        /\ 0 \in thread_pool
    BY <1>1, <1>3, <1>7, HitFree
  <2>2. /\ team' = [team EXCEPT ![new] = [level |-> Level(curr_team[p]) + 1,
                        parent |-> curr_team[p], nthreads |-> n,
                        cores |-> First(n), proc0 |-> Master(new)]]
        /\ thread_pool' = thread_pool \cup First(n)
        /\ curr_team' = [q \in Cores |-> IF q = p THEN new ELSE curr_team[q]]
        /\ event' = event \cup (First(n) \ {Master(new)})
    BY <1>7 DEF TeamStart, Level, Master
  <2> HIDE DEF n, new, hit
  <2>3. curr_team' = [q \in Cores |-> IF q = p \/ q \in W THEN new ELSE curr_team[q]]
    BY <2>1, <2>2
  <2>4. event' = event \cup W /\ p \notin W /\ {p} \cup W = First(n)
        /\ thread_pool' = thread_pool \cup W
    BY <2>1, <2>2
  <2> HIDE DEF W
  <2>5. StartsWith(p, W, n, new)
    BY <1>1, <1>3, <1>4, <1>5, <2>1, <2>2, <2>3, <2>4 DEF StartsWith, new
  <2>6. W \in SUBSET Cores
    BY <2>1, Consts DEF Free
  <2> QED  BY <1>3, <2>5, <2>6 DEF new
<1> QED  BY <1>6, <1>7

\* Such a start preserves the invariant.
LEMMA StartsInv ==
  ASSUME TInv, NEW p \in Cores, NEW W \in SUBSET Cores, NEW n \in Nat, NEW new,
         StartsWith(p, W, n, new)
  PROVE  TInv'
<1> USE DEF TInv
<1> DEFINE rec == [level |-> Level(curr_team[p]) + 1, parent |-> curr_team[p],
                   nthreads |-> n, cores |-> {p} \cup W, proc0 |-> p]
<1>1. /\ pc[p] = "body" /\ new = Head(team_pool) /\ Len(team_pool) >= 2
      /\ W \subseteq Free /\ p \notin W /\ Cardinality(W) = n - 1
      /\ Level(curr_team[p]) = 0 => {p} \cup W = First(n)
      /\ team_pool' = Tail(team_pool)
      /\ team' = [team EXCEPT ![new] = rec]
      /\ curr_team' = [q \in Cores |-> IF q = p \/ q \in W THEN new ELSE curr_team[q]]
      /\ thread_pool' = thread_pool \cup W
      /\ idle_cores' = idle_cores - (n - 1)
      /\ event' = event \cup W
      /\ UNCHANGED <<lru_team, arrived, pc, job, handlers, offloads>>
  BY DEF StartsWith
<1>2. /\ PoolInv' /\ team_pool' \in Seq(Teams) /\ new \in Teams /\ new \notin Active
      /\ new # Root /\ Active' = Active \cup {new}
  BY <1>1, PoolPop
<1>3. /\ job[p] \in Active \cup {Root} /\ curr_team[p] \in Active \cup {Root}
      /\ job[p] \in Teams /\ curr_team[p] \in Teams
      /\ curr_team[p] = job[p] \/ Mastered(p)
      /\ Level(job[p]) \in Nat /\ Level(curr_team[p]) \in Nat
      /\ Level(job[p]) <= Level(curr_team[p])
      /\ pc[0] \notin {"mailbox", "exit"}
      /\ p = 0 \/ p \in Busy
      /\ pc[p] \in Execs
  BY <1>1, ExecFacts DEF Execs
<1>4. W \subseteq Workers /\ W \cap Busy = {} /\ W \cap HC = {}
  BY <1>1 DEF Free
<1>5. \A q \in W : Docked(q) /\ pc[q] = "docked"
  BY <1>3, <1>4 DEF RestInv, Docked
<1>6. /\ curr_team'[p] = new
      /\ \A q \in W : curr_team'[q] = new
      /\ \A q \in Cores : q # p /\ q \notin W => curr_team'[q] = curr_team[q]
  BY <1>1
<1>7. /\ Level(new)' = Level(curr_team[p]) + 1 /\ Master(new)' = p /\ WorkersOf(new)' = W
      /\ team'[new].parent = curr_team[p] /\ team'[new].nthreads = n
      /\ team'[new].cores = {p} \cup W
  <2>1. team'[new] = rec
    BY <1>1, <1>2 DEF Types
  <2> QED  BY <2>1, <1>1 DEF Level, Master, WorkersOf
<1>8. \A t \in Teams : t # new => /\ team'[t] = team[t] /\ Level(t)' = Level(t)
                                  /\ Master(t)' = Master(t) /\ WorkersOf(t)' = WorkersOf(t)
  <2>1. \A t \in Teams : t # new => team'[t] = team[t]
    BY <1>1 DEF Types
  <2> QED  BY <2>1 DEF Level, Master, WorkersOf
<1>9. Types'
  <2>1. team' \in [Teams -> [level : Nat, parent : Teams, nthreads : Nat,
                             cores : SUBSET Cores, proc0 : Cores]]
    <3>1. rec \in [level : Nat, parent : Teams, nthreads : Nat, cores : SUBSET Cores, proc0 : Cores]
      BY <1>3
    <3> HIDE DEF rec
    <3> QED  BY <1>1, <3>1 DEF Types
  <2>2. curr_team' \in [Cores -> Teams \cup {Handler, Exit}]
    BY <1>1, <1>2 DEF Types
  <2>3. thread_pool' \subseteq Cores /\ idle_cores' \in Int /\ event' \subseteq Workers
    BY <1>1, <1>4 DEF Types
  <2> QED  BY <1>1, <1>2, <2>1, <2>2, <2>3 DEF Types
<1> HIDE DEF rec
<1>10. Active \subseteq Teams /\ Ending \subseteq Active /\ Running = Active \ Ending
       /\ \A t \in Active : t # new
  BY <1>2, ActiveFacts
<1>11. Ending' = Ending
  <2>1. \A q \in Cores : pc[q] = "free" => curr_team'[q] = curr_team[q]
    BY <1>1, <1>5, <1>6
  <2>2. pc' = pc
    BY <1>1
  <2> QED  BY <2>1, <2>2 DEF Ending
<1>12. Running' = Running \cup {new} /\ new \notin Running
  <2>1. Running' = Active' \ Ending'
    BY DEF Running, Active
  <2> QED  BY <2>1, <1>2, <1>10, <1>11
<1>13. Busy' = Busy \cup W
  <2>1. \A t \in Running : WorkersOf(t)' = WorkersOf(t)
    BY <1>8, <1>10
  <2> QED  BY <2>1, <1>7, <1>12 DEF Busy
\* The cores that run a task are not among the new workers.
<1>14. ASSUME NEW q \in Cores, pc[q] \in Tasks PROVE q \notin W
  BY <1>5, <1>14 DEF Tasks, Execs
<1>15. ASSUME NEW t \in Active, NEW m, m = Master(t)
       PROVE  /\ m \in Cores /\ pc[m] \in Execs /\ m \notin W
              /\ job[m] \in Teams /\ job[m] # new /\ curr_team[m] \in Teams /\ curr_team[m] # new
              /\ team[t].parent \in Teams /\ team[t].parent # new
              /\ Level(t) \in Nat /\ t \in Teams /\ t # new
  <2>1. Owned(t) /\ m \in Cores /\ t \in Teams /\ Level(t) \in Nat
    BY <1>15, ActiveFacts, TeamTypes DEF OwnInv
  <2>2. pc[m] \in Execs
    BY <1>15, <2>1 DEF Owned
  <2>3. job[m] \in Active \cup {Root} /\ curr_team[m] \in Active \cup {Root}
    BY <2>1, <2>2, ExecFacts
  <2>4. team[t].parent \in Active \cup {Root}
    BY <1>15, <2>1, <2>3 DEF Owned
  <2> QED  BY <1>2, <1>10, <1>14, <2>1, <2>2, <2>3, <2>4, Consts DEF Tasks
<1>16. ASSUME NEW t \in Active, Master(t) = p PROVE Level(t) <= Level(curr_team[p])
  BY <1>16 DEF OwnInv, Owned
<1>17. OwnInv'
  <2>1. Level(Root)' = 0
    BY <1>2, <1>8, Consts DEF OwnInv
  <2>2. ASSUME NEW t \in Active PROVE Owned(t)'
    <3>1. PICK m : m = Master(t)
      OBVIOUS
    <3>2. /\ m \in Cores /\ pc[m] \in Execs /\ m \notin W
          /\ job[m] \in Teams /\ job[m] # new /\ curr_team[m] \in Teams /\ curr_team[m] # new
          /\ team[t].parent \in Teams /\ team[t].parent # new
          /\ Level(t) \in Nat /\ t \in Teams /\ t # new
      BY <1>15, <3>1
    <3>3. Owned(t) /\ Master(t)' = m /\ Level(t)' = Level(t) /\ team'[t] = team[t]
          /\ pc' = pc /\ job' = job
      BY <1>1, <1>8, <3>1, <3>2 DEF OwnInv
    <3>4. Level(job[m])' = Level(job[m]) /\ Level(team[t].parent)' = Level(team[t].parent)
          /\ Master(team[t].parent)' = Master(team[t].parent)
      <4>1. PICK j \in Teams : j = job[m]
        BY <3>2
      <4>2. PICK u \in Teams : u = team[t].parent
        BY <3>2
      <4>3. Level(j)' = Level(j) /\ Level(u)' = Level(u) /\ Master(u)' = Master(u)
        BY <1>8, <3>2, <4>1, <4>2
      <4>4. team'[j] = team[j] /\ team'[u] = team[u]
        BY <1>8, <3>2, <4>1, <4>2
      <4> QED  BY <3>3, <4>1, <4>2, <4>4 DEF Level, Master
    <3>5. Level(t) <= Level(curr_team[m])'
      <4>1. CASE m = p
        <5>1. Level(t) <= Level(curr_team[p])
          BY <1>16, <3>1, <4>1
        <5>2. Level(curr_team[p])' = Level(curr_team[p]) + 1
          BY <1>6, <1>7 DEF Level
        <5> QED  BY <5>1, <5>2, <4>1, <3>2, <1>3
      <4>2. CASE m # p
        <5>1. curr_team'[m] = curr_team[m] /\ team'[curr_team[m]] = team[curr_team[m]]
          BY <4>2, <1>6, <1>8, <3>2
        <5>2. Level(curr_team[m])' = Level(curr_team[m])
          BY <5>1 DEF Level
        <5> QED  BY <5>2, <3>1, <3>3 DEF Owned
      <4> QED  BY <4>1, <4>2
    <3>6. Level(t) > Level(job[m]) /\ Level(t) = Level(team[t].parent) + 1
          /\ (team[t].parent = job[m] \/ (team[t].parent \in Active /\ Master(team[t].parent) = m))
          /\ m \in team[t].cores /\ team[t].nthreads = Cardinality(team[t].cores)
      BY <3>1, <3>3 DEF Owned
    <3>7. /\ Level(job[Master(t)])' = Level(job[m])
          /\ Level(curr_team[Master(t)])' = Level(curr_team[m])'
          /\ Level(team[t].parent)' = Level(team[t].parent)
      BY <3>3, <3>4 DEF Level
    <3>8. job'[Master(t)'] = job[m] /\ pc'[Master(t)'] = pc[m] /\ team'[t].parent = team[t].parent
      BY <3>3
    <3> QED  BY <1>2, <3>2, <3>3, <3>4, <3>5, <3>6, <3>7, <3>8 DEF Owned
  <2>3. Owned(new)'
    <3>1. team'[new].nthreads = Cardinality(team'[new].cores)
      <4>1. Cardinality(W \cup {p}) = Cardinality(W) + 1
        BY <1>1, <1>4, CoresFinite, FS_AddElement
      <4>2. Cardinality(W \cup {p}) = n
        BY <4>1, <1>1
      <4>3. {p} \cup W = W \cup {p}
        OBVIOUS
      <4> QED  BY <4>2, <4>3, <1>7
    <3>2. pc' = pc /\ job' = job
      BY <1>1
    <3>3. PICK j \in Teams : j = job[p] /\ j # new
      BY <1>2, <1>3, <1>10
    <3>4. PICK c \in Teams : c = curr_team[p] /\ c # new
      BY <1>2, <1>3, <1>10
    <3>5. Level(j)' = Level(j) /\ Level(c)' = Level(c) /\ Master(c)' = Master(c)
      BY <1>8, <3>3, <3>4
    <3>6. Level(new)' = Level(c) + 1 /\ Level(c) \in Nat /\ Level(j) \in Nat /\ Level(j) <= Level(c)
      BY <1>3, <1>7, <3>3, <3>4
    <3>7. c = j \/ (c \in Active /\ Master(c) = p)
      BY <1>3, <3>3, <3>4 DEF Mastered
    <3>8. /\ Level(job[Master(new)])' = Level(j)' /\ Level(curr_team[Master(new)])' = Level(new)'
          /\ Level(team[new].parent)' = Level(c)' /\ job'[Master(new)'] = j
          /\ team'[new].parent = c /\ Master(team[new].parent)' = Master(c)'
      BY <1>6, <1>7, <3>2, <3>3, <3>4 DEF Level, Master
    <3>9. Level(new)' <= Level(curr_team[Master(new)])' /\ Level(new)' > Level(job[Master(new)])'
          /\ Level(new)' = Level(team[new].parent)' + 1
      BY <3>5, <3>6, <3>8
    <3>10. \/ team'[new].parent = job'[Master(new)']
           \/ team'[new].parent \in Active' /\ Master(team[new].parent)' = Master(new)'
      BY <1>2, <1>7, <3>5, <3>7, <3>8
    <3> QED  BY <1>3, <1>7, <3>1, <3>2, <3>9, <3>10 DEF Owned
  <2>4. ASSUME NEW s \in Active', NEW t \in Active', s # t, Master(s)' = Master(t)'
        PROVE  Level(s)' # Level(t)'
    <3>1. ASSUME NEW u \in Active, Master(u)' = p PROVE Level(u)' # Level(new)'
      <4>1. Master(u)' = Master(u) /\ Level(u)' = Level(u) /\ Level(u) \in Nat
        BY <1>8, <1>15
      <4>2. Level(u) <= Level(curr_team[p])
        BY <1>16, <3>1, <4>1
      <4> QED  BY <4>1, <4>2, <1>3, <1>7
    <3>2. CASE s = new
      BY <3>1, <3>2, <2>4, <1>2, <1>7
    <3>3. CASE t = new
      BY <3>1, <3>3, <2>4, <1>2, <1>7
    <3>4. CASE s # new /\ t # new
      BY <3>4, <2>4, <1>2, <1>8, <1>10 DEF OwnInv
    <3> QED  BY <3>2, <3>3, <3>4
  <2> QED  BY <1>2, <2>1, <2>2, <2>3, <2>4 DEF OwnInv
<1>18. CoreInv'
  <2>1. ASSUME NEW q \in Cores PROVE AtCore(q)'
    <3>1. AtCore(q)
      BY DEF CoreInv
    <3>2. q # 0 /\ pc[q] \in Tasks => job'[q] \in Running' /\ q \in WorkersOf(job[q])'
      <4>1. SUFFICES ASSUME q # 0, pc[q] \in Tasks
                     PROVE  job'[q] \in Running' /\ q \in WorkersOf(job[q])'
        OBVIOUS
      <4>2. PICK j \in Running : j = job[q] /\ q \in WorkersOf(j) /\ j \in Teams /\ j # new
        BY <4>1, <1>12, TaskOf
      <4>3. job' = job /\ team'[j] = team[j]
        BY <1>1, <1>8, <4>2
      <4> QED  BY <4>2, <4>3, <1>12 DEF WorkersOf
    <3>3. CASE q = p
      <4>1. Mastered(p)'
        <5>1. curr_team'[p] \in Active' /\ team'[curr_team'[p]].proc0 = p
          BY <1>2, <1>6, <1>7 DEF Master
        <5> QED  BY <5>1 DEF Mastered, Master
      <4> QED  BY <3>2, <3>3, <4>1, <1>1 DEF AtCore
    <3>4. CASE q \in W
      BY <3>4, <1>1, <1>5 DEF AtCore, Tasks, Execs
    <3>5. CASE q # p /\ q \notin W
      <4>1. curr_team'[q] = curr_team[q]
        BY <3>5, <1>6
      <4>2. Mastered(q) => Mastered(q)'
        <5>1. SUFFICES ASSUME Mastered(q) PROVE Mastered(q)'
          OBVIOUS
        <5>2. team'[curr_team[q]] = team[curr_team[q]] /\ curr_team[q] \in Active
          BY <5>1, <1>8, <1>10 DEF Mastered
        <5> QED  BY <5>1, <5>2, <4>1, <1>2 DEF Mastered, Master
      <4> QED  BY <3>1, <3>2, <4>1, <4>2, <1>1 DEF AtCore
    <3> QED  BY <3>3, <3>4, <3>5
  <2> QED  BY <1>1, <1>3, <2>1 DEF CoreInv
<1>19. \A t \in Running : Over(t)' <=> Over(t)
  <2> TAKE t \in Running
  <2>1. PICK m : m = Master(t)
    OBVIOUS
  <2>2. m \in Cores /\ m \notin W /\ t \in Teams /\ t # new
    BY <2>1, <1>10, <1>15
  <2>3. Master(t)' = m
    BY <2>1, <2>2, <1>8
  <2>4. CASE m = p
    BY <2>1, <2>3, <2>4, <1>1 DEF Over
  <2>5. CASE m # p
    BY <2>1, <2>2, <2>3, <2>5, <1>1, <1>6 DEF Over
  <2> QED  BY <2>4, <2>5
<1>20. MembInv'
  <2>1. ASSUME NEW t \in Running, NEW q \in WorkersOf(t) PROVE Member(t, q)'
    <3>1. Member(t, q) /\ q \in Cores /\ q \in Busy
      BY ActiveFacts, TeamTypes DEF MembInv, Busy
    <3>2. q \notin W
      BY <3>1, <1>4
    <3>3. CASE q = p
      BY <3>1, <3>2, <3>3, <1>1, <1>19 DEF Member
    <3>4. CASE q # p
      BY <3>1, <3>2, <3>4, <1>1, <1>6, <1>19 DEF Member
    <3> QED  BY <3>3, <3>4
  <2>2. ASSUME NEW q \in W PROVE Member(new, q)'
    <3>1. ~Over(new)'
      BY <1>1, <1>7 DEF Over
    <3> QED  BY <3>1, <1>1, <1>5, <1>6 DEF Member
  <2>3. \A t \in Running : WorkersOf(t)' = WorkersOf(t)
    BY <1>8, <1>10
  <2> QED  BY <1>7, <1>12, <2>1, <2>2, <2>3 DEF MembInv
<1>21. BarInv'
  <2>1. ASSUME NEW t \in Teams, NEW q \in arrived[t] PROVE Waits(t, q)'
    <3>1. Waits(t, q) /\ q \in Cores
      BY DEF BarInv, Types
    <3>2. q # p /\ q \notin W /\ t # new
      BY <3>1, <1>1, <1>5, <1>12 DEF Waits
    <3> QED  BY <3>1, <3>2, <1>1, <1>6, <1>8, <1>12 DEF Waits
  <2>2. \A q \in Cores : pc[q] = "master_wait" => curr_team'[q] = curr_team[q]
    BY <1>1, <1>5, <1>6
  <2> QED  BY <1>1, <2>1, <2>2 DEF BarInv
<1>22. HC' = HC
  BY <1>1 DEF HC
<1>23. RestInv'
  <2>1. ASSUME NEW q \in Workers, Handles(q) \/ Docked(q) PROVE q # p
    BY <2>1, <1>1 DEF Handles, Docked
  <2>2. ASSUME NEW q \in Workers, q # p, q \notin W
        PROVE  /\ (Handles(q)' <=> Handles(q)) /\ (Docked(q)' <=> Docked(q))
               /\ curr_team'[q] = curr_team[q]
    BY <2>2, <1>1, <1>6, Consts DEF Handles, Docked
  <2>3. ASSUME NEW q \in Workers
        PROVE  /\ q \in HC => curr_team'[q] = Handler /\ Handles(q)'
               /\ q \notin HC /\ q \notin Busy' => Docked(q)'
    BY <1>3, <1>4, <1>13, <2>1, <2>2 DEF RestInv
  <2>4. Busy' \cap HC' = {}
    BY <1>4, <1>13, <1>22 DEF RestInv
  <2> QED  BY <1>1, <1>3, <1>22, <2>3, <2>4 DEF RestInv
<1>24. LruInv'
  <2>1. ASSUME NEW t \in Active', Level(t)' = 1 PROVE team'[t].cores = First(team'[t].nthreads)
    <3>1. CASE t = new
      <4>1. Level(new)' = 1
        BY <3>1, <2>1 DEF Level
      <4>2. Level(curr_team[p]) = 0
        BY <4>1, <1>3, <1>7
      <4> QED  BY <3>1, <4>2, <1>1, <1>7
    <3>2. CASE t # new
      BY <3>2, <2>1, <1>2, <1>8, <1>10 DEF LruInv
    <3> QED  BY <3>1, <3>2
  <2>2. ASSUME pc'[0] = "free", Level(curr_team[0])' = 1 PROVE FALSE
    <3>1. p # 0 /\ pc[0] = "free" /\ 0 \notin W
      BY <2>2, <1>1, <1>4, Consts
    <3>2. curr_team'[0] = curr_team[0] /\ curr_team[0] \in Active /\ Master(curr_team[0]) = 0
      BY <3>1, <1>6, Consts DEF CoreInv, AtCore, Mastered
    <3>3. Level(curr_team[0]) = 1
      <4>1. team'[curr_team[0]] = team[curr_team[0]]
        BY <3>2, <1>8, <1>10
      <4> QED  BY <4>1, <3>2, <2>2 DEF Level
    <3>4. Active = {curr_team[0]}
      BY <3>1, <3>2, <3>3, OnlyTop
    <3>5. curr_team[0] \in Ending
      BY <3>1, <3>2, EndingIs
    <3>6. job[p] \in Running
      BY <3>1, <1>3, TaskOf DEF Tasks
    <3> QED  BY <3>4, <3>5, <3>6, <1>10
  <2> QED  BY <1>2, <2>1, <2>2 DEF LruInv
<1>25. CoresExact'
  <2>1. ASSUME NEW t \in Running
        PROVE  /\ WorkersOf(t)' = WorkersOf(t) /\ team'[t] = team[t] /\ WorkersOf(t) \cap W = {}
    BY <1>4, <1>8, <1>10 DEF Busy
  <2>2. \A s, t \in Running' : s # t => WorkersOf(s)' \cap WorkersOf(t)' = {}
    BY <1>7, <1>12, <2>1 DEF CoresExact
  <2>3. \A t \in Running' : /\ team'[t].proc0 \in team'[t].cores
                            /\ team'[t].nthreads = Cardinality(team'[t].cores)
    <3>1. Owned(new)'
      BY <1>2, <1>17 DEF OwnInv
    <3> QED  BY <3>1, <1>12, <2>1 DEF CoresExact, Owned, Master
  <2>4. Handling' = Handling /\ Handling = HC
    BY <1>1, <1>3 DEF Handling, HC
  <2>5. Busy' \cap Handling' = {}
    BY <1>4, <1>13, <2>4 DEF CoresExact
  <2>6. thread_pool' = {0} \cup Busy'
    BY <1>1, <1>13 DEF CoresExact
  <2>7. Cardinality(Busy \cup W) = Cardinality(Busy) + Cardinality(W) - Cardinality(Busy \cap W)
    BY BusyAre, CoresFinite, FS_Union
  <2>8. Busy \cap W = {} /\ Cardinality({}) = 0
    BY <1>4, FS_EmptySet
  <2>9. idle_cores' + Cardinality(Busy') + Cardinality(Handling') = NumCores - 1
    <3>1. PICK x \in Nat : Cardinality(Busy) = x
      BY BusyAre
    <3>2. Cardinality(Handling) \in Nat
      <4>1. Handling \subseteq Cores
        BY Consts DEF Handling, HandlerCores
      <4> QED  BY <4>1, CoresFinite
    <3>3. PICK y \in Nat : Cardinality(Handling) = y
      BY <3>2
    <3>4. idle_cores \in Int /\ idle_cores + x + y = NumCores - 1
      BY <3>1, <3>3 DEF CoresExact, Types
    <3>5. Cardinality(Busy') = x + (n - 1) - 0
      BY <1>1, <1>13, <2>7, <2>8, <3>1
    <3>6. idle_cores' = idle_cores - (n - 1)
      BY <1>1
    <3> QED  BY <2>4, <3>3, <3>4, <3>5, <3>6, Consts
  <2> QED  BY <2>2, <2>3, <2>5, <2>6, <2>9 DEF CoresExact
<1> QED  BY <1>2, <1>9, <1>17, <1>18, <1>20, <1>21, <1>23, <1>24, <1>25

\* gomp_team_start preserves the invariant.
LEMMA TeamStartInv ==
  ASSUME TInv, Steady, NEW p \in Cores, NEW specified \in Specified, TeamStart(p, specified)
  PROVE  TInv'
BY TeamStartEffect, StartsInv

-----------------------------------------------------------------------------
(* The theorems *)

\* A step that changes nothing
LEMMA StutterInv ==
  ASSUME TInv, UNCHANGED vars
  PROVE  TInv'
<1>1. UNCHANGED <<thread_pool, idle_cores, team_pool, lru_team, curr_team, team,
                  arrived, event, pc, job, sync, handlers, offloads, regions>>
  BY DEF vars
<1>2. /\ Pooled' = Pooled /\ Active' = Active /\ Ending' = Ending /\ Running' = Running
      /\ HC' = HC /\ Handling' = Handling
      /\ \A t : WorkersOf(t)' = WorkersOf(t) /\ Master(t)' = Master(t) /\ Level(t)' = Level(t)
  BY <1>1 DEF Pooled, Active, Ending, Running, HC, Handling, WorkersOf, Master, Level
<1>3. Busy' = Busy
  BY <1>2 DEF Busy
<1>4. Types' /\ PoolInv' /\ CoresExact'
  BY <1>1, <1>2, <1>3 DEF TInv, Types, PoolInv, CoresExact
<1>5. OwnInv' /\ CoreInv'
  BY <1>1, <1>2 DEF TInv, OwnInv, Owned, CoreInv, AtCore, Mastered
<1>6. MembInv' /\ BarInv'
  BY <1>1, <1>2 DEF TInv, MembInv, Member, Over, BarInv, Waits
<1>7. RestInv' /\ LruInv'
  BY <1>1, <1>2, <1>3 DEF TInv, RestInv, Handles, Docked, Leaves, LruInv
<1> QED  BY <1>4, <1>5, <1>6, <1>7 DEF TInv

\* Every step preserves the invariant.
LEMMA NextInv ==
  ASSUME TInv, Steady, [Next]_vars
  PROVE  TInv'
<1>1. ASSUME NEW p \in Cores, Step(p) PROVE TInv'
  BY <1>1, ParallelEndInv, TeamEndInv, TeamFreeInv, WakeInv, TaskDoneInv, HandlerDoneInv,
     OffloadEndInv DEF Step
<1>2. ASSUME NEW p \in Cores, NEW n \in Specified, TeamStart(p, n) PROVE TInv'
  BY <1>2, TeamStartInv
<1>3. ASSUME NEW n \in HandlerCounts, OffloadStart(n) PROVE TInv'
  BY <1>3, OffloadStartInv
<1>4. CASE Stop
  BY <1>4, StopInv
<1>5. CASE UNCHANGED vars
  BY <1>5, StutterInv
<1> QED  BY <1>1, <1>2, <1>3, <1>4, <1>5 DEF Next

\* Every core of a region runs its task, or will when it wakes.
LEMMA MembersFollow == TInv => MembersJoin
<1> SUFFICES ASSUME TInv, NEW t \in Running, NEW p \in WorkersOf(t)
             PROVE  \/ Passed(t)
                    \/ job[p] = t /\ pc[p] # "docked"
                    \/ curr_team[p] = t /\ p \in event
  BY DEF MembersJoin
<1>1. Member(t, p)
  BY DEF TInv, MembInv
<1>2. Over(t) => Passed(t)
  BY ActiveFacts, TeamTypes DEF TInv, Over, Passed
<1> QED  BY <1>1, <1>2 DEF Member, Tasks, Execs

\* A core works for one region at most and never both for a region and as a
\* miss handler, and thread_pool and idle_cores count exactly the cores in use
\* (team.c, gomp_team_start and gomp_team_end, and offload-manager.c): for any
\* number of cores, descriptors, offloads, regions and levels of nesting.
THEOREM CoresAreExact == ASSUME Steady PROVE Spec => []CoresExact
<1>1. TInv => CoresExact
  BY DEF TInv
<1>2. TInv /\ [Next]_vars => TInv'
  BY NextInv
<1> QED  BY <1>1, <1>2, InitInv, PTL DEF Spec

\* Every worker of a region comes to run its task and no other (team.c:389
\* "Update local team structure pointers of all processors of the team"), also
\* when a hit leaves curr_team as it is.
THEOREM MembersDoJoin == ASSUME Steady PROVE Spec => []MembersJoin
<1>1. TInv /\ [Next]_vars => TInv'
  BY NextInv
<1> QED  BY <1>1, MembersFollow, InitInv, PTL DEF Spec

\* The invariant behind both: regions are stacked on the tasks of their
\* masters, a core a barrier has seen waits at it, and the last used
\* descriptor is the one its cores still have in curr_team.
THEOREM TeamInvariant == ASSUME Steady PROVE Spec => []TInv
<1>1. TInv /\ [Next]_vars => TInv'
  BY NextInv
<1> QED  BY <1>1, InitInv, PTL DEF Spec
=============================================================================
