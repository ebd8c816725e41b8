----------------------------- MODULE OmpRtProofs -----------------------------
(***************************************************************************)
(* Proofs about OmpRt, for every number of cores and threads, every body    *)
(* whose dynamic loops end in a barrier, and any number of regions: a       *)
(* single block is run once, a static loop is divided exactly, a dynamic    *)
(* loop loses no iteration.  They assume that no team of fewer cores        *)
(* follows a full one (~Mixed) and that no offload follows one with miss    *)
(* handlers (~Again), as the run does.                                      *)
(***************************************************************************)
EXTENDS OmpRt, FiniteSetTheorems, TLAPS

\* No dynamic loop has a nowait clause.  One that has shares its bounds with
\* the next loop, and mistakes the epoch of a later single for its own.
DynamicsWait ==
  \A b \in Bodies : \A i \in DOMAIN b : b[i].kind = "dynamic" => ~b[i].nowait

(***************************************************************************)
(* The invariant, after the types.                                          *)
(***************************************************************************)
Entries == {"task", "handler"}
Labels  == {"mailbox", "serial", "return", "docked", "handling", "body", "next",
            "fini", "bar", "exit"}
Shares  == [iters : SUBSET Int, last : BOOLEAN]

Types ==
  /\ pc \in [Cores -> Labels]
  /\ pos \in [Cores -> Nat]
  /\ queue \in [Cores -> Seq(Entries)]
  /\ core_epoch \in [Cores -> Nat] /\ loop_epoch \in Nat
  /\ arrived \subseteq Cores
  /\ body \in Bodies \cup {<<>>}
  /\ handed \in [1 .. Len(body) -> Seq(Shares)]
  /\ loop \in [start : Int, end : Int, chunk : Int]

(***************************************************************************)
(* Part one: who takes part.                                                *)
(***************************************************************************)
\* The last cores handle misses; the serial code runs between regions.
Handling(c) == c >= NumCores - handlers
InRegion == pc[0] \notin {"mailbox", "serial"}

Config ==
  /\ handlers \in 0 .. NumCores - 1
  /\ maxThreads = NumCores - handlers
  /\ numThreads \in 1 .. maxThreads
  /\ nbThreads \in 1 .. NumCores
  /\ partial => ~full
  /\ IF partial THEN InRegion /\ nbThreads <= NumCores - handlers
                ELSE nbThreads = NumCores
  /\ InRegion /\ ~partial => handlers = 0 /\ full
  /\ bar_mask = Team /\ team_mask = Team

(***************************************************************************)
(* Part two: where the threads of the region are.  Places are numbered in   *)
(* the order in which a thread passes them; construct k has the places      *)
(* 3 * k (its loop, or the barrier of a static one), 3 * k + 1 (the barrier *)
(* after it) and 3 * k + 2 (behind it).                                     *)
(***************************************************************************)
PlaceAt(p, l, q) ==
  3 * p + (CASE l \in {"next", "fini"} -> 0
             [] l = "bar" -> 1
             [] l = "exit" -> 3
             [] l = "return" \/ (l = "docked" /\ q = <<>>) -> 4
             [] OTHER -> 2)

Place(c) == PlaceAt(pos[c], pc[c], queue[c])

IsBarrier(v) ==
  \/ v = 3 * Len(body) + 3
  \/ \E k \in 1 .. Len(body) : \/ v = 3 * k /\ body[k].kind = "static"
                               \/ v = 3 * k + 1 /\ ~body[k].nowait

\* A thread passes a barrier together with all others.
Together ==
  \A c, d \in Team : \A v \in Nat : IsBarrier(v) /\ Place(c) > v => Place(d) > v

\* A thread of the region: dispatched, running or finished.
Thread(c) ==
  /\ pos[c] \in 0 .. Len(body)
  /\ \/ /\ pc[c] = "docked" /\ c # 0
        /\ \/ queue[c] = <<"task">> /\ pos[c] = 0
           \/ queue[c] = <<>> /\ pos[c] = Len(body)
     \/ /\ pc[c] \in {"body", "next", "fini", "bar", "exit"} /\ queue[c] = <<>>
        /\ pc[c] = "exit" => pos[c] = Len(body)
        /\ pc[c] \in {"next", "fini", "bar"} => pos[c] > 0
        /\ pc[c] = "next" => body[pos[c]].kind = "dynamic"
        /\ pc[c] = "fini" => body[pos[c]].kind = "static"
        /\ pc[c] = "bar" => ~body[pos[c]].nowait
     \/ pc[c] = "return" /\ c = 0 /\ queue[c] = <<>> /\ pos[c] = Len(body)

\* A core that takes no part.
Idle(c) == pc[c] = "docked" /\ queue[c] = <<>>

Places ==
  /\ \A c \in arrived : pc[c] \in {"fini", "bar", "exit"}
  /\ \A c \in Cores : Handling(c) => /\ pc[c] \in {"docked", "handling", "exit"}
                                    /\ queue[c] \in Seq({"handler"})
  /\ queue[0] = <<>>
  /\ IF InRegion
     THEN /\ body \in Bodies
          /\ \A c \in Team : Thread(c)
          /\ \A c \in Cores \ Team : ~Handling(c) => Idle(c)
          /\ Together
     ELSE /\ body = <<>> /\ handed = <<>>
          /\ \A c \in Cores \ {0} : ~Handling(c) => Idle(c)

(***************************************************************************)
(* Part three: the epochs.  Singles(k) counts the single blocks among the   *)
(* first k constructs.                                                      *)
(***************************************************************************)
SinglesOf(b, k) == Cardinality({j \in 1 .. k : b[j].kind = "single"})
Singles(k) == SinglesOf(body, k)

\* e is the epoch at which the region began.
EpochsFrom(e) ==
  /\ \A c \in Team : core_epoch[c] = e + Singles(pos[c])
  /\ \A c \in Team : core_epoch[c] <= loop_epoch
  /\ \E c \in Team : core_epoch[c] = loop_epoch
  /\ \A k \in 1 .. Len(body) :
       body[k].kind = "single" =>
         Len(handed[k]) = (IF loop_epoch >= e + Singles(k) THEN 1 ELSE 0)

Epochs ==
  /\ ~full => \A c \in Cores \ Team : core_epoch[c] = 0
  /\ IF InRegion THEN \E e \in Nat : EpochsFrom(e) /\ (partial => e = 0)
                 ELSE /\ \A c \in Cores : core_epoch[c] = loop_epoch
                      /\ ~full => loop_epoch = 0

(***************************************************************************)
(* Part four: the shared bounds of dynamic loops.                           *)
(***************************************************************************)
\* They are those of construct k, and what lies before the next chunk has
\* been handed out.
Covers(k) ==
  /\ loop.end = body[k].upper /\ loop.chunk = body[k].chunk
  /\ loop.start >= body[k].lower
  /\ \A i \in body[k].lower .. body[k].upper : i < loop.start => i \in UNION Parts(k)

DynCover ==
  /\ loop_is_setup => \E c \in Team : pc[c] = "next"
  /\ \A c \in Team, k \in 1 .. Len(body) : pc[c] = "next" /\ pos[c] = k => Covers(k)

(***************************************************************************)
(* Part five: the shares of static loops.  Each thread that has entered     *)
(* the loop has been given its share.                                       *)
(***************************************************************************)
Share(c, s) ==
  LET r == IF s.sched = 33 THEN StaticChunked(c, s) ELSE StaticEven(c, s)
  IN  [iters |-> Executed(s, r), last |-> r.last]

Entered(k) == {c \in Team : pos[c] >= k}

\* who[i] is the thread that was given share i.
Deals(k, who) ==
  /\ \A i, j \in 1 .. Len(handed[k]) : who[i] = who[j] => i = j
  /\ \A i \in 1 .. Len(handed[k]) : handed[k][i] = Share(who[i], body[k])
  /\ \A c \in Entered(k) : \E i \in 1 .. Len(handed[k]) : who[i] = c

Dealt ==
  \A k \in 1 .. Len(body) : body[k].kind = "static" =>
    \E who \in [1 .. Len(handed[k]) -> Entered(k)] : Deals(k, who)

IInv == Types /\ Config /\ Places /\ Epochs /\ DynCover /\ NoIterationLost /\ Dealt
-----------------------------------------------------------------------------
(***************************************************************************)
(* The cores, and the constructs of a body.                                 *)
(***************************************************************************)
\* Core 0 is a core; a team is a set of cores and core 0 is in it.
LEMMA CoreFacts ==
  /\ NumCores \in Nat /\ NumCores >= 1
  /\ 0 \in Cores /\ Cores \subseteq Nat
  /\ \A c \in Cores : c < NumCores
BY CoresAssumption DEF Cores

\* What a construct of a body is.
LEMMA BodyFacts ==
  ASSUME NEW b \in Bodies \cup {<<>>}
  PROVE  /\ Len(b) \in Nat /\ DOMAIN b = 1 .. Len(b)
         /\ \A i \in 1 .. Len(b) :
              /\ b \in Bodies
              /\ b[i].kind \in {"single", "dynamic", "static"}
              /\ b[i].kind # "single" => b[i].lower \in Int /\ b[i].upper \in Int
              /\ b[i].kind = "dynamic" => b[i].chunk \in Nat \ {0}
              /\ b[i].kind = "static" =>
                   /\ b[i].lower = 0 /\ b[i].incr = 1 /\ b[i].upper \in Nat
                   /\ b[i].sched = 34 \/ (b[i].sched = 33 /\ b[i].chunk \in Nat \ {0})
<1>1. CASE b \in Bodies
  <2>1. b \in Seq({b[i] : i \in DOMAIN b})
    BY <1>1, BodiesAssumption
  <2>2. Len(b) \in Nat /\ DOMAIN b = 1 .. Len(b)
    BY <2>1
  <2> QED
    BY <1>1, <2>2, BodiesAssumption
<1>2. CASE b = <<>>
  BY <1>2
<1> QED
  BY <1>1, <1>2

\* In a region no thread is a miss handler.
LEMMA TeamFacts ==
  ASSUME Config
  PROVE  /\ Team \subseteq Cores /\ 0 \in Team
         /\ InRegion => \A c \in Team : ~Handling(c)
         /\ ~Handling(0)
BY CoreFacts DEF Config, Team, First, Handling, Cores

\* Appending a share to those of construct k keeps the type of handed.
LEMMA GivesTypes ==
  ASSUME Types, NEW k \in 1 .. Len(body), NEW iters \in SUBSET Int,
         NEW last \in BOOLEAN, Gives(k, iters, last)
  PROVE  /\ handed' \in [1 .. Len(body) -> Seq(Shares)]
         /\ Len(handed'[k]) = Len(handed[k]) + 1
         /\ handed'[k] = Append(handed[k], [iters |-> iters, last |-> last])
         /\ \A j \in 1 .. Len(body) : j # k => handed'[j] = handed[j]
<1>1. [iters |-> iters, last |-> last] \in Shares
  BY DEF Shares
<1>2. handed \in [1 .. Len(body) -> Seq(Shares)]
  BY DEF Types
<1>3. Append(handed[k], [iters |-> iters, last |-> last]) \in Seq(Shares)
  BY <1>1, <1>2
<1>4. Len(Append(handed[k], [iters |-> iters, last |-> last])) = Len(handed[k]) + 1
  BY <1>1, <1>2
<1> QED
  BY <1>2, <1>3, <1>4 DEF Gives

\* A core that enters a construct: which one, and that it is a thread of the
\* region.
LEMMA EntersFacts ==
  ASSUME Types, NEW c \in Cores, NEW kind, Enters(c, kind)
  PROVE  /\ pos[c] \in Nat /\ pos[c] + 1 \in 1 .. Len(body)
         /\ Current(c) = body[pos[c] + 1] /\ body[pos[c] + 1].kind = kind
         /\ pos' \in [Cores -> Nat] /\ pos'[c] = pos[c] + 1
         /\ \A d \in Cores : d # c => pos'[d] = pos[d]
         /\ pc[c] = "body"
<1>1. Len(body) \in Nat
  BY BodyFacts DEF Types
<1> QED
  BY <1>1 DEF Types, Enters, Current

\* A core that runs the microtask is a thread of the region.
LEMMA Acting ==
  ASSUME Types, Config, Places, NEW c \in Cores,
         pc[c] \in {"body", "next", "fini", "bar"}
  PROVE  InRegion /\ c \in Team /\ Thread(c)
<1>1. ~Handling(c)
  BY DEF Places
<1>2. InRegion
  <2>1. c # 0 => pc[c] = "docked" \/ InRegion
    BY <1>1 DEF Places, Idle
  <2> QED
    BY <2>1 DEF InRegion
<1>3. c \in Team
  BY <1>1, <1>2 DEF Places, Idle
<1> QED
  BY <1>2, <1>3 DEF Places

\* The types are preserved.
LEMMA TypesStep == ASSUME Types, Config, Places, [Next]_vars PROVE Types'
<1>0. /\ pc \in [Cores -> Labels] /\ pos \in [Cores -> Nat]
      /\ queue \in [Cores -> Seq(Entries)]
      /\ core_epoch \in [Cores -> Nat] /\ loop_epoch \in Nat
      /\ arrived \subseteq Cores
      /\ body \in Bodies \cup {<<>>}
      /\ handed \in [1 .. Len(body) -> Seq(Shares)]
      /\ loop \in [start : Int, end : Int, chunk : Int]
  BY DEF Types
<1>e. Len(<<>>) = 0 /\ <<>> \in [1 .. 0 -> Seq(Shares)]
  OBVIOUS
<1>p. ASSUME NEW S \in SUBSET Cores, NEW what \in Entries, Pushes(S, what)
      PROVE  queue' \in [Cores -> Seq(Entries)]
  BY <1>0, <1>p DEF Pushes
<1>1. ASSUME NEW c \in Cores, Wake(c) PROVE Types'
  BY <1>0, <1>1 DEF Types, Labels, Wake, epochVars, loopVars
<1>2. ASSUME NEW c \in Cores, HandlerDone(c) \/ TaskDone(c) PROVE Types'
  BY <1>0, <1>2 DEF Types, Labels, HandlerDone, TaskDone, epochVars, loopVars
<1>3. ASSUME NEW c \in Cores, Barrier(c) PROVE Types'
  <2>1. pc' \in [Cores -> Labels]
    <3> DEFINE here == arrived \cup {c}
    <3>1. CASE here = bar_mask
      <4>1. ASSUME NEW d \in here PROVE AfterBarrier(d) \in Labels
        <5>1. pc[d] \in {"fini", "bar", "exit"}
          BY <1>3 DEF Places, Barrier
        <5> QED
          BY <5>1 DEF AfterBarrier, After, Labels
      <4>2. pc' = [d \in Cores |-> IF d \in here THEN AfterBarrier(d) ELSE pc[d]]
        BY <1>3, <3>1 DEF Barrier
      <4> HIDE DEF here
      <4> QED
        BY <1>0, <4>1, <4>2
    <3>2. CASE here # bar_mask
      BY <1>0, <1>3, <3>2 DEF Barrier
    <3> QED
      BY <3>1, <3>2
  <2>2. arrived' \subseteq Cores
    BY <1>0, <1>3 DEF Barrier
  <2>3. UNCHANGED <<pos, queue, core_epoch, loop_epoch, body, handed, loop>>
    BY <1>3 DEF Barrier, epochVars, loopVars
  <2> QED
    BY <1>0, <2>1, <2>2, <2>3 DEF Types
<1>a. ASSUME NEW k PROVE After(k) \in Labels
  BY DEF After, Labels
<1>4. ASSUME NEW c \in Cores, SingleStart(c) PROVE Types'
  <2>1. Enters(c, "single")
    BY <1>4 DEF SingleStart
  <2>2. pos' \in [Cores -> Nat] /\ pos[c] + 1 \in 1 .. Len(body)
    BY <2>1, EntersFacts
  <2>3. handed' \in [1 .. Len(body) -> Seq(Shares)]
    <3>1. CASE loop_epoch = core_epoch[c]
      <4>1. Gives(pos[c] + 1, {0}, FALSE)
        BY <1>4, <3>1 DEF SingleStart
      <4>2. {0} \in SUBSET Int /\ FALSE \in BOOLEAN
        OBVIOUS
      <4> QED
        BY <2>2, <4>1, <4>2, GivesTypes
    <3>2. CASE loop_epoch # core_epoch[c]
      <4>1. handed' = handed
        BY <1>4, <3>2 DEF SingleStart
      <4> QED
        BY <1>0, <4>1
    <3> QED
      BY <3>1, <3>2
  <2>4. UNCHANGED <<arrived, queue, body, loop>>
    BY <1>4 DEF SingleStart, loopVars
  <2>5. core_epoch' \in [Cores -> Nat] /\ loop_epoch' \in Nat
    BY <1>0, <1>4 DEF SingleStart
  <2>6. pc' \in [Cores -> Labels]
    BY <1>0, <1>4, <1>a DEF SingleStart, Labels
  <2> QED
    BY <1>0, <2>2, <2>3, <2>4, <2>5, <2>6 DEF Types
<1>5. ASSUME NEW c \in Cores, DispatchInit(c) PROVE Types'
  <2>1. Enters(c, "dynamic")
    BY <1>5 DEF DispatchInit
  <2>2. /\ pos' \in [Cores -> Nat] /\ pos[c] + 1 \in 1 .. Len(body)
        /\ body[pos[c] + 1].kind = "dynamic"
    BY <2>1, EntersFacts
  <2>3. UNCHANGED <<arrived, queue, body, handed, loop_epoch>>
    BY <1>5 DEF DispatchInit
  <2>4. core_epoch' \in [Cores -> Nat]
    <3>1. CASE loop_epoch # core_epoch[c]
      <4>1. core_epoch' = [core_epoch EXCEPT ![c] = @ + 1]
        BY <1>5, <3>1 DEF DispatchInit
      <4> QED
        BY <1>0, <4>1
    <3>2. CASE loop_epoch = core_epoch[c]
      <4>1. core_epoch' = core_epoch
        BY <1>5, <3>2 DEF DispatchInit
      <4> QED
        BY <1>0, <4>1
    <3> QED
      BY <3>1, <3>2
  <2>5. pc' \in [Cores -> Labels]
    BY <1>0, <1>5 DEF DispatchInit, Labels
  <2>6. loop' \in [start : Int, end : Int, chunk : Int]
    <3>1. /\ body[pos[c] + 1].lower \in Int /\ body[pos[c] + 1].upper \in Int
          /\ body[pos[c] + 1].chunk \in Int
      BY <1>0, <2>2, BodyFacts
    <3> QED
      BY <1>0, <1>5, <3>1 DEF DispatchInit, Construct, loopVars
  <2> QED
    BY <1>0, <2>2, <2>3, <2>4, <2>5, <2>6 DEF Types
<1>6. ASSUME NEW c \in Cores, DispatchNext(c) PROVE Types'
  <2>0. pos[c] \in 1 .. Len(body)
    <3>1. pc[c] = "next"
      BY <1>6 DEF DispatchNext
    <3>2. Thread(c)
      BY <3>1, Acting
    <3>3. pos[c] \in 0 .. Len(body) /\ pos[c] > 0
      BY <3>1, <3>2 DEF Thread
    <3> QED
      BY <3>3
  <2>1. UNCHANGED <<arrived, queue, body, pos, loop_epoch, core_epoch>>
    BY <1>6 DEF DispatchNext, epochVars
  <2>2. pc' \in [Cores -> Labels]
    BY <1>0, <1>6, <1>a DEF DispatchNext, Labels
  <2>3. loop' \in [start : Int, end : Int, chunk : Int]
    BY <1>0, <1>6 DEF DispatchNext
  <2>4. handed' \in [1 .. Len(body) -> Seq(Shares)]
    <3>1. CASE handed' = handed
      BY <1>0, <3>1
    <3>2. ASSUME NEW e, NEW f, NEW l \in BOOLEAN, Gives(pos[c], e .. f, l)
          PROVE  handed' \in [1 .. Len(body) -> Seq(Shares)]
      <4>1. e .. f \in SUBSET Int
        OBVIOUS
      <4> QED
        BY <2>0, <3>2, <4>1, GivesTypes
    <3>3. (loop.start + loop.chunk - 1 >= loop.end) \in BOOLEAN
      OBVIOUS
    <3> QED
      BY <1>6, <3>1, <3>2, <3>3 DEF DispatchNext
  <2> QED
    BY <1>0, <2>1, <2>2, <2>3, <2>4 DEF Types
<1>7. ASSUME NEW c \in Cores, ForStatic(c) PROVE Types'
  <2>1. Enters(c, "static")
    BY <1>7 DEF ForStatic
  <2>2. /\ pos' \in [Cores -> Nat] /\ pos[c] + 1 \in 1 .. Len(body)
        /\ body[pos[c] + 1].kind = "static"
    BY <2>1, EntersFacts
  <2>3. UNCHANGED <<arrived, queue, body, loop_epoch, core_epoch, loop>>
    BY <1>7 DEF ForStatic, epochVars, loopVars
  <2>4. pc' \in [Cores -> Labels]
    BY <1>0, <1>7 DEF ForStatic, Labels
  <2>5. handed' \in [1 .. Len(body) -> Seq(Shares)]
    <3> DEFINE k == pos[c] + 1
               r == IF Construct(k).sched = 33 THEN StaticChunked(c, Construct(k))
                                               ELSE StaticEven(c, Construct(k))
    <3>1. Gives(k, Executed(Construct(k), r), r.last)
      BY <1>7 DEF ForStatic
    <3>2. Executed(Construct(k), r) \in SUBSET Int
      BY DEF Executed
    <3>3. r.last \in BOOLEAN
      BY DEF StaticChunked, StaticEven
    <3> HIDE DEF r
    <3> QED
      BY <2>2, <3>1, <3>2, <3>3, GivesTypes
  <2> QED
    BY <1>0, <2>2, <2>3, <2>4, <2>5 DEF Types
<1>8. CASE ForkReturn
  <2>1. pos' \in [Cores -> Nat] /\ body' = <<>> /\ handed' = <<>>
    BY <1>8 DEF ForkReturn
  <2>2. pc' \in [Cores -> Labels] /\ UNCHANGED <<queue, arrived, loop>>
    BY <1>0, <1>8 DEF ForkReturn, loopVars, Labels
  <2>3. core_epoch' \in [Cores -> Nat] /\ loop_epoch' \in Nat
    <3>1. CASE partial
      <4>1. Restored
        BY <1>8, <3>1 DEF ForkReturn
      <4> QED
        BY <1>0, <4>1 DEF Restored
    <3>2. CASE ~partial
      <4>1. UNCHANGED epochVars
        BY <1>8, <3>2 DEF ForkReturn
      <4> QED
        BY <1>0, <4>1 DEF epochVars
    <3> QED
      BY <3>1, <3>2
  <2> QED
    BY <1>0, <1>e, <2>1, <2>2, <2>3 DEF Types
<1>9. ASSUME NEW n \in HandlerCounts, OffloadStart(n) PROVE Types'
  <2>1. queue' \in [Cores -> Seq(Entries)]
    <3>1. PICK S : Pushes(Cores \ S, "handler")
      BY <1>9 DEF OffloadStart
    <3> QED
      BY <3>1, <1>p DEF Entries
  <2>2. pc' \in [Cores -> Labels]
    BY <1>0, <1>9 DEF OffloadStart, Labels
  <2>3. UNCHANGED <<pos, core_epoch, loop_epoch, arrived, body, handed, loop>>
    BY <1>9 DEF OffloadStart, epochVars, loopVars
  <2> QED
    BY <1>0, <2>1, <2>2, <2>3 DEF Types
<1>10. CASE OffloadEnd
  BY <1>0, <1>10 DEF Types, Labels, OffloadEnd, epochVars, loopVars
<1>11. ASSUME NEW n \in Clauses, NEW b \in Bodies, Fork(n, b) PROVE Types'
  <2>0. team_mask' \subseteq Cores
    <3>1. team_mask' = team_mask \/ \E m : team_mask' = First(m)
      BY <1>11 DEF Fork, Reconfigured, hwVars
    <3> QED
      BY <3>1, TeamFacts DEF Config, First
  <2>1. queue' \in [Cores -> Seq(Entries)]
    <3>1. Pushes(team_mask' \ {0}, "task")
      BY <1>11 DEF Fork
    <3> QED
      BY <2>0, <3>1, <1>p DEF Entries
  <2>2. pc' \in [Cores -> Labels] /\ pos' \in [Cores -> Nat]
    BY <1>0, <1>11 DEF Fork, Labels
  <2>3. UNCHANGED <<core_epoch, loop_epoch, arrived, loop>> /\ body' = b
    BY <1>11 DEF Fork, epochVars, loopVars
  <2>4. handed' \in [1 .. Len(b) -> Seq(Shares)]
    <3>1. handed' = [k \in DOMAIN b |-> <<>>] /\ DOMAIN b = 1 .. Len(b)
      BY <1>11, BodyFacts DEF Fork
    <3> QED
      BY <3>1
  <2> QED
    BY <2>1, <2>2, <2>3, <2>4, <1>0 DEF Types
<1>12. CASE UNCHANGED vars
  BY <1>0, <1>12 DEF Types, vars, epochVars, loopVars
<1> QED
  BY <1>1, <1>2, <1>3, <1>4, <1>5, <1>6, <1>7, <1>8, <1>9, <1>10, <1>11, <1>12
     DEF Next, Step

(***************************************************************************)
(* Part one.                                                                *)
(***************************************************************************)
\* What core 0 and the host configure is left alone by a step of a core, and
\* no such step begins or ends a region.
LEMMA StepFrame ==
  ASSUME Types, Places, NEW c \in Cores, Step(c)
  PROVE  /\ UNCHANGED <<numThreads, nbThreads, bar_mask, team_mask, maxThreads,
                        handlers, partial, body, full>>
         /\ Team' = Team /\ InRegion' = InRegion
<1>1. UNCHANGED <<numThreads, nbThreads, bar_mask, team_mask, maxThreads,
                  handlers, partial, body, full>>
  BY DEF Step, Wake, HandlerDone, TaskDone, Barrier, SingleStart, DispatchInit,
         DispatchNext, ForStatic, hwVars, mhVars, boundVars
<1>2. Team' = Team
  BY <1>1 DEF Team
<1>3. ASSUME NEW k PROVE After(k) \in {"body", "bar"}
  BY DEF After
<1>4. pc \in [Cores -> Labels] /\ 0 \in Cores /\ queue[0] = <<>>
  BY CoreFacts DEF Types, Places
<1>5. pc'[0] = pc[0] \/ (pc[0] \notin {"mailbox", "serial"}
                          /\ pc'[0] \notin {"mailbox", "serial"})
  <2>1. CASE Wake(c)
    BY <1>4, <2>1 DEF Wake
  <2>2. CASE HandlerDone(c) \/ TaskDone(c)
    BY <1>4, <2>2 DEF HandlerDone, TaskDone
  <2>3. CASE Barrier(c)
    <3>1. CASE arrived \cup {c} = bar_mask
      <4>1. pc' = [d \in Cores |-> IF d \in arrived \cup {c} THEN AfterBarrier(d) ELSE pc[d]]
        BY <2>3, <3>1 DEF Barrier
      <4>2. CASE 0 \in arrived \cup {c}
        <5>1. pc[0] \in {"fini", "bar", "exit"}
          BY <2>3, <4>2 DEF Places, Barrier
        <5>2. AfterBarrier(0) \in {"body", "bar", "return"}
          BY <1>3, <5>1 DEF AfterBarrier
        <5> QED
          BY <1>4, <4>1, <4>2, <5>1, <5>2
      <4> QED
        BY <1>4, <4>1, <4>2
    <3>2. CASE arrived \cup {c} # bar_mask
      BY <2>3, <3>2 DEF Barrier
    <3> QED
      BY <3>1, <3>2
  <2>4. CASE SingleStart(c)
    BY <1>3, <1>4, <2>4 DEF SingleStart, Enters
  <2>5. CASE DispatchInit(c)
    BY <1>4, <2>5 DEF DispatchInit, Enters
  <2>6. CASE DispatchNext(c)
    <3>1. pc[c] = "next" /\ (pc' = pc \/ pc' = [pc EXCEPT ![c] = After(pos[c])])
      BY <2>6 DEF DispatchNext
    <3> QED
      BY <1>3, <1>4, <3>1
  <2>7. CASE ForStatic(c)
    BY <1>4, <2>7 DEF ForStatic, Enters
  <2> QED
    BY <2>1, <2>2, <2>3, <2>4, <2>5, <2>6, <2>7 DEF Step
<1> QED
  BY <1>1, <1>2, <1>5 DEF InRegion

\* A num_threads clause asks for at least one thread and gets at most as many
\* as are not handling misses.
LEMMA PushedBound ==
  ASSUME Config, NEW n \in Clauses PROVE Pushed(n) \in 1 .. maxThreads
<1>1. n \in Nat
  BY ClausesAssumption
<1>2. maxThreads \in Nat /\ maxThreads >= 1
  BY CoreFacts DEF Config
<1> QED
  BY <1>1, <1>2 DEF Config, Pushed

\* What Fork does to the configuration.
LEMMA ForkFacts ==
  ASSUME ~Mixed, Types, Config, NEW n \in Clauses, NEW b \in Bodies, Fork(n, b)
  PROVE  /\ pc[0] = "serial" /\ ~partial /\ nbThreads = NumCores
         /\ Config' /\ InRegion' /\ UNCHANGED handlers
         /\ partial' => ~full /\ ~full'
         /\ ~full' => ~full
<1> DEFINE m == Pushed(n)
<1>1. m \in 1 .. maxThreads
  BY PushedBound
<1>2. /\ pc[0] = "serial" /\ (~full \/ ~IsPartial(m)) /\ numThreads' = m
      /\ partial' = IsPartial(m) /\ full' = (full \/ ~IsPartial(m))
      /\ UNCHANGED <<maxThreads, handlers>>
      /\ pc' = [pc EXCEPT ![0] = "body"]
  BY DEF Fork, mhVars
<1> HIDE DEF m
<1>3. ~InRegion /\ ~partial /\ nbThreads = NumCores
  BY <1>2 DEF Config, InRegion
<1>4. Team = Cores /\ bar_mask = Cores /\ team_mask = Cores
  BY <1>3 DEF Config, Team
<1>5. InRegion'
  BY <1>2, CoreFacts DEF InRegion, Types
<1>6. CASE IsPartial(m)
  <2>1. bar_mask' = First(m) /\ team_mask' = First(m) /\ nbThreads' = m
    BY <1>6 DEF Fork, Reconfigured, m
  <2>2. Team' = First(m) /\ partial'
    BY <1>2, <1>6, <2>1 DEF Team, First
  <2>3. m <= NumCores - handlers /\ m \in 1 .. NumCores
    BY <1>1, <1>6, CoreFacts DEF Config, IsPartial
  <2> QED
    BY <1>1, <1>2, <1>3, <1>5, <1>6, <2>1, <2>2, <2>3, CoreFacts DEF Config
<1>7. CASE ~IsPartial(m)
  <2>1. UNCHANGED <<bar_mask, team_mask, nbThreads>>
    BY <1>7 DEF Fork, hwVars, m
  <2>2. Team' = Cores /\ ~partial' /\ full'
    BY <1>2, <1>7 DEF Team
  <2>3. m = NumCores /\ handlers = 0
    BY <1>1, <1>7, CoreFacts DEF Config, IsPartial
  <2> QED
    BY <1>1, <1>2, <1>3, <1>4, <1>5, <1>7, <2>1, <2>2, <2>3, CoreFacts DEF Config
<1> QED
  BY <1>6, <1>7

\* Part one is preserved.
LEMMA ConfigStep ==
  ASSUME ~Mixed, ~Again, Types, Config, Places, [Next]_vars PROVE Config'
<1>1. ASSUME NEW c \in Cores, Step(c) PROVE Config'
  BY <1>1, StepFrame DEF Config
<1>2. CASE ForkReturn
  <2>1. ~InRegion' /\ ~partial'
    BY <1>2, CoreFacts DEF ForkReturn, InRegion, Types
  <2>2. Team' = Cores
    BY <2>1 DEF Team
  <2>3. bar_mask' = Cores /\ team_mask' = Cores /\ nbThreads' = NumCores
    <3>1. CASE partial
      BY <1>2, <3>1 DEF ForkReturn, Restored
    <3>2. CASE ~partial
      BY <1>2, <3>2 DEF ForkReturn, hwVars, Config, Team
    <3> QED
      BY <3>1, <3>2
  <2>4. UNCHANGED <<handlers, maxThreads, numThreads>>
    BY <1>2 DEF ForkReturn, mhVars
  <2> QED
    BY <2>1, <2>2, <2>3, <2>4, CoreFacts DEF Config
<1>3. ASSUME NEW n \in HandlerCounts, OffloadStart(n) PROVE Config'
  <2>0. n \in Nat
    BY ClausesAssumption
  <2> DEFINE k == IF n < NumCores - 1 THEN n ELSE NumCores - 1
  <2>1. /\ pc[0] = "mailbox" /\ pc' = [pc EXCEPT ![0] = "serial"]
        /\ handlers' = k /\ maxThreads' = NumCores - k /\ numThreads' = NumCores - k
        /\ team_mask' = Cores /\ UNCHANGED <<nbThreads, bar_mask, partial, full>>
    BY <1>3 DEF OffloadStart
  <2>2. k \in 0 .. NumCores - 1
    BY <2>0, CoreFacts
  <2> HIDE DEF k
  <2>3. ~InRegion /\ ~partial /\ Team = Cores
    BY <2>1 DEF InRegion, Config, Team
  <2>4. ~InRegion' /\ Team' = Cores
    BY <2>1, <2>3, CoreFacts DEF InRegion, Team, Types
  <2> QED
    BY <2>1, <2>2, <2>3, <2>4, CoreFacts DEF Config
<1>4. CASE OffloadEnd
  <2>1. UNCHANGED <<numThreads, nbThreads, bar_mask, team_mask, maxThreads,
                    handlers, partial, body, full>>
    BY <1>4 DEF OffloadEnd, hwVars, boundVars
  <2>2. Team' = Team
    BY <2>1 DEF Team
  <2>3. ~InRegion /\ ~InRegion'
    BY <1>4, CoreFacts DEF OffloadEnd, InRegion, Types
  <2> QED
    BY <2>1, <2>2, <2>3 DEF Config
<1>5. ASSUME NEW n \in Clauses, NEW b \in Bodies, Fork(n, b) PROVE Config'
  BY <1>5, ForkFacts
<1>6. CASE UNCHANGED vars
  BY <1>6 DEF vars, hwVars, mhVars, boundVars, Config, Team, InRegion
<1> QED
  BY <1>1, <1>2, <1>3, <1>4, <1>5, <1>6 DEF Next

(***************************************************************************)
(* Part two: the threads and their places.                                  *)
(***************************************************************************)
\* TeamFacts after a step.
LEMMA TeamFactsNext ==
  ASSUME Config'
  PROVE  /\ Team' \subseteq Cores /\ 0 \in Team'
         /\ InRegion' => \A c \in Team' : ~Handling(c)'
         /\ ~Handling(0)'
<1>1. PICK h \in 0 .. NumCores - 1, n \in 1 .. NumCores :
         handlers' = h /\ nbThreads' = n
  BY DEF Config
<1>2. (partial' => n <= NumCores - h) /\ (InRegion' /\ ~partial' => h = 0)
  BY <1>1 DEF Config
<1>3. Team' = IF partial' THEN First(n) ELSE Cores
  BY <1>1 DEF Team, First
<1>4. Team' \subseteq Cores /\ 0 \in Team'
  BY <1>1, <1>3, CoreFacts DEF First
<1>5. ~Handling(0)'
  BY <1>1, CoreFacts DEF Handling
<1>6. ASSUME InRegion', NEW c \in Team' PROVE ~Handling(c)'
  <2>1. c \in Cores /\ c < NumCores - h
    BY <1>1, <1>2, <1>3, <1>4, <1>6, CoreFacts DEF First
  <2> QED
    BY <1>1, <2>1, CoreFacts DEF Handling
<1> QED
  BY <1>4, <1>5, <1>6

\* The place of a thread by its label.
LEMMA PlaceValues ==
  ASSUME NEW p \in Nat, NEW l, NEW q
  PROVE  /\ PlaceAt(p, l, q) \in Nat
         /\ PlaceAt(p, l, q) \in 3 * p .. 3 * p + 4
         /\ l \in {"next", "fini"} => PlaceAt(p, l, q) = 3 * p
         /\ l = "bar" => PlaceAt(p, l, q) = 3 * p + 1
         /\ l = "body" => PlaceAt(p, l, q) = 3 * p + 2
         /\ l = "exit" => PlaceAt(p, l, q) = 3 * p + 3
         /\ l = "return" => PlaceAt(p, l, q) = 3 * p + 4
         /\ l = "docked" /\ q = <<>> => PlaceAt(p, l, q) = 3 * p + 4
         /\ l = "docked" /\ q # <<>> => PlaceAt(p, l, q) = 3 * p + 2
BY DEF PlaceAt

\* A thread at the last place of a construct or behind it has left the region.
LEMMA PlaceLast ==
  ASSUME NEW p \in Nat, NEW l, NEW q, PlaceAt(p, l, q) > 3 * p + 3
  PROVE  /\ l \notin {"next", "fini", "bar", "body", "exit"}
         /\ l = "docked" => q = <<>>
BY DEF PlaceAt

\* The place of a thread that waits at a barrier tells which barrier it is.
LEMMA PlaceWaits ==
  ASSUME NEW p \in Nat, NEW l \in {"fini", "bar", "exit"}, NEW q
  PROVE  \E a \in {0, 1, 3} : /\ PlaceAt(p, l, q) = 3 * p + a
                              /\ a = 0 <=> l = "fini"
                              /\ a = 1 <=> l = "bar"
                              /\ a = 3 <=> l = "exit"
<1>1. CASE l = "fini"
  <2>1. PlaceAt(p, l, q) = 3 * p + 0
    BY <1>1 DEF PlaceAt
  <2> QED
    BY <1>1, <2>1
<1>2. CASE l = "bar"
  <2>1. PlaceAt(p, l, q) = 3 * p + 1
    BY <1>2 DEF PlaceAt
  <2> QED
    BY <1>2, <2>1
<1>3. CASE l = "exit"
  <2>1. PlaceAt(p, l, q) = 3 * p + 3
    BY <1>3 DEF PlaceAt
  <2> QED
    BY <1>3, <2>1
<1> QED
  BY <1>1, <1>2, <1>3

\* A step that moves one thread forward, and past no barrier, keeps the
\* threads together.
LEMMA Advance ==
  ASSUME Together, Team' = Team, body' = body, NEW c \in Team,
         \A d \in Team : Place(d) \in Nat /\ Place(d)' \in Nat,
         \A d \in Team : d # c => Place(d)' = Place(d),
         Place(c)' >= Place(c),
         \A v \in Nat : IsBarrier(v) => ~(Place(c) <= v /\ v < Place(c)')
  PROVE  Together'
<1>1. SUFFICES ASSUME NEW x \in Team, NEW y \in Team, NEW v \in Nat, IsBarrier(v)',
                      Place(x)' > v
               PROVE  Place(y)' > v
  BY DEF Together
<1>2. IsBarrier(v)
  BY <1>1 DEF IsBarrier
<1>3. Place(x) > v
  BY <1>1, <1>2
<1>4. Place(y) > v
  BY <1>2, <1>3 DEF Together
<1> QED
  BY <1>4

\* A thread that runs ahead of a barrier has taken all others along.
LEMMA BehindBarrier ==
  ASSUME Together, NEW c \in Team, NEW d \in Team, NEW v \in Nat, IsBarrier(v),
         Place(c) \in Nat, Place(d) \in Nat, Place(c) <= v
  PROVE  Place(d) <= v
BY DEF Together

\* The places of threads are numbers.
LEMMA PlaceNat ==
  ASSUME Types, NEW c \in Cores
  PROVE  Place(c) \in Nat /\ Place(c) \in 3 * pos[c] .. 3 * pos[c] + 4
<1>1. pos[c] \in Nat
  BY DEF Types
<1> QED
  BY <1>1, PlaceValues DEF Place

\* The same after a step.
LEMMA PlaceNatNext ==
  ASSUME Types', NEW c \in Cores
  PROVE  Place(c)' \in Nat /\ Place(c)' \in 3 * pos'[c] .. 3 * pos'[c] + 4
<1>1. pos'[c] \in Nat
  BY DEF Types
<1> QED
  BY <1>1, PlaceValues DEF Place

\* When core 0 has left the final barrier of a region, every other core has,
\* too.
LEMMA AllFinished ==
  ASSUME Types, Config, Places, pc[0] = "return"
  PROVE  /\ \A c \in Team : pos[c] = Len(body) /\ pc[c] # "next"
         /\ \A c \in Team \ {0} : Idle(c)
<1>0. InRegion /\ Together /\ (\A c \in Team : Thread(c)) /\ 0 \in Team /\ Team \subseteq Cores
  BY TeamFacts DEF Places, InRegion
<1>1. Len(body) \in Nat
  BY BodyFacts DEF Types
<1>2. Place(0) = 3 * Len(body) + 4
  BY <1>0, <1>1, PlaceValues DEF Thread, Place
<1>3. IsBarrier(3 * Len(body) + 3)
  BY DEF IsBarrier
<1>4. ASSUME NEW c \in Team PROVE Place(c) > 3 * Len(body) + 3
  BY <1>0, <1>1, <1>2, <1>3 DEF Together
<1>5. ASSUME NEW c \in Team
      PROVE  pos[c] = Len(body) /\ pc[c] # "next" /\ (c # 0 => Idle(c))
  <2>1. pos[c] \in Nat /\ pos[c] <= Len(body) /\ Thread(c)
    BY <1>0, <1>1 DEF Thread
  <2>2. PlaceAt(pos[c], pc[c], queue[c]) > 3 * pos[c] + 3
    BY <1>1, <1>4, <2>1, PlaceValues DEF Place
  <2>3. /\ pc[c] \notin {"next", "fini", "bar", "body", "exit"}
        /\ pc[c] = "docked" => queue[c] = <<>>
    BY <2>1, <2>2, PlaceLast
  <2>4. pc[c] = "docked" \/ (pc[c] = "return" /\ c = 0)
    BY <2>1, <2>3 DEF Thread
  <2>5. pos[c] = Len(body)
    BY <1>1, <1>4, <2>1, <2>3, <2>4, PlaceValues DEF Thread, Place
  <2> QED
    BY <2>3, <2>4, <2>5 DEF Idle
<1> QED
  BY <1>5
\* Which places between two constructs are barriers.
LEMMA BarrierPlaces ==
  ASSUME Types, NEW v \in Nat, IsBarrier(v), NEW p \in 0 .. Len(body)
  PROVE  /\ v # 3 * p + 2
         /\ v = 3 * p /\ p > 0 => body[p].kind = "static"
         /\ v = 3 * p + 1 /\ p > 0 => ~body[p].nowait
<1>1. Len(body) \in Nat
  BY BodyFacts DEF Types
<1>2. CASE v = 3 * Len(body) + 3
  BY <1>1, <1>2
<1>3. CASE \E k \in 1 .. Len(body) : \/ v = 3 * k /\ body[k].kind = "static"
                                     \/ v = 3 * k + 1 /\ ~body[k].nowait
  <2>1. PICK k \in 1 .. Len(body) : \/ v = 3 * k /\ body[k].kind = "static"
                                    \/ v = 3 * k + 1 /\ ~body[k].nowait
    BY <1>3
  <2>2. v = 3 * p => k = p
    BY <2>1, <1>1
  <2>3. v = 3 * p + 1 => k = p
    BY <2>1, <1>1
  <2> QED
    BY <1>1, <2>1, <2>2, <2>3
<1> QED
  BY <1>2, <1>3 DEF IsBarrier

\* A thread at a barrier, and the place it goes to.
Clear(a, z) == \A v \in Nat : IsBarrier(v) => ~(a <= v /\ v < z)

\* A step of a thread that releases no barrier: the thread stays one, moves
\* forward and past no barrier; the others stay where they are.
Moves(c) ==
  /\ \A d \in Cores : d # c => /\ pc'[d] = pc[d] /\ pos'[d] = pos[d]
                               /\ queue'[d] = queue[d]
  /\ Thread(c)'
  /\ Place(c)' >= Place(c)
  /\ Clear(Place(c), Place(c)')

\* A thread that goes on behind construct k: at its barrier, unless it has
\* none.
LEMMA GoesOn ==
  ASSUME Types, NEW c \in Cores, NEW k \in 1 .. Len(body), body' = body,
         pos' \in [Cores -> Nat], pos'[c] = k, pc'[c] = After(k),
         queue'[c] = <<>>, NEW a \in Nat, a \in 3 * k - 1 .. 3 * k,
         Place(c) = a, body[k].kind # "static"
  PROVE  /\ Thread(c)' /\ Place(c)' >= Place(c) /\ Clear(Place(c), Place(c)')
<1>0. Len(body) \in Nat
  BY BodyFacts DEF Types
<1>1. CASE body[k].nowait
  <2>1. pc'[c] = "body"
    BY <1>1 DEF After, Construct
  <2>2. Place(c)' = 3 * k + 2
    BY <1>0, <2>1, PlaceValues DEF Place
  <2>3. Thread(c)'
    BY <1>0, <2>1 DEF Thread
  <2>4. Clear(a, 3 * k + 2)
    <3> SUFFICES ASSUME NEW v \in Nat, IsBarrier(v), a <= v, v < 3 * k + 2 PROVE FALSE
      BY DEF Clear
    <3>1. k \in Nat /\ k >= 1 /\ k <= Len(body)
      BY <1>0
    <3>4. v >= 3 * k - 1 /\ v <= 3 * k + 1
      BY <3>1
    <3>5. v \in {3 * (k - 1) + 2, 3 * k, 3 * k + 1}
      BY <3>1, <3>4
    <3>6. k - 1 \in 0 .. Len(body) /\ k \in 0 .. Len(body)
      BY <1>0, <3>1
    <3>2. v # 3 * (k - 1) + 2
      BY <3>6, BarrierPlaces
    <3>3. v # 3 * k /\ v # 3 * k + 1
      BY <1>1, <3>1, <3>6, BarrierPlaces
    <3> QED
      BY <3>5, <3>2, <3>3
  <2> QED
    BY <2>2, <2>3, <2>4
<1>2. CASE ~body[k].nowait
  <2>1. pc'[c] = "bar"
    BY <1>2 DEF After, Construct
  <2>2. Place(c)' = 3 * k + 1
    BY <1>0, <2>1, PlaceValues DEF Place
  <2>3. Thread(c)'
    BY <1>0, <1>2, <2>1 DEF Thread
  <2>4. Clear(a, 3 * k + 1)
    <3> SUFFICES ASSUME NEW v \in Nat, IsBarrier(v), a <= v, v < 3 * k + 1 PROVE FALSE
      BY DEF Clear
    <3>1. v \in {3 * (k - 1) + 2, 3 * k} /\ k - 1 \in 0 .. Len(body) /\ k \in 0 .. Len(body)
      BY <1>0
    <3>2. v # 3 * (k - 1) + 2
      BY <3>1, BarrierPlaces
    <3>3. v # 3 * k
      BY <3>1, BarrierPlaces
    <3> QED
      BY <3>1, <3>2, <3>3
  <2> QED
    BY <2>2, <2>3, <2>4
<1> QED
  BY <1>1, <1>2

\* The step of a thread that releases no barrier.
LEMMA ThreadMoves ==
  ASSUME Types, Types', Config, Places, InRegion, NEW c \in Team, Step(c),
         Barrier(c) => arrived \cup {c} # bar_mask
  PROVE  Moves(c)
<1>0. /\ Len(body) \in Nat /\ c \in Cores /\ Thread(c) /\ ~Handling(c) /\ body' = body
      /\ pc \in [Cores -> Labels] /\ pos \in [Cores -> Nat]
      /\ queue \in [Cores -> Seq(Entries)] /\ pos' \in [Cores -> Nat]
  BY BodyFacts, TeamFacts, StepFrame DEF Types, Places
<1>1. PICK p \in 0 .. Len(body) : pos[c] = p
  BY <1>0 DEF Thread
<1>2. CASE Wake(c)
  <2>1. pc[c] = "docked" /\ queue[c] # <<>> /\ p = 0 /\ queue[c] = <<"task">> /\ pos' = pos
    BY <1>0, <1>1, <1>2 DEF Thread, Wake
  <2>2. pc' = [pc EXCEPT ![c] = "body"] /\ queue'[c] = <<>>
    BY <1>0, <1>2, <2>1 DEF Wake
  <2>3. \A d \in Cores : d # c => pc'[d] = pc[d] /\ queue'[d] = queue[d]
    BY <1>0, <1>2 DEF Wake
  <2>4. Place(c) = 2 /\ Place(c)' = 2
    <3>1. PlaceAt(0, "docked", <<"task">>) = 2 /\ PlaceAt(0, "body", <<>>) = 2
      <4>1. ASSUME NEW q, q # <<>> PROVE PlaceAt(0, "docked", q) = 2
        BY <4>1, PlaceValues
      <4>2. <<"task">> # <<>>
        OBVIOUS
      <4>3. PlaceAt(0, "docked", <<"task">>) = 2
        BY <4>1, <4>2
      <4> QED
        BY <4>3, PlaceValues
    <3> QED
      BY <1>0, <1>1, <2>1, <2>2, <3>1 DEF Place
  <2>5. Thread(c)'
    BY <1>0, <1>1, <2>1, <2>2 DEF Thread
  <2> QED
    BY <2>1, <2>3, <2>4, <2>5 DEF Moves, Clear
<1>3. CASE HandlerDone(c)
  BY <1>0, <1>3 DEF HandlerDone, Thread
<1>4. CASE TaskDone(c)
  <2>1. /\ pc[c] = "body" /\ p = Len(body) /\ pos' = pos /\ queue' = queue
        /\ pc' = [pc EXCEPT ![c] = "exit"] /\ queue[c] = <<>>
    BY <1>0, <1>1, <1>4 DEF TaskDone, Thread
  <2>2. Place(c) = 3 * p + 2 /\ Place(c)' = 3 * p + 3
    BY <1>0, <1>1, <2>1, PlaceValues DEF Place
  <2>3. Clear(3 * p + 2, 3 * p + 3)
    BY <1>0, <1>1, BarrierPlaces DEF Clear
  <2>4. Thread(c)'
    BY <1>0, <1>1, <2>1 DEF Thread
  <2> QED
    BY <1>0, <2>1, <2>2, <2>3, <2>4 DEF Moves
<1>5. CASE Barrier(c)
  <2>1. UNCHANGED <<pc, pos, queue>>
    BY <1>5 DEF Barrier
  <2>2. Place(c)' = Place(c) /\ Thread(c)'
    BY <1>0, <2>1 DEF Place, Thread
  <2>3. Place(c) \in Nat
    BY <1>0, PlaceNat
  <2> QED
    BY <2>1, <2>2, <2>3 DEF Moves, Clear
<1>6. ASSUME NEW kind, Enters(c, kind)
      PROVE  /\ p + 1 \in 1 .. Len(body) /\ pos'[c] = p + 1 /\ body[p + 1].kind = kind
             /\ \A d \in Cores : d # c => pos'[d] = pos[d]
             /\ pc[c] = "body" /\ queue[c] = <<>> /\ Place(c) = 3 * (p + 1) - 1
  <2>1. /\ p + 1 \in 1 .. Len(body) /\ pos'[c] = p + 1 /\ body[p + 1].kind = kind
        /\ \A d \in Cores : d # c => pos'[d] = pos[d]
        /\ pc[c] = "body"
    BY <1>0, <1>1, <1>6, EntersFacts
  <2>2. queue[c] = <<>>
    BY <1>0, <2>1 DEF Thread
  <2>3. Place(c) = 3 * p + 2
    BY <1>0, <1>1, <2>1, PlaceValues DEF Place
  <2> QED
    BY <2>1, <2>2, <2>3
<1>7. CASE SingleStart(c)
  <2>1. Enters(c, "single") /\ queue' = queue /\ pc' = [pc EXCEPT ![c] = After(p + 1)]
    BY <1>1, <1>7 DEF SingleStart
  <2>2. /\ p + 1 \in 1 .. Len(body) /\ pos'[c] = p + 1 /\ body[p + 1].kind = "single"
        /\ \A d \in Cores : d # c => pos'[d] = pos[d]
        /\ pc[c] = "body" /\ queue[c] = <<>> /\ Place(c) = 3 * (p + 1) - 1
    BY <1>6, <2>1
  <2>3. pc'[c] = After(p + 1) /\ queue'[c] = <<>> /\ body[p + 1].kind # "static"
    BY <1>0, <2>1, <2>2
  <2>4. 3 * (p + 1) - 1 \in Nat /\ 3 * (p + 1) - 1 \in 3 * (p + 1) - 1 .. 3 * (p + 1)
    BY <1>1
  <2>5. /\ Thread(c)' /\ Place(c)' >= Place(c) /\ Clear(Place(c), Place(c)')
    BY <1>0, <2>2, <2>3, <2>4, GoesOn
  <2> QED
    BY <1>0, <2>1, <2>2, <2>5 DEF Moves
<1>8. ASSUME NEW l \in {"next", "fini"}, NEW kind,
             Enters(c, kind), pc' = [pc EXCEPT ![c] = l], queue' = queue,
             kind = IF l = "next" THEN "dynamic" ELSE "static"
      PROVE  Moves(c)
  <2>2. /\ p + 1 \in 1 .. Len(body) /\ pos'[c] = p + 1 /\ body[p + 1].kind = kind
        /\ \A d \in Cores : d # c => pos'[d] = pos[d]
        /\ pc[c] = "body" /\ queue[c] = <<>> /\ Place(c) = 3 * (p + 1) - 1
    BY <1>6, <1>8
  <2>3. pc'[c] = l /\ queue'[c] = <<>>
    BY <1>0, <1>8, <2>2
  <2>4. Place(c)' = 3 * (p + 1)
    <3>1. p + 1 \in Nat /\ PlaceAt(p + 1, l, <<>>) = 3 * (p + 1)
      BY <1>1, <1>8, PlaceValues
    <3> QED
      BY <2>2, <2>3, <3>1 DEF Place
  <2>5. Thread(c)'
    BY <1>0, <1>8, <2>2, <2>3 DEF Thread
  <2>6. Clear(3 * (p + 1) - 1, 3 * (p + 1))
    <3> SUFFICES ASSUME NEW v \in Nat, IsBarrier(v), 3 * (p + 1) - 1 <= v, v < 3 * (p + 1)
                 PROVE  FALSE
      BY DEF Clear
    <3>1. v # 3 * p + 2
      BY <1>1, BarrierPlaces
    <3> QED
      BY <1>1, <3>1
  <2> QED
    BY <1>0, <1>1, <1>8, <2>2, <2>4, <2>5, <2>6 DEF Moves
<1>9. CASE DispatchInit(c)
  BY <1>9, <1>8 DEF DispatchInit
<1>10. CASE ForStatic(c)
  BY <1>10, <1>8 DEF ForStatic
<1>11. CASE DispatchNext(c)
  <2>1. pc[c] = "next" /\ pos' = pos /\ queue' = queue
    BY <1>11 DEF DispatchNext
  <2>2. queue[c] = <<>> /\ p \in 1 .. Len(body) /\ body[p].kind = "dynamic"
    BY <1>0, <1>1, <2>1 DEF Thread
  <2>3. Place(c) = 3 * p /\ 3 * p \in Nat /\ 3 * p \in 3 * p - 1 .. 3 * p
    BY <1>0, <1>1, <2>1, PlaceValues DEF Place
  <2>4. CASE pc' = pc
    <3>1. Place(c)' = Place(c) /\ Thread(c)'
      BY <1>0, <2>1, <2>4 DEF Place, Thread
    <3> QED
      BY <2>1, <2>3, <2>4, <3>1 DEF Moves, Clear
  <2>5. CASE pc' = [pc EXCEPT ![c] = After(p)]
    <3>1. pc'[c] = After(p) /\ queue'[c] = <<>> /\ pos'[c] = p /\ body[p].kind # "static"
      BY <1>0, <1>1, <2>1, <2>2, <2>5
    <3>2. Thread(c)' /\ Place(c)' >= Place(c) /\ Clear(Place(c), Place(c)')
      BY <1>0, <2>2, <2>3, <3>1, GoesOn
    <3> QED
      BY <1>0, <2>1, <2>5, <3>2 DEF Moves
  <2> QED
    BY <1>1, <1>11, <2>4, <2>5 DEF DispatchNext
<1> QED
  BY <1>2, <1>3, <1>4, <1>5, <1>7, <1>9, <1>10, <1>11 DEF Step
\* A barrier is released when every thread of the region waits at it: at the
\* same one, as no thread has passed a barrier without the others.
LEMMA Release ==
  ASSUME Types, Config, Places, NEW c \in Cores, Barrier(c),
         arrived \cup {c} = bar_mask
  PROVE  /\ InRegion /\ Team = arrived \cup {c}
         /\ \E l \in {"fini", "bar", "exit"}, p \in 0 .. Len(body) :
              \A d \in Team : pc[d] = l /\ pos[d] = p
<1>1. Team = arrived \cup {c} /\ 0 \in Team /\ Team \subseteq Cores
  BY TeamFacts DEF Config
<1>2. \A d \in Team : pc[d] \in {"fini", "bar", "exit"}
  BY <1>1 DEF Barrier, Places
<1>3. InRegion
  BY <1>1, <1>2 DEF InRegion
<1>4. Together /\ (\A d \in Team : Thread(d)) /\ Len(body) \in Nat
      /\ c \in Team /\ pos \in [Cores -> Nat]
  BY <1>1, <1>3, BodyFacts DEF Places, Types
<1>5. ASSUME NEW d \in Team PROVE IsBarrier(Place(d)) /\ Place(d) \in Nat
  <2>1. PICK p \in 0 .. Len(body) : pos[d] = p
    BY <1>4 DEF Thread
  <2>2. /\ pc[d] = "fini" => p > 0 /\ body[p].kind = "static"
        /\ pc[d] = "bar" => p > 0 /\ ~body[p].nowait
        /\ pc[d] = "exit" => p = Len(body)
    BY <1>4, <2>1 DEF Thread
  <2>3. CASE pc[d] = "fini"
    <3>1. Place(d) = 3 * p
      BY <1>4, <2>1, <2>3, PlaceValues DEF Place
    <3> QED
      BY <1>4, <2>1, <2>2, <2>3, <3>1 DEF IsBarrier
  <2>4. CASE pc[d] = "bar"
    <3>1. Place(d) = 3 * p + 1
      BY <1>4, <2>1, <2>4, PlaceValues DEF Place
    <3> QED
      BY <1>4, <2>1, <2>2, <2>4, <3>1 DEF IsBarrier
  <2>5. CASE pc[d] = "exit"
    <3>1. Place(d) = 3 * Len(body) + 3
      BY <1>4, <2>1, <2>2, <2>5, PlaceValues DEF Place
    <3> QED
      BY <1>4, <3>1 DEF IsBarrier
  <2> QED
    BY <1>2, <2>3, <2>4, <2>5
<1>6. ASSUME NEW d \in Team PROVE Place(d) = Place(c)
  <2>1. ~(Place(d) > Place(c))
    BY <1>4, <1>5 DEF Together
  <2>2. ~(Place(c) > Place(d))
    BY <1>4, <1>5 DEF Together
  <2> QED
    BY <1>4, <1>5, <2>1, <2>2
<1>7. ASSUME NEW d \in Team PROVE pc[d] = pc[c] /\ pos[d] = pos[c]
  <2>1. PICK p \in 0 .. Len(body), x \in 0 .. Len(body) : pos[d] = p /\ pos[c] = x
    BY <1>4 DEF Thread
  <2>2. /\ PlaceAt(p, pc[d], queue[d]) = PlaceAt(x, pc[c], queue[c])
        /\ pc[d] = "exit" => p = Len(body)
        /\ pc[c] = "exit" => x = Len(body)
    BY <1>4, <1>6, <2>1 DEF Place, Thread
  <2>3. p \in Nat /\ x \in Nat /\ p <= Len(body) /\ x <= Len(body)
    BY <1>4
  <2>4. PICK a \in {0, 1, 3} : /\ PlaceAt(p, pc[d], queue[d]) = 3 * p + a
                               /\ a = 0 <=> pc[d] = "fini"
                               /\ a = 1 <=> pc[d] = "bar"
                               /\ a = 3 <=> pc[d] = "exit"
    <3>1. pc[d] \in {"fini", "bar", "exit"}
      BY <1>2
    <3> QED
      BY <2>3, <3>1, PlaceWaits
  <2>5. PICK b \in {0, 1, 3} : /\ PlaceAt(x, pc[c], queue[c]) = 3 * x + b
                               /\ b = 0 <=> pc[c] = "fini"
                               /\ b = 1 <=> pc[c] = "bar"
                               /\ b = 3 <=> pc[c] = "exit"
    <3>1. pc[c] \in {"fini", "bar", "exit"}
      BY <1>2, <1>4
    <3> QED
      BY <2>3, <3>1, PlaceWaits
  <2>6. 3 * p + a = 3 * x + b
    BY <2>2, <2>4, <2>5
  <2>7. a = b /\ p = x
    BY <1>4, <2>2, <2>3, <2>4, <2>5, <2>6
  <2> QED
    BY <1>2, <1>4, <2>1, <2>4, <2>5, <2>7
<1>8. pos[c] \in 0 .. Len(body) /\ pc[c] \in {"fini", "bar", "exit"}
  BY <1>2, <1>4 DEF Thread
<1> QED
  BY <1>1, <1>3, <1>7, <1>8

\* What a released barrier does to the threads: they stay together.
LEMMA Released ==
  ASSUME Types, Config, Places, NEW c \in Cores, Barrier(c),
         arrived \cup {c} = bar_mask
  PROVE  /\ UNCHANGED <<pos, queue, body>> /\ Team' = Team
         /\ \A d \in Cores \ Team : pc'[d] = pc[d]
         /\ \A d \in Team : Thread(d)' /\ pc'[d] # "next" /\ pc[d] # "next"
         /\ Together'
<1>1. PICK l \in {"fini", "bar", "exit"}, p \in 0 .. Len(body) :
         \A d \in Team : pc[d] = l /\ pos[d] = p
  BY Release
<1>2. /\ InRegion /\ Team = arrived \cup {c} /\ Team \subseteq Cores
      /\ \A d \in Team : Thread(d)
  BY Release, TeamFacts DEF Places
<1>3. /\ UNCHANGED <<pos, queue, body>>
      /\ pc' = [d \in Cores |-> IF d \in Team THEN AfterBarrier(d) ELSE pc[d]]
  BY <1>2 DEF Barrier
<1>4. Team' = Team
  BY StepFrame DEF Step
<1>5. PICK a \in Nat : a = Len(body)
  BY BodyFacts DEF Types
<1>6. CASE l = "exit"
  <2>1. ASSUME NEW d \in Team
        PROVE  /\ pc'[d] = IF d = 0 THEN "return" ELSE "docked"
               /\ queue'[d] = <<>> /\ pos'[d] = a
    BY <1>1, <1>2, <1>3, <1>5, <1>6, <2>1 DEF AfterBarrier, Thread
  <2>2. ASSUME NEW d \in Team PROVE Thread(d)' /\ Place(d)' = 3 * a + 4 /\ pc'[d] # "next"
    <3>1. Place(d)' = 3 * a + 4
      <4>1. PlaceAt(a, "return", <<>>) = 3 * a + 4 /\ PlaceAt(a, "docked", <<>>) = 3 * a + 4
        BY PlaceValues
      <4> QED
        BY <2>1, <4>1 DEF Place
    <3> QED
      BY <1>2, <1>3, <1>5, <2>1, <3>1 DEF Thread
  <2>3. Together'
    BY <1>4, <2>2 DEF Together
  <2> QED
    BY <1>1, <1>2, <1>3, <1>4, <1>6, <2>2, <2>3
<1>7. CASE l # "exit"
  <2>1. p > 0 /\ queue[c] = <<>> /\ c \in Team
        /\ (l = "fini" => body[p].kind = "static") /\ (l = "bar" => ~body[p].nowait)
    BY <1>1, <1>2, <1>7 DEF Thread
  <2> DEFINE m == IF l = "fini" /\ ~body[p].nowait THEN "bar" ELSE "body"
             z == IF m = "bar" THEN 3 * p + 1 ELSE 3 * p + 2
  <2>2. ASSUME NEW d \in Team
        PROVE  /\ pc'[d] = m /\ queue'[d] = <<>> /\ pos'[d] = p
    <3>1. AfterBarrier(d) = m
      BY <1>1, <1>7, <2>2 DEF AfterBarrier, After, Construct
    <3> QED
      BY <1>1, <1>2, <1>3, <1>7, <2>2, <3>1 DEF Thread
  <2>3. m \in {"bar", "body"} /\ (m = "bar" => ~body[p].nowait)
    OBVIOUS
  <2>4. z = PlaceAt(p, m, <<>>) /\ z \in Nat
    BY <2>3, PlaceValues
  <2> HIDE DEF m, z
  <2>5. ASSUME NEW d \in Team PROVE Thread(d)' /\ Place(d)' = z /\ pc'[d] # "next"
    <3>1. Place(d)' = z
      BY <2>2, <2>4 DEF Place
    <3>2. Thread(d)'
      BY <1>3, <1>5, <2>1, <2>2, <2>3 DEF Thread
    <3> QED
      BY <2>2, <2>3, <3>1, <3>2
  <2>6. Together'
    BY <1>4, <2>5 DEF Together
  <2> QED
    BY <1>1, <1>2, <1>3, <1>4, <1>7, <2>5, <2>6
<1> QED
  BY <1>6, <1>7
\* A core that is no thread of a region and takes a step handles misses, and
\* only its own state and the set of cores at the barrier change.
LEMMA OutsiderStep ==
  ASSUME Types, Config, Places, NEW c \in Cores, Step(c), ~(InRegion /\ c \in Team)
  PROVE  /\ Handling(c) /\ c # 0
         /\ UNCHANGED <<pos, body, handed, core_epoch, loop_epoch, loop, loop_is_setup>>
         /\ \A d \in Cores : d # c => pc'[d] = pc[d] /\ queue'[d] = queue[d]
         /\ pc[c] \in {"docked", "handling", "exit"}
         /\ pc'[c] \in {"docked", "handling", "exit"}
         /\ queue'[c] \in Seq({"handler"})
         /\ \/ arrived' = arrived /\ pc[c] # "exit"
            \/ arrived' = arrived \cup {c} /\ pc[c] = "exit" /\ pc' = pc
<1>1. pc[c] \notin {"mailbox", "serial", "return"}
  BY DEF Step, Wake, HandlerDone, TaskDone, Barrier, SingleStart, DispatchInit,
         DispatchNext, ForStatic, Enters
<1>2. c # 0
  BY <1>1, TeamFacts DEF InRegion
<1>3. ~Idle(c)
  BY DEF Idle, Step, Wake, HandlerDone, TaskDone, Barrier, SingleStart, DispatchInit,
         DispatchNext, ForStatic, Enters
<1>4. Handling(c)
  BY <1>2, <1>3 DEF Places
<1>5. pc[c] \in {"docked", "handling", "exit"} /\ queue[c] \in Seq({"handler"})
  BY <1>4 DEF Places
<1>6. pc \in [Cores -> Labels] /\ queue \in [Cores -> Seq(Entries)]
  BY DEF Types
<1>7. CASE Wake(c)
  <2>1. /\ UNCHANGED <<pos, body, handed, core_epoch, loop_epoch, loop, loop_is_setup, arrived>>
        /\ pc[c] = "docked" /\ queue[c] # <<>>
        /\ queue' = [queue EXCEPT ![c] = Tail(queue[c])]
        /\ pc' = [pc EXCEPT ![c] = IF Head(queue[c]) = "task" THEN "body" ELSE "handling"]
    BY <1>7 DEF Wake, epochVars, loopVars
  <2>2. Tail(queue[c]) \in Seq({"handler"}) /\ Head(queue[c]) \in {"handler"}
    BY <1>5, <2>1
  <2> QED
    BY <1>2, <1>4, <1>5, <1>6, <2>1, <2>2
<1>8. CASE HandlerDone(c)
  <2>1. /\ UNCHANGED <<pos, body, handed, core_epoch, loop_epoch, loop, loop_is_setup,
                       arrived, queue>>
        /\ pc[c] = "handling" /\ pc' = [pc EXCEPT ![c] = "exit"]
    BY <1>8 DEF HandlerDone, epochVars, loopVars
  <2> QED
    BY <1>2, <1>4, <1>5, <1>6, <2>1
<1>9. CASE Barrier(c)
  <2>1. arrived \cup {c} # bar_mask
    <3> SUFFICES ASSUME arrived \cup {c} = bar_mask PROVE FALSE
      OBVIOUS
    <3>1. InRegion /\ Team = arrived \cup {c}
      BY <1>9, Release
    <3> QED
      BY <3>1
  <2>2. /\ UNCHANGED <<pos, body, handed, core_epoch, loop_epoch, loop, loop_is_setup,
                       pc, queue>>
        /\ arrived' = arrived \cup {c} /\ pc[c] \in {"fini", "bar", "exit"}
    BY <1>9, <2>1 DEF Barrier, epochVars, loopVars
  <2> QED
    BY <1>2, <1>4, <1>5, <1>6, <2>2
<1> QED
  BY <1>5, <1>7, <1>8, <1>9 DEF Step, TaskDone, SingleStart, DispatchInit,
                                DispatchNext, ForStatic, Enters

\* Only a core at a barrier is counted there.
LEMMA ArrivedStep ==
  ASSUME Types, Config, Places, NEW c \in Cores, Step(c)
  PROVE  \A d \in arrived' : pc'[d] \in {"fini", "bar", "exit"}
<1>1. /\ \A d \in arrived : pc[d] \in {"fini", "bar", "exit"}
      /\ pc \in [Cores -> Labels] /\ arrived \subseteq Cores
  BY DEF Places, Types
<1>2. CASE Barrier(c)
  <2>1. CASE arrived \cup {c} = bar_mask
    BY <1>2, <2>1 DEF Barrier
  <2>2. CASE arrived \cup {c} # bar_mask
    BY <1>1, <1>2, <2>2 DEF Barrier
  <2> QED
    BY <2>1, <2>2
<1>3. CASE ~Barrier(c)
  <2>1. arrived' = arrived /\ pc[c] \notin {"fini", "bar", "exit"}
    BY <1>3 DEF Step, Wake, HandlerDone, TaskDone, SingleStart, DispatchInit,
                DispatchNext, ForStatic, Enters
  <2>2. \A d \in Cores : d # c => pc'[d] = pc[d]
    BY <1>1, <1>3 DEF Step, Wake, HandlerDone, TaskDone, SingleStart, DispatchInit,
                      DispatchNext, ForStatic
  <2> QED
    BY <1>1, <2>1, <2>2
<1> QED
  BY <1>2, <1>3
\* Part two is preserved by the steps of the cores.
LEMMA PlacesStepCore ==
  ASSUME Types, Types', Config, Places, NEW c \in Cores, Step(c) PROVE Places'
<1>0. /\ UNCHANGED <<handlers, body>> /\ Team' = Team /\ InRegion' = InRegion
      /\ Team \subseteq Cores /\ 0 \in Team
  BY StepFrame, TeamFacts
<1>1. \A d \in arrived' : pc'[d] \in {"fini", "bar", "exit"}
  BY ArrivedStep
<1>2. CASE ~(InRegion /\ c \in Team)
  <2>1. /\ Handling(c) /\ c # 0
        /\ UNCHANGED <<pos, handed>>
        /\ \A d \in Cores : d # c => pc'[d] = pc[d] /\ queue'[d] = queue[d]
        /\ pc'[c] \in {"docked", "handling", "exit"}
        /\ queue'[c] \in Seq({"handler"})
    BY <1>2, OutsiderStep
  <2>2. \A d \in Cores : Handling(d)' => /\ pc'[d] \in {"docked", "handling", "exit"}
                                         /\ queue'[d] \in Seq({"handler"})
    BY <1>0, <2>1 DEF Places, Handling
  <2>3. queue'[0] = <<>>
    BY <2>1, CoreFacts DEF Places
  <2>4. CASE InRegion
    <3>1. \A d \in Team : Thread(d)'
      BY <1>0, <1>2, <2>1, <2>4 DEF Places, Thread
    <3>2. \A d \in Cores \ Team : ~Handling(d)' => Idle(d)'
      BY <1>0, <1>2, <2>1, <2>4 DEF Places, Idle, Handling
    <3>3. \A d \in Team : Place(d)' = Place(d)
      BY <1>0, <1>2, <2>1, <2>4 DEF Place
    <3>4. \A v \in Nat : IsBarrier(v)' <=> IsBarrier(v)
      BY <1>0 DEF IsBarrier
    <3>5. Together'
      BY <1>0, <2>4, <3>3, <3>4 DEF Places, Together
    <3> QED
      BY <1>0, <1>1, <2>2, <2>3, <2>4, <3>1, <3>2, <3>5 DEF Places
  <2>5. CASE ~InRegion
    <3>1. \A d \in Cores \ {0} : ~Handling(d)' => Idle(d)'
      BY <1>0, <2>1, <2>5 DEF Places, Idle, Handling
    <3> QED
      BY <1>0, <1>1, <2>1, <2>2, <2>3, <2>5, <3>1 DEF Places
  <2> QED
    BY <2>4, <2>5
<1>3. ASSUME InRegion, c \in Team,
             \A d \in Cores \ Team : pc'[d] = pc[d] /\ queue'[d] = queue[d],
             \A d \in Team : Thread(d)', Together'
      PROVE  Places'
  <2>1. \A d \in Team : ~Handling(d)
    BY <1>3, TeamFacts
  <2>2. \A d \in Cores : Handling(d)' => /\ pc'[d] \in {"docked", "handling", "exit"}
                                         /\ queue'[d] \in Seq({"handler"})
    BY <1>0, <1>3, <2>1 DEF Places, Handling
  <2>3. \A d \in Cores \ Team : ~Handling(d)' => Idle(d)'
    BY <1>0, <1>3 DEF Places, Idle, Handling
  <2>4. queue'[0] = <<>>
    BY <1>0, <1>3 DEF Thread
  <2> QED
    BY <1>0, <1>1, <1>3, <2>2, <2>3, <2>4 DEF Places
<1>4. CASE InRegion /\ c \in Team /\ Barrier(c) /\ arrived \cup {c} = bar_mask
  BY <1>3, <1>4, Released
<1>5. CASE InRegion /\ c \in Team /\ (Barrier(c) => arrived \cup {c} # bar_mask)
  <2>1. Moves(c)
    BY <1>5, ThreadMoves
  <2>2. \A d \in Cores : d # c => pc'[d] = pc[d] /\ pos'[d] = pos[d] /\ queue'[d] = queue[d]
    BY <2>1 DEF Moves
  <2>3. \A d \in Team : d # c => Thread(d)'
    BY <1>0, <1>5, <2>2 DEF Places, Thread
  <2>4. Thread(c)'
    BY <2>1 DEF Moves
  <2>5. \A d \in Team : d # c => Place(d)' = Place(d)
    BY <1>0, <2>2 DEF Place
  <2>6. \A d \in Team : Place(d) \in Nat /\ Place(d)' \in Nat
    BY <1>0, PlaceNat, PlaceNatNext
  <2>7. Together'
    <3>1. Together /\ c \in Team
      BY <1>5 DEF Places
    <3>2. Place(c)' >= Place(c)
      BY <2>1 DEF Moves
    <3>3. \A v \in Nat : IsBarrier(v) => ~(Place(c) <= v /\ v < Place(c)')
      BY <2>1 DEF Moves, Clear
    <3> QED
      BY <1>0, <2>5, <2>6, <3>1, <3>2, <3>3, Advance
  <2> QED
    BY <1>0, <1>3, <1>5, <2>2, <2>3, <2>4, <2>7
<1> QED
  BY <1>2, <1>4, <1>5

\* Outside a region every core but core 0 that does not handle misses is idle;
\* Fork makes a thread of each core of the team.
LEMMA PlacesFork ==
  ASSUME ~Mixed, Types, Types', Config, Places,
         NEW n \in Clauses, NEW b \in Bodies, Fork(n, b)
  PROVE  Places'
<1>1. /\ pc[0] = "serial" /\ ~partial /\ Config' /\ InRegion' /\ UNCHANGED handlers
  BY ForkFacts
<1>2. Team' \subseteq Cores /\ 0 \in Team' /\ (\A c \in Team' : ~Handling(c)') /\ team_mask' = Team'
  BY <1>1, TeamFactsNext DEF Config
<1>3. ~InRegion
  BY <1>1 DEF InRegion
<1>4. \A c \in Cores \ {0} : ~Handling(c) => Idle(c)
  BY <1>3 DEF Places
<1>5. /\ pc' = [pc EXCEPT ![0] = "body"] /\ pos' = [c \in Cores |-> 0] /\ body' = b
      /\ arrived' = arrived
      /\ queue' = [c \in Cores |-> IF c \in Team' \ {0} THEN Append(queue[c], "task") ELSE queue[c]]
  BY <1>2 DEF Fork, Pushes
<1>6. pc \in [Cores -> Labels] /\ queue[0] = <<>> /\ 0 \in Cores /\ arrived \subseteq Cores
  BY CoreFacts DEF Types, Places
<1>7. pc'[0] = "body" /\ queue'[0] = <<>> /\ pos'[0] = 0
  BY <1>5, <1>6
<1>8. ASSUME NEW c \in Team', c # 0
      PROVE  pc'[c] = "docked" /\ queue'[c] = <<"task">> /\ pos'[c] = 0
  <2>1. c \in Cores /\ Idle(c)
    BY <1>1, <1>2, <1>4, <1>8 DEF Handling
  <2>2. Append(queue[c], "task") = <<"task">>
    BY <2>1 DEF Idle
  <2> QED
    BY <1>5, <1>6, <1>8, <2>1, <2>2 DEF Idle
<1>9. ASSUME NEW c \in Cores \ Team'
      PROVE  pc'[c] = pc[c] /\ queue'[c] = queue[c]
  BY <1>2, <1>5, <1>6, <1>9
<1>10. Len(b) \in Nat /\ body' = b
  BY <1>5, BodyFacts
<1>11. ASSUME NEW c \in Team' PROVE Thread(c)' /\ Place(c)' = 2
  <2>1. PlaceAt(0, "body", <<>>) = 2 /\ PlaceAt(0, "docked", <<"task">>) = 2
    <3>1. ASSUME NEW q, q # <<>> PROVE PlaceAt(0, "docked", q) = 2
      BY <3>1, PlaceValues
    <3>2. <<"task">> # <<>>
      OBVIOUS
    <3>3. PlaceAt(0, "docked", <<"task">>) = 2
      BY <3>1, <3>2
    <3> QED
      BY <3>3, PlaceValues
  <2>2. CASE c = 0
    BY <1>7, <1>10, <2>1, <2>2 DEF Thread, Place
  <2>3. CASE c # 0
    BY <1>8, <1>10, <2>1, <2>3 DEF Thread, Place
  <2> QED
    BY <2>2, <2>3
<1>12. Together'
  BY <1>11 DEF Together
<1>13. \A c \in arrived' : pc'[c] \in {"fini", "bar", "exit"}
  BY <1>1, <1>5, <1>6 DEF Places
<1>14. \A c \in Cores : Handling(c)' => /\ pc'[c] \in {"docked", "handling", "exit"}
                                        /\ queue'[c] \in Seq({"handler"})
  BY <1>1, <1>2, <1>9 DEF Places, Handling
<1>15. \A c \in Cores \ Team' : ~Handling(c)' => Idle(c)'
  BY <1>1, <1>2, <1>4, <1>9 DEF Idle, Handling
<1> QED
  BY <1>1, <1>7, <1>10, <1>11, <1>12, <1>13, <1>14, <1>15 DEF Places

\* Part two is preserved.
LEMMA PlacesStep ==
  ASSUME ~Mixed, ~Again, Types, Types', Config, Places, [Next]_vars PROVE Places'
<1>0. pc \in [Cores -> Labels] /\ queue[0] = <<>> /\ 0 \in Cores /\ arrived \subseteq Cores
      /\ queue \in [Cores -> Seq(Entries)]
  BY CoreFacts DEF Types, Places
<1>1. ASSUME NEW c \in Cores, Step(c) PROVE Places'
  BY <1>1, PlacesStepCore
<1>2. CASE ForkReturn
  <2>1. /\ pc[0] = "return" /\ pc' = [pc EXCEPT ![0] = "serial"]
        /\ body' = <<>> /\ handed' = <<>> /\ UNCHANGED <<queue, arrived, handlers>>
    BY <1>2 DEF ForkReturn, mhVars
  <2>2. InRegion /\ ~InRegion'
    BY <1>0, <2>1 DEF InRegion
  <2>3. \A c \in Cores \ {0} : ~Handling(c) => Idle(c)
    BY <2>1, <2>2, AllFinished DEF Places
  <2>4. \A c \in Cores \ {0} : ~Handling(c)' => Idle(c)'
    BY <1>0, <2>1, <2>3 DEF Idle, Handling
  <2>5. \A c \in arrived' : pc'[c] \in {"fini", "bar", "exit"}
    BY <1>0, <2>1 DEF Places
  <2>6. \A c \in Cores : Handling(c)' => /\ pc'[c] \in {"docked", "handling", "exit"}
                                         /\ queue'[c] \in Seq({"handler"})
    BY <1>0, <2>1 DEF Places, Handling
  <2> QED
    BY <1>0, <2>1, <2>2, <2>4, <2>5, <2>6 DEF Places
<1>3. ASSUME NEW n \in HandlerCounts, OffloadStart(n) PROVE Places'
  <2>1. /\ pc[0] = "mailbox" /\ pc' = [pc EXCEPT ![0] = "serial"]
        /\ UNCHANGED <<arrived, body, handed>> /\ handlers = 0
    BY <1>3 DEF OffloadStart
  <2>2. ~InRegion /\ ~InRegion'
    BY <1>0, <2>1 DEF InRegion
  <2>3. \A c \in Cores \ {0} : Idle(c)
    BY <2>1, <2>2, CoreFacts DEF Places, Handling
  <2>4. PICK k \in 0 .. NumCores - 1 :
           handlers' = k /\ Pushes(Cores \ First(NumCores - k), "handler")
    <3>1. n \in Nat
      BY ClausesAssumption
    <3>2. (IF n < NumCores - 1 THEN n ELSE NumCores - 1) \in 0 .. NumCores - 1
      BY <3>1, CoreFacts
    <3> QED
      BY <1>3, <3>2 DEF OffloadStart
  <2>5. ASSUME NEW c \in Cores
        PROVE  queue'[c] = IF c >= NumCores - k THEN <<"handler">> ELSE <<>>
    <3>1. queue[c] = <<>>
      BY <1>0, <2>3 DEF Idle
    <3>2. Append(<<>>, "handler") = <<"handler">>
      OBVIOUS
    <3>3. c \in Cores \ First(NumCores - k) <=> c >= NumCores - k
      BY CoreFacts DEF First
    <3> QED
      BY <2>4, <3>1, <3>2, <3>3 DEF Pushes
  <2>6. \A c \in Cores \ {0} : pc'[c] = "docked"
    BY <1>0, <2>1, <2>3 DEF Idle
  <2>7. ~(0 >= NumCores - k)
    BY CoreFacts
  <2>8. \A c \in Cores \ {0} : ~Handling(c)' => Idle(c)'
    BY <2>4, <2>5, <2>6 DEF Idle, Handling
  <2>9. \A c \in arrived' : pc'[c] \in {"fini", "bar", "exit"}
    BY <1>0, <2>1 DEF Places
  <2>10. ASSUME NEW c \in Cores, Handling(c)'
         PROVE  /\ pc'[c] \in {"docked", "handling", "exit"}
                /\ queue'[c] \in Seq({"handler"})
    <3>1. c # 0 /\ queue'[c] = <<"handler">>
      BY <2>4, <2>5, <2>7, <2>10 DEF Handling
    <3>2. <<"handler">> \in Seq({"handler"})
      OBVIOUS
    <3> QED
      BY <2>6, <3>1, <3>2
  <2>11. queue'[0] = <<>>
    BY <1>0, <2>5, <2>7
  <2> QED
    BY <2>1, <2>2, <2>8, <2>9, <2>10, <2>11 DEF Places
<1>4. CASE OffloadEnd
  <2>1. /\ pc[0] = "serial" /\ pc' = [pc EXCEPT ![0] = "mailbox"]
        /\ UNCHANGED <<arrived, body, handed, queue, handlers>>
    BY <1>4 DEF OffloadEnd
  <2>2. ~InRegion /\ ~InRegion'
    BY <1>0, <2>1 DEF InRegion
  <2>3. \A c \in Cores \ {0} : ~Handling(c)' => Idle(c)'
    BY <1>0, <2>1, <2>2 DEF Places, Idle, Handling
  <2>4. \A c \in arrived' : pc'[c] \in {"fini", "bar", "exit"}
    BY <1>0, <2>1 DEF Places
  <2>5. \A c \in Cores : Handling(c)' => /\ pc'[c] \in {"docked", "handling", "exit"}
                                         /\ queue'[c] \in Seq({"handler"})
    BY <1>0, <2>1 DEF Places, Handling
  <2> QED
    BY <1>0, <2>1, <2>2, <2>3, <2>4, <2>5 DEF Places
<1>5. ASSUME NEW n \in Clauses, NEW b \in Bodies, Fork(n, b) PROVE Places'
  BY <1>5, PlacesFork
<1>6. CASE UNCHANGED vars
  <2>1. /\ UNCHANGED <<arrived, pc, queue, body, handed, handlers, pos, partial, nbThreads>>
    BY <1>6 DEF vars, mhVars
  <2>2. Team' = Team /\ InRegion' = InRegion
    BY <2>1 DEF Team, InRegion
  <2> QED
    BY <2>1, <2>2 DEF Places, Handling, Idle, Thread, Together, Place, IsBarrier
<1> QED
  BY <1>1, <1>2, <1>3, <1>4, <1>5, <1>6 DEF Next
(***************************************************************************)
(* Part three: the epochs.                                                  *)
(***************************************************************************)
\* The number of single blocks grows by one at each of them.
LEMMA SinglesFacts ==
  ASSUME NEW b, NEW k \in Nat
  PROVE  /\ SinglesOf(b, k) \in Nat /\ SinglesOf(b, 0) = 0
         /\ b[k + 1].kind = "single" => SinglesOf(b, k + 1) = SinglesOf(b, k) + 1
         /\ b[k + 1].kind # "single" => SinglesOf(b, k + 1) = SinglesOf(b, k)
<1> DEFINE S(n) == {j \in 1 .. n : b[j].kind = "single"}
<1>1. ASSUME NEW n \in Nat PROVE IsFiniteSet(S(n))
  <2>1. IsFiniteSet(1 .. n) /\ S(n) \subseteq 1 .. n
    BY FS_Interval
  <2> QED
    BY <2>1, FS_Subset
<1>2. Cardinality(S(k)) \in Nat
  BY <1>1, FS_CardinalityType
<1>3. S(0) = {} /\ Cardinality({}) = 0
  BY FS_EmptySet
<1>4. k + 1 \notin S(k)
  OBVIOUS
<1>5. CASE b[k + 1].kind = "single"
  <2>1. S(k + 1) = S(k) \cup {k + 1}
    BY <1>5
  <2>2. Cardinality(S(k) \cup {k + 1}) = Cardinality(S(k)) + 1
    BY <1>1, <1>4, FS_AddElement
  <2> QED
    BY <1>2, <1>3, <1>5, <2>1, <2>2 DEF SinglesOf
<1>6. CASE b[k + 1].kind # "single"
  <2>1. S(k + 1) = S(k)
    BY <1>6
  <2> QED
    BY <1>2, <1>3, <1>6, <2>1 DEF SinglesOf
<1> QED
  BY <1>5, <1>6

\* and never falls.
LEMMA SinglesGrow ==
  ASSUME NEW b, NEW i \in Nat, NEW k \in Nat, i <= k
  PROVE  /\ SinglesOf(b, i) \in Nat /\ SinglesOf(b, k) \in Nat
         /\ SinglesOf(b, i) <= SinglesOf(b, k)
         /\ i < k /\ b[k].kind = "single" => SinglesOf(b, i) < SinglesOf(b, k)
<1>1. ASSUME NEW x \in Nat, NEW y \in Nat, x <= y
      PROVE  SinglesOf(b, x) <= SinglesOf(b, y)
  <2> DEFINE S == {j \in 1 .. x : b[j].kind = "single"}
             T == {j \in 1 .. y : b[j].kind = "single"}
  <2>1. IsFiniteSet(1 .. y) /\ T \subseteq 1 .. y /\ S \subseteq T
    BY <1>1, FS_Interval
  <2>2. IsFiniteSet(T)
    BY <2>1, FS_Subset
  <2>3. Cardinality(S) <= Cardinality(T)
    BY <2>1, <2>2, FS_Subset
  <2> QED
    BY <2>3 DEF SinglesOf
<1>2. SinglesOf(b, i) \in Nat /\ SinglesOf(b, k) \in Nat
  BY SinglesFacts
<1>3. ASSUME i < k, b[k].kind = "single" PROVE SinglesOf(b, i) < SinglesOf(b, k)
  <2>1. PICK h \in Nat : k = h + 1
    <3>1. k - 1 \in Nat /\ k = (k - 1) + 1
      BY <1>3
    <3> QED
      BY <3>1
  <2>2. SinglesOf(b, k) = SinglesOf(b, h) + 1 /\ SinglesOf(b, h) \in Nat
    BY <1>3, <2>1, SinglesFacts
  <2>3. SinglesOf(b, i) <= SinglesOf(b, h)
    BY <1>1, <1>3, <2>1
  <2> QED
    BY <1>2, <2>2, <2>3
<1> QED
  BY <1>1, <1>2, <1>3
\* No thread is ahead of one that has not passed the barrier of a dynamic
\* loop.
LEMMA NoneAhead ==
  ASSUME DynamicsWait, Types, Config, Places, InRegion, NEW c \in Team,
         NEW k \in 1 .. Len(body), body[k].kind = "dynamic", Place(c) <= 3 * k + 1
  PROVE  \A d \in Team : pos[d] <= k
<1>1. Together /\ Team \subseteq Cores /\ body \in Bodies
  BY TeamFacts DEF Places
<1>2. ~body[k].nowait
  BY <1>1, BodyFacts DEF DynamicsWait
<1>3. IsBarrier(3 * k + 1)
  BY <1>2 DEF IsBarrier
<1>4. SUFFICES ASSUME NEW d \in Team PROVE pos[d] <= k
  OBVIOUS
<1>5. Place(c) \in Nat /\ Place(d) \in Nat /\ Place(d) >= 3 * pos[d] /\ pos[d] \in Nat
  BY <1>1, PlaceNat DEF Types
<1>6. Len(body) \in Nat
  BY BodyFacts DEF Types
<1>7. Place(d) <= 3 * k + 1
  BY <1>1, <1>3, <1>5, <1>6, BehindBarrier
<1> QED
  BY <1>5, <1>6, <1>7

\* A core that enters a dynamic loop finds the epochs equal.
LEMMA EqualEpochs ==
  ASSUME DynamicsWait, Types, Config, Places, Epochs, NEW c \in Cores, DispatchInit(c)
  PROVE  /\ InRegion /\ c \in Team /\ loop_epoch = core_epoch[c]
         /\ \A d \in Team : pos[d] <= pos[c] + 1
<1>1. Enters(c, "dynamic")
  BY DEF DispatchInit
<1>2. PICK p \in Nat : /\ pos[c] = p /\ p + 1 \in 1 .. Len(body)
                       /\ body[p + 1].kind = "dynamic" /\ pc[c] = "body"
  BY <1>1, EntersFacts
<1>3. InRegion /\ c \in Team /\ Team \subseteq Cores
  BY <1>2, Acting, TeamFacts
<1>4. Place(c) = 3 * p + 2
  BY <1>2, PlaceValues DEF Place
<1>5. \A d \in Team : pos[d] <= p + 1
  <2>1. Place(c) <= 3 * (p + 1) + 1
    BY <1>4
  <2> QED
    BY <1>2, <1>3, <2>1, NoneAhead
<1>6. PICK e \in Nat : EpochsFrom(e)
  BY <1>3 DEF Epochs
<1>7. PICK d \in Team : core_epoch[d] = loop_epoch
  BY <1>6 DEF EpochsFrom
<1>8. pos[d] \in Nat
  BY <1>3 DEF Types
<1>9. SinglesOf(body, pos[d]) <= SinglesOf(body, p + 1)
  BY <1>2, <1>5, <1>8, SinglesGrow
<1>10. /\ SinglesOf(body, p + 1) = SinglesOf(body, p)
       /\ SinglesOf(body, p) \in Nat /\ SinglesOf(body, pos[d]) \in Nat
  BY <1>2, <1>8, SinglesFacts
<1>11. /\ core_epoch[d] = e + SinglesOf(body, pos[d]) /\ core_epoch[c] = e + SinglesOf(body, p)
       /\ core_epoch[c] <= loop_epoch /\ core_epoch[c] \in Nat /\ loop_epoch \in Nat
  BY <1>2, <1>3, <1>6 DEF EpochsFrom, Singles, Types
<1> QED
  BY <1>2, <1>3, <1>5, <1>7, <1>9, <1>10, <1>11

\* A step that leaves epochs and single blocks alone, with threads entering at
\* most other constructs.
LEMMA EpochsKept ==
  ASSUME Types, Epochs, Team' = Team, InRegion' = InRegion, body' = body,
         Team \subseteq Cores,
         UNCHANGED <<core_epoch, loop_epoch, partial, full>>,
         \A d \in Team : SinglesOf(body, pos'[d]) = SinglesOf(body, pos[d]),
         \A k \in 1 .. Len(body) : body[k].kind = "single" => handed'[k] = handed[k]
  PROVE  Epochs'
<1>1. ASSUME NEW e \in Nat, EpochsFrom(e) PROVE EpochsFrom(e)'
  BY <1>1 DEF EpochsFrom, Singles
<1> QED
  BY <1>1 DEF Epochs
\* singleStart: the core that finds the epochs equal is the first to enter
\* this single block, and its epoch is not that of any other block.
LEMMA EpochsSingle ==
  ASSUME Types, Types', Config, Places, Epochs, NEW c \in Cores, SingleStart(c)
  PROVE  Epochs'
<1>1. Enters(c, "single")
  BY DEF SingleStart
<1>2. PICK p \in Nat :
        /\ pos[c] = p /\ p + 1 \in 1 .. Len(body) /\ pos'[c] = p + 1
        /\ body[p + 1].kind = "single" /\ pc[c] = "body"
        /\ \A d \in Cores : d # c => pos'[d] = pos[d]
  BY <1>1, EntersFacts
<1>3. InRegion /\ c \in Team /\ Team \subseteq Cores
  BY <1>2, Acting, TeamFacts
<1>4. Team' = Team /\ InRegion' = InRegion /\ UNCHANGED <<body, partial, full>>
  BY StepFrame DEF Step
<1>5. PICK e \in Nat : EpochsFrom(e) /\ (partial => e = 0)
  BY <1>3 DEF Epochs
<1>6. /\ core_epoch \in [Cores -> Nat] /\ loop_epoch \in Nat /\ Len(body) \in Nat
      /\ pos \in [Cores -> Nat]
  BY BodyFacts DEF Types
<1>7. core_epoch'[c] = core_epoch[c] + 1 /\ \A d \in Cores : d # c => core_epoch'[d] = core_epoch[d]
  BY <1>6 DEF SingleStart
<1>8. /\ SinglesOf(body, p) \in Nat /\ SinglesOf(body, p + 1) = SinglesOf(body, p) + 1
      /\ core_epoch[c] = e + SinglesOf(body, p) /\ core_epoch[c] <= loop_epoch
  BY <1>2, <1>3, <1>5, SinglesFacts DEF EpochsFrom, Singles
<1>9. ASSUME NEW d \in Team PROVE core_epoch'[d] = e + SinglesOf(body, pos'[d])
  <2>1. CASE d = c
    <3>1. core_epoch'[c] = e + SinglesOf(body, p) + 1
      BY <1>7, <1>8
    <3>2. e + SinglesOf(body, p) + 1 = e + SinglesOf(body, p + 1)
      BY <1>8
    <3> QED
      BY <1>2, <2>1, <3>1, <3>2
  <2>2. CASE d # c
    BY <1>2, <1>3, <1>5, <1>7, <2>2 DEF EpochsFrom, Singles
  <2> QED
    BY <2>1, <2>2
<1>10. ASSUME NEW k \in 1 .. Len(body), body[k].kind = "single", k # p + 1
       PROVE  SinglesOf(body, k) \in Nat /\ SinglesOf(body, k) # SinglesOf(body, p + 1)
  <2>1. k \in Nat /\ p + 1 \in Nat
    BY <1>6
  <2>2. CASE k < p + 1
    BY <1>2, <2>1, <2>2, SinglesGrow
  <2>3. CASE k > p + 1
    BY <1>10, <2>1, <2>3, SinglesGrow
  <2> QED
    BY <1>10, <2>1, <2>2, <2>3
<1>11. CASE loop_epoch = core_epoch[c]
  <2>1. loop_epoch' = loop_epoch + 1 /\ Gives(p + 1, {0}, FALSE)
    BY <1>2, <1>11 DEF SingleStart
  <2>2. {0} \in SUBSET Int /\ FALSE \in BOOLEAN
    OBVIOUS
  <2>3. /\ Len(handed'[p + 1]) = Len(handed[p + 1]) + 1
        /\ \A k \in 1 .. Len(body) : k # p + 1 => handed'[k] = handed[k]
    BY <1>2, <2>1, <2>2, GivesTypes
  <2>4. \A d \in Team : core_epoch'[d] <= loop_epoch'
    BY <1>3, <1>5, <1>6, <1>7, <1>11, <2>1 DEF EpochsFrom
  <2>5. core_epoch'[c] = loop_epoch'
    BY <1>7, <1>11, <2>1
  <2>6. ASSUME NEW k \in 1 .. Len(body), body[k].kind = "single"
        PROVE  Len(handed'[k]) = (IF loop_epoch' >= e + SinglesOf(body, k) THEN 1 ELSE 0)
    <3>1. Len(handed[k]) = (IF loop_epoch >= e + SinglesOf(body, k) THEN 1 ELSE 0)
      BY <1>5, <2>6 DEF EpochsFrom, Singles
    <3>2. CASE k = p + 1
      BY <1>6, <1>8, <1>11, <2>1, <2>3, <3>1, <3>2
    <3>3. CASE k # p + 1
      <4>1. SinglesOf(body, k) \in Nat /\ SinglesOf(body, k) # SinglesOf(body, p + 1)
        BY <1>10, <2>6, <3>3
      <4>2. PICK x \in Nat, y \in Nat : x = SinglesOf(body, k) /\ y = SinglesOf(body, p)
        BY <1>8, <4>1
      <4>3. x # y + 1 /\ loop_epoch = e + y /\ loop_epoch' = e + y + 1
        BY <1>8, <1>11, <2>1, <4>1, <4>2
      <4>4. e + y + 1 >= e + x <=> e + y >= e + x
        BY <4>3
      <4> QED
        BY <2>3, <3>1, <3>3, <4>2, <4>3, <4>4
    <3> QED
      BY <3>2, <3>3
  <2>7. EpochsFrom(e)'
    BY <1>3, <1>4, <1>9, <2>4, <2>5, <2>6 DEF EpochsFrom, Singles
  <2>8. ~full' => \A d \in Cores \ Team : core_epoch'[d] = 0
    BY <1>3, <1>4, <1>7 DEF Epochs
  <2> QED
    BY <1>3, <1>4, <1>5, <2>7, <2>8 DEF Epochs
<1>12. CASE loop_epoch # core_epoch[c]
  <2>1. loop_epoch' = loop_epoch /\ handed' = handed
    BY <1>12 DEF SingleStart
  <2>2. \A d \in Team : core_epoch'[d] <= loop_epoch'
    <3>1. core_epoch[c] \in Nat /\ core_epoch[c] + 1 <= loop_epoch
      BY <1>6, <1>8, <1>12
    <3>2. core_epoch'[c] <= loop_epoch'
      BY <1>7, <2>1, <3>1
    <3>3. \A d \in Team : d # c => core_epoch'[d] <= loop_epoch'
      BY <1>3, <1>5, <1>7, <2>1 DEF EpochsFrom
    <3> QED
      BY <3>2, <3>3
  <2>3. \E d \in Team : core_epoch'[d] = loop_epoch'
    BY <1>3, <1>5, <1>7, <1>12, <2>1 DEF EpochsFrom
  <2>4. EpochsFrom(e)'
    BY <1>4, <1>5, <1>9, <2>1, <2>2, <2>3 DEF EpochsFrom, Singles
  <2>5. ~full' => \A d \in Cores \ Team : core_epoch'[d] = 0
    BY <1>3, <1>4, <1>7 DEF Epochs
  <2> QED
    BY <1>3, <1>4, <1>5, <2>4, <2>5 DEF Epochs
<1> QED
  BY <1>11, <1>12

\* Part three is preserved.
LEMMA EpochsStep ==
  ASSUME ~Mixed, ~Again, DynamicsWait, Types, Types', Config, Config', Places,
         Epochs, [Next]_vars
  PROVE  Epochs'
<1>0. /\ core_epoch \in [Cores -> Nat] /\ loop_epoch \in Nat /\ Len(body) \in Nat
      /\ pos \in [Cores -> Nat] /\ pc \in [Cores -> Labels]
      /\ Team \subseteq Cores /\ 0 \in Team
  BY BodyFacts, TeamFacts DEF Types
<1>1. ASSUME NEW c \in Cores, Step(c) PROVE Epochs'
  <2>1. Team' = Team /\ InRegion' = InRegion /\ UNCHANGED <<body, partial, full>>
    BY <1>1, StepFrame
  <2>2. CASE SingleStart(c)
    BY <2>2, EpochsSingle
  <2>3. ASSUME UNCHANGED <<core_epoch, loop_epoch>>, pos' = pos, handed' = handed
        PROVE  Epochs'
    BY <1>0, <2>1, <2>3, EpochsKept
  <2>4. ASSUME NEW kind \in {"dynamic", "static"}, Enters(c, kind)
        PROVE  \A d \in Team : SinglesOf(body, pos'[d]) = SinglesOf(body, pos[d])
    <3>1. PICK p \in Nat : /\ pos[c] = p /\ pos'[c] = p + 1 /\ body[p + 1].kind = kind
                           /\ \A d \in Cores : d # c => pos'[d] = pos[d]
      BY <2>4, EntersFacts
    <3>2. SinglesOf(body, p + 1) = SinglesOf(body, p)
      BY <3>1, SinglesFacts
    <3> QED
      BY <1>0, <3>1, <3>2
  <2>5. CASE DispatchInit(c)
    <3>1. loop_epoch = core_epoch[c]
      BY <2>5, EqualEpochs
    <3>2. UNCHANGED <<core_epoch, loop_epoch, handed>> /\ Enters(c, "dynamic")
      BY <2>5, <3>1 DEF DispatchInit
    <3>3. \A d \in Team : SinglesOf(body, pos'[d]) = SinglesOf(body, pos[d])
      BY <2>4, <3>2
    <3> QED
      BY <1>0, <2>1, <3>2, <3>3, EpochsKept
  <2>6. ASSUME NEW k \in 1 .. Len(body), NEW iters, NEW last, Gives(k, iters, last),
               body[k].kind # "single"
        PROVE  \A j \in 1 .. Len(body) : body[j].kind = "single" => handed'[j] = handed[j]
    BY <2>6 DEF Gives, Types
  <2>7. CASE DispatchNext(c)
    <3>1. UNCHANGED <<core_epoch, loop_epoch, pos>> /\ pc[c] = "next"
      BY <2>7 DEF DispatchNext, epochVars
    <3>2. InRegion /\ c \in Team /\ Thread(c)
      BY <3>1, Acting
    <3>3. pos[c] \in 1 .. Len(body) /\ body[pos[c]].kind = "dynamic"
      BY <1>0, <3>1, <3>2 DEF Thread
    <3>4. CASE Exhausted
      BY <2>3, <2>7, <3>1, <3>4 DEF DispatchNext
    <3>5. CASE ~Exhausted
      <4>1. \E iters, last : Gives(pos[c], iters, last)
        BY <2>7, <3>5 DEF DispatchNext
      <4>2. \A j \in 1 .. Len(body) : body[j].kind = "single" => handed'[j] = handed[j]
        BY <2>6, <3>3, <4>1
      <4> QED
        BY <1>0, <2>1, <3>1, <4>2, EpochsKept
    <3> QED
      BY <3>4, <3>5
  <2>8. CASE ForStatic(c)
    <3>1. /\ UNCHANGED <<core_epoch, loop_epoch>> /\ Enters(c, "static")
          /\ \E iters, last : Gives(pos[c] + 1, iters, last)
      BY <2>8 DEF ForStatic, epochVars
    <3>2. \A d \in Team : SinglesOf(body, pos'[d]) = SinglesOf(body, pos[d])
      BY <2>4, <3>1
    <3>3. pos[c] + 1 \in 1 .. Len(body) /\ body[pos[c] + 1].kind = "static"
      BY <3>1, EntersFacts
    <3>4. \A j \in 1 .. Len(body) : body[j].kind = "single" => handed'[j] = handed[j]
      BY <2>6, <3>1, <3>3
    <3> QED
      BY <1>0, <2>1, <3>1, <3>2, <3>4, EpochsKept
  <2> QED
    BY <1>1, <2>2, <2>3, <2>5, <2>7, <2>8 DEF Step, Wake, HandlerDone, TaskDone,
                                               Barrier, epochVars
<1>2. CASE ForkReturn
  <2>1. pc[0] = "return" /\ pc' = [pc EXCEPT ![0] = "serial"] /\ UNCHANGED full
    BY <1>2 DEF ForkReturn, boundVars
  <2>2. InRegion /\ ~InRegion' /\ \A c \in Team : pos[c] = Len(body)
    BY <1>0, <2>1, CoreFacts, AllFinished DEF InRegion
  <2>3. PICK e \in Nat : EpochsFrom(e)
    BY <2>2 DEF Epochs
  <2>4. \A c \in Team : core_epoch[c] = loop_epoch
    BY <1>0, <2>2, <2>3 DEF EpochsFrom
  <2>5. CASE partial
    <3>1. Restored /\ ~full /\ Team = First(nbThreads)
      BY <1>2, <2>5 DEF ForkReturn, Config, Team
    <3>2. \A c \in Cores : core_epoch'[c] = 0 /\ loop_epoch' = 0
      <4>1. /\ loop_epoch' = 0
            /\ core_epoch' = [c \in Cores |-> IF c < nbThreads THEN 0 ELSE core_epoch[c]]
        BY <3>1 DEF Restored
      <4>2. \A c \in Cores : ~(c < nbThreads) => core_epoch[c] = 0
        BY <3>1 DEF Epochs, First
      <4> QED
        BY <4>1, <4>2
    <3> QED
      BY <2>1, <2>2, <3>1, <3>2, CoreFacts DEF Epochs
  <2>6. CASE ~partial
    <3>1. UNCHANGED <<core_epoch, loop_epoch>> /\ Team = Cores
      BY <1>2, <2>6 DEF ForkReturn, epochVars, Team
    <3>2. full
      BY <2>2, <2>6 DEF Config
    <3> QED
      BY <2>1, <2>2, <2>4, <3>1, <3>2 DEF Epochs
  <2> QED
    BY <2>5, <2>6
<1>3. ASSUME ~InRegion, ~InRegion', UNCHANGED <<core_epoch, loop_epoch, full>>
      PROVE  Epochs'
  <2>1. Team' \subseteq Cores
    BY TeamFactsNext
  <2> QED
    BY <1>3, <2>1 DEF Epochs
<1>4. ASSUME NEW n \in HandlerCounts, OffloadStart(n) PROVE Epochs'
  <2>1. /\ pc[0] = "mailbox" /\ pc' = [pc EXCEPT ![0] = "serial"]
        /\ UNCHANGED <<core_epoch, loop_epoch, full>>
    BY <1>4 DEF OffloadStart, epochVars
  <2>2. ~InRegion /\ ~InRegion'
    BY <1>0, <2>1, CoreFacts DEF InRegion
  <2> QED
    BY <1>3, <2>1, <2>2
<1>5. CASE OffloadEnd
  <2>1. /\ pc[0] = "serial" /\ pc' = [pc EXCEPT ![0] = "mailbox"]
        /\ UNCHANGED <<core_epoch, loop_epoch, full>>
    BY <1>5 DEF OffloadEnd, epochVars, boundVars
  <2>2. ~InRegion /\ ~InRegion'
    BY <1>0, <2>1, CoreFacts DEF InRegion
  <2> QED
    BY <1>3, <2>1, <2>2
<1>6. ASSUME NEW n \in Clauses, NEW b \in Bodies, Fork(n, b) PROVE Epochs'
  <2>1. pc[0] = "serial" /\ InRegion' /\ (partial' => ~full) /\ (~full' => ~full)
    BY <1>6, ForkFacts
  <2>2. /\ UNCHANGED <<core_epoch, loop_epoch>> /\ pos' = [c \in Cores |-> 0] /\ body' = b
        /\ handed' = [k \in DOMAIN b |-> <<>>]
    BY <1>6 DEF Fork, epochVars
  <2>3. ~InRegion
    BY <2>1 DEF InRegion
  <2>4. (\A c \in Cores : core_epoch[c] = loop_epoch) /\ (~full => loop_epoch = 0)
    BY <2>3 DEF Epochs
  <2>5. Team' \subseteq Cores /\ 0 \in Team'
    BY TeamFactsNext
  <2>6. Len(b) \in Nat /\ DOMAIN b = 1 .. Len(b) /\ SinglesOf(b, 0) = 0
    BY BodyFacts, SinglesFacts
  <2>7. ASSUME NEW k \in 1 .. Len(b), b[k].kind = "single"
        PROVE  ~(loop_epoch >= loop_epoch + SinglesOf(b, k)) /\ Len(handed'[k]) = 0
    <3>1. k \in Nat /\ 0 < k
      BY <2>6
    <3>2. SinglesOf(b, k) \in Nat /\ SinglesOf(b, k) > 0
      BY <2>6, <2>7, <3>1, SinglesGrow
    <3>3. handed'[k] = <<>>
      BY <2>2, <2>6
    <3> QED
      BY <1>0, <3>2, <3>3
  <2>8. EpochsFrom(loop_epoch)'
    <3>1. \A c \in Team' : core_epoch'[c] = loop_epoch + SinglesOf(b, pos'[c])
      BY <1>0, <2>2, <2>4, <2>5, <2>6
    <3>2. \A c \in Team' : core_epoch'[c] = loop_epoch' /\ loop_epoch' = loop_epoch
      BY <2>2, <2>4, <2>5
    <3>3. \A k \in 1 .. Len(b) : b[k].kind = "single" =>
            Len(handed'[k]) = (IF loop_epoch >= loop_epoch + SinglesOf(b, k) THEN 1 ELSE 0)
      BY <2>7
    <3> QED
      BY <1>0, <2>2, <2>5, <3>1, <3>2, <3>3 DEF EpochsFrom, Singles
  <2>9. PICK e \in Nat : e = loop_epoch
    BY <1>0
  <2>10. EpochsFrom(e)' /\ (partial' => e = 0)
    BY <2>1, <2>2, <2>4, <2>8, <2>9 DEF EpochsFrom
  <2>11. ~full' => \A c \in Cores \ Team' : core_epoch'[c] = 0
    BY <2>1, <2>2, <2>4
  <2> QED
    BY <2>1, <2>10, <2>11 DEF Epochs
<1>7. CASE UNCHANGED vars
  <2>1. UNCHANGED <<core_epoch, loop_epoch, partial, full, body, pos, handed, nbThreads, pc>>
    BY <1>7 DEF vars, epochVars, boundVars
  <2>2. Team' = Team /\ InRegion' = InRegion
    BY <2>1 DEF Team, InRegion
  <2> QED
    BY <1>0, <2>1, <2>2, EpochsKept
<1> QED
  BY <1>1, <1>2, <1>4, <1>5, <1>6, <1>7 DEF Next
(***************************************************************************)
(* Part four: dynamic loops.                                                *)
(***************************************************************************)
\* A share adds its iterations to those handed out, and only to those of its
\* construct.
LEMMA GivesParts ==
  ASSUME Types, NEW k \in 1 .. Len(body), NEW iters \in SUBSET Int,
         NEW last \in BOOLEAN, Gives(k, iters, last)
  PROVE  /\ UNION Parts(k)' = (UNION Parts(k)) \cup iters
         /\ \A j \in 1 .. Len(body) : j # k => Parts(j)' = Parts(j)
<1> DEFINE s == handed[k]
           r == [iters |-> iters, last |-> last]
<1>1. /\ handed'[k] = Append(s, r)
      /\ \A j \in 1 .. Len(body) : j # k => handed'[j] = handed[j]
  BY GivesTypes
<1>2. s \in Seq(Shares) /\ r \in Shares
  BY DEF Types, Shares
<1>3. /\ DOMAIN Append(s, r) = 1 .. Len(s) + 1 /\ DOMAIN s = 1 .. Len(s) /\ Len(s) \in Nat
      /\ \A i \in 1 .. Len(s) : Append(s, r)[i] = s[i]
      /\ Append(s, r)[Len(s) + 1] = r
  BY <1>2
<1>4. Parts(k) = {s[i].iters : i \in 1 .. Len(s)}
  BY <1>3 DEF Parts
<1>5. Parts(k)' = {Append(s, r)[i].iters : i \in 1 .. Len(s) + 1}
  BY <1>1, <1>3 DEF Parts
<1>6. r.iters = iters
  OBVIOUS
<1> HIDE DEF s, r
<1>7. Parts(k)' = Parts(k) \cup {iters}
  <2>1. \A i \in 1 .. Len(s) + 1 : i \in 1 .. Len(s) \/ i = Len(s) + 1
    BY <1>3
  <2>2. \A i \in 1 .. Len(s) : i \in 1 .. Len(s) + 1
    BY <1>3
  <2>3. Len(s) + 1 \in 1 .. Len(s) + 1
    BY <1>3
  <2> QED
    BY <1>3, <1>4, <1>5, <1>6, <2>1, <2>2, <2>3
<1>8. UNION Parts(k)' = (UNION Parts(k)) \cup iters
  BY <1>7
<1>9. \A j \in 1 .. Len(body) : j # k => Parts(j)' = Parts(j)
  BY <1>1 DEF Parts
<1> QED
  BY <1>8, <1>9

\* The threads that draw from the shared bounds are all in the same loop.
LEMMA SameLoop ==
  ASSUME DynamicsWait, Types, Config, Places, InRegion,
         NEW c \in Team, NEW d \in Team, pc[c] = "next", pc[d] = "next"
  PROVE  pos[c] = pos[d]
<1>1. ASSUME NEW x \in Team, NEW y \in Team, pc[x] = "next" PROVE pos[y] <= pos[x]
  <2>1. Thread(x) /\ x \in Cores /\ Len(body) \in Nat /\ pos[x] \in Nat
    BY TeamFacts, BodyFacts DEF Places, Types
  <2>2. pos[x] \in 1 .. Len(body) /\ body[pos[x]].kind = "dynamic"
    BY <1>1, <2>1 DEF Thread
  <2>3. Place(x) = 3 * pos[x]
    BY <1>1, <2>1, PlaceValues DEF Place
  <2>4. Place(x) <= 3 * pos[x] + 1
    BY <2>1, <2>3
  <2> QED
    BY <2>2, <2>4, NoneAhead
<1>2. pos[c] \in Nat /\ pos[d] \in Nat
  BY TeamFacts DEF Types
<1> QED
  BY <1>1, <1>2

\* A step that touches neither the bounds nor the shares of dynamic loops, and
\* in which no thread enters or leaves one.
LEMMA DynKept ==
  ASSUME Types, Types', Team' = Team, body' = body, DynCover, NoIterationLost,
         UNCHANGED <<loop, loop_is_setup>>,
         \A k \in 1 .. Len(body) : body[k].kind = "dynamic" => handed'[k] = handed[k],
         \A d \in Team : /\ pc'[d] = "next" <=> pc[d] = "next"
                         /\ pc[d] = "next" => pos'[d] = pos[d] /\ pos[d] \in 1 .. Len(body)
                                              /\ body[pos[d]].kind = "dynamic",
         \A k \in 1 .. Len(body) : \A d \in Team :
            body[k].kind = "dynamic" /\ IsPast(d, k)' => IsPast(d, k)
  PROVE  DynCover' /\ NoIterationLost'
<1>1. \A k \in 1 .. Len(body) : body[k].kind = "dynamic" => Parts(k)' = Parts(k)
  BY DEF Parts
<1>2. DynCover'
  <2>1. loop_is_setup' => \E d \in Team : pc'[d] = "next"
    BY DEF DynCover
  <2>2. ASSUME NEW d \in Team, NEW k \in 1 .. Len(body), pc'[d] = "next", pos'[d] = k
        PROVE  Covers(k)'
    <3>1. pc[d] = "next" /\ pos[d] = k /\ body[k].kind = "dynamic"
      BY <2>2
    <3>2. Covers(k)
      BY <3>1 DEF DynCover
    <3> QED
      BY <1>1, <3>1, <3>2 DEF Covers
  <2> QED
    BY <2>1, <2>2 DEF DynCover
<1>3. NoIterationLost'
  <2>1. DOMAIN handed = 1 .. Len(body) /\ DOMAIN handed' = 1 .. Len(body)
    BY DEF Types
  <2>2. ASSUME NEW k \in 1 .. Len(body), body[k].kind = "dynamic"
        PROVE  Past(k)' # {} => Past(k) # {}
    BY <2>2 DEF Past
  <2>3. ASSUME NEW k \in 1 .. Len(body), body[k].kind = "dynamic"
        PROVE  /\ UNION Parts(k)' \subseteq body[k].lower .. body[k].upper
               /\ Past(k)' # {} => UNION Parts(k)' = body[k].lower .. body[k].upper
    BY <1>1, <2>1, <2>2, <2>3 DEF NoIterationLost, Construct
  <2> QED
    BY <2>1, <2>3 DEF NoIterationLost, Construct
<1> QED
  BY <1>2, <1>3
\* dynLoopInitNoIter: a core that enters the loop finds its bounds, or none
\* and sets them.
LEMMA DynInit ==
  ASSUME DynamicsWait, Types, Types', Config, Places, Epochs, DynCover, NoIterationLost,
         NEW c \in Cores, DispatchInit(c)
  PROVE  DynCover' /\ NoIterationLost'
<1>0. /\ pc \in [Cores -> Labels] /\ Team \subseteq Cores /\ Len(body) \in Nat
      /\ DOMAIN handed = 1 .. Len(body) /\ pos \in [Cores -> Nat]
      /\ loop \in [start : Int, end : Int, chunk : Int]
  BY TeamFacts, BodyFacts DEF Types
<1>1. InRegion /\ c \in Team /\ loop_epoch = core_epoch[c] /\ \A d \in Team : pos[d] <= pos[c] + 1
  BY EqualEpochs
<1>2. Enters(c, "dynamic") /\ UNCHANGED <<handed, body>> /\ pc' = [pc EXCEPT ![c] = "next"]
  BY DEF DispatchInit
<1>3. PICK k \in 1 .. Len(body) :
         /\ pos[c] = k - 1 /\ pos'[c] = k /\ body[k].kind = "dynamic" /\ pc[c] = "body"
         /\ \A d \in Cores : d # c => pos'[d] = pos[d]
  BY <1>2, EntersFacts
<1>4. Team' = Team
  BY StepFrame DEF Step
<1>5. ASSUME NEW d \in Team, pc[d] = "next" PROVE pos[d] = k /\ d # c
  <2>1. Thread(d) /\ pos[d] \in Nat /\ Thread(c)
    BY <1>0, <1>1 DEF Places
  <2>2. pos[d] \in 1 .. Len(body) /\ body[pos[d]].kind = "dynamic"
    BY <1>0, <1>5, <2>1 DEF Thread
  <2>3. Place(d) = 3 * pos[d]
    BY <1>5, <2>1, PlaceValues DEF Place
  <2>4. Place(d) <= 3 * pos[d] + 1
    BY <2>1, <2>3
  <2>5. pos[c] <= pos[d]
    BY <1>1, <2>2, <2>4, NoneAhead
  <2>6. pos[d] <= k
    BY <1>0, <1>1, <1>3, <2>1
  <2>7. pos[d] # k - 1
    <3> SUFFICES ASSUME pos[d] = k - 1 PROVE FALSE
      OBVIOUS
    <3>1. Together /\ body \in Bodies
      BY <1>1 DEF Places
    <3>2. ~body[pos[d]].nowait
      BY <2>2, <3>1, BodyFacts DEF DynamicsWait
    <3>3. IsBarrier(3 * pos[d] + 1)
      BY <2>2, <3>2 DEF IsBarrier
    <3>4. Place(c) = 3 * pos[c] + 2 /\ pos[c] \in Nat
      BY <1>0, <1>1, <1>3, PlaceValues DEF Place
    <3>5. Place(c) > 3 * pos[d] + 1
      BY <1>3, <3>4
    <3>6. Place(d) > 3 * pos[d] + 1
      BY <1>1, <2>1, <3>1, <3>3, <3>5 DEF Together
    <3> QED
      BY <2>1, <2>3, <3>6
  <2>8. pos[c] \in Nat
    BY <1>0
  <2> QED
    BY <1>0, <1>3, <1>5, <2>1, <2>5, <2>6, <2>7, <2>8
<1>6. Parts(k)' = Parts(k) /\ \A j \in 1 .. Len(body) : Parts(j)' = Parts(j)
  BY <1>2 DEF Parts
<1>7. body[k].lower \in Int /\ body[k].upper \in Int
  BY <1>3, BodyFacts DEF Types
<1>8. Covers(k)'
  <2>1. CASE loop_is_setup
    <3>1. loop' = loop
      BY <1>1, <2>1 DEF DispatchInit
    <3>2. PICK d \in Team : pc[d] = "next"
      BY <2>1 DEF DynCover
    <3>3. Covers(k)
      BY <1>5, <3>2 DEF DynCover
    <3> QED
      BY <1>2, <1>6, <3>1, <3>3 DEF Covers
  <2>2. CASE ~loop_is_setup
    <3>1. loop' = [start |-> body[k].lower, end |-> body[k].upper, chunk |-> body[k].chunk]
      BY <1>0, <1>1, <1>3, <2>2 DEF DispatchInit, Construct
    <3>2. loop'.start = body[k].lower /\ loop'.end = body[k].upper /\ loop'.chunk = body[k].chunk
      BY <3>1
    <3> QED
      BY <1>2, <1>7, <3>2 DEF Covers
  <2> QED
    BY <2>1, <2>2
<1>9. \A d \in Team : pc'[d] = "next" => pos'[d] = k
  BY <1>0, <1>2, <1>3, <1>5
<1>10. DynCover'
  <2>1. pc'[c] = "next"
    BY <1>0, <1>2
  <2> QED
    BY <1>1, <1>2, <1>4, <1>8, <1>9, <2>1 DEF DynCover
<1>11. NoIterationLost'
  <2>1. ASSUME NEW j \in 1 .. Len(body), body[j].kind = "dynamic", NEW d \in Team, IsPast(d, j)'
        PROVE  IsPast(d, j)
    <3>1. CASE d = c
      <4>1. pos'[c] > j
        BY <1>0, <1>2, <2>1, <3>1 DEF IsPast
      <4> QED
        BY <1>0, <1>3, <3>1, <4>1 DEF IsPast
    <3>2. CASE d # c
      BY <1>0, <1>2, <1>3, <2>1, <3>2 DEF IsPast
    <3> QED
      BY <3>1, <3>2
  <2>2. \A j \in 1 .. Len(body) : body[j].kind = "dynamic" => (Past(j)' # {} => Past(j) # {})
    BY <1>4, <2>1 DEF Past
  <2> QED
    BY <1>0, <1>2, <1>6, <2>2 DEF NoIterationLost, Construct
<1> QED
  BY <1>10, <1>11

\* dynLoopIter: a chunk lies in the loop and follows what has been handed out;
\* a core that finds no chunk leaves the loop when all has been handed out.
LEMMA DynNext ==
  ASSUME DynamicsWait, Types, Types', Config, Places, DynCover, NoIterationLost,
         NEW c \in Cores, DispatchNext(c)
  PROVE  DynCover' /\ NoIterationLost'
<1>0. /\ pc \in [Cores -> Labels] /\ Team \subseteq Cores /\ Len(body) \in Nat
      /\ DOMAIN handed = 1 .. Len(body) /\ DOMAIN handed' = 1 .. Len(body)
      /\ pos \in [Cores -> Nat]
      /\ loop \in [start : Int, end : Int, chunk : Int]
  BY TeamFacts, BodyFacts, StepFrame DEF Types, Step
<1>1. pc[c] = "next" /\ UNCHANGED <<body, pos>>
  BY DEF DispatchNext
<1>2. InRegion /\ c \in Team /\ Thread(c)
  BY <1>1, Acting
<1>3. PICK k \in 1 .. Len(body) : pos[c] = k /\ body[k].kind = "dynamic"
  BY <1>0, <1>1, <1>2 DEF Thread
<1>4. Team' = Team
  BY StepFrame DEF Step
<1>5. \A d \in Team : pc[d] = "next" => pos[d] = k
  BY <1>1, <1>2, <1>3, SameLoop
<1>6. Covers(k)
  BY <1>1, <1>2, <1>3 DEF DynCover
<1>7. body[k].lower \in Int /\ body[k].upper \in Int /\ body[k].chunk \in Nat \ {0}
  BY <1>3, BodyFacts DEF Types
<1>8. PICK s \in Int, e \in Int, g \in Int :
         /\ loop.start = s /\ loop.end = e /\ loop.chunk = g
         /\ e = body[k].upper /\ g = body[k].chunk /\ s >= body[k].lower
  BY <1>0, <1>6 DEF Covers
<1>9. /\ UNION Parts(k) \subseteq body[k].lower .. body[k].upper
      /\ Past(k) # {} => UNION Parts(k) = body[k].lower .. body[k].upper
  BY <1>0, <1>3 DEF NoIterationLost, Construct
<1>10. CASE Exhausted
  <2>1. /\ loop_is_setup' = FALSE /\ pc' = [pc EXCEPT ![c] = After(k)]
        /\ UNCHANGED <<loop, handed>>
    BY <1>3, <1>10 DEF DispatchNext
  <2>2. pc'[c] # "next" /\ \A d \in Cores : d # c => pc'[d] = pc[d]
    BY <1>0, <2>1 DEF After
  <2>3. \A j \in 1 .. Len(body) : Parts(j)' = Parts(j)
    BY <2>1 DEF Parts
  <2>4. DynCover'
    <3>1. ASSUME NEW d \in Team, NEW j \in 1 .. Len(body), pc'[d] = "next", pos'[d] = j
          PROVE  Covers(j)'
      <4>1. Covers(j)
        BY <1>0, <1>1, <2>2, <3>1 DEF DynCover
      <4> QED
        BY <1>1, <2>1, <2>3, <4>1 DEF Covers
    <3> QED
      BY <1>1, <1>4, <2>1, <3>1 DEF DynCover
  <2>5. UNION Parts(k) = body[k].lower .. body[k].upper
    <3>1. s > e
      BY <1>8, <1>10 DEF Exhausted
    <3>2. \A i \in body[k].lower .. body[k].upper : i < s
      BY <1>7, <1>8, <3>1
    <3> QED
      BY <1>6, <1>8, <1>9, <3>2 DEF Covers
  <2>6. ASSUME NEW j \in 1 .. Len(body), j # k, NEW d \in Team, IsPast(d, j)'
        PROVE  IsPast(d, j)
    <3>1. CASE d = c
      BY <1>0, <1>1, <1>3, <2>6, <3>1 DEF IsPast
    <3>2. CASE d # c
      BY <1>0, <1>1, <2>2, <2>6, <3>2 DEF IsPast
    <3> QED
      BY <3>1, <3>2
  <2>7. \A j \in 1 .. Len(body) : j # k => (Past(j)' # {} => Past(j) # {})
    BY <1>4, <2>6 DEF Past
  <2>8. NoIterationLost'
    BY <1>0, <1>1, <2>1, <2>3, <2>5, <2>7 DEF NoIterationLost, Construct
  <2> QED
    BY <2>4, <2>8
<1>11. CASE ~Exhausted
  <2> DEFINE t == s + g - 1
             I == s .. (IF t >= e THEN e ELSE t)
  <2>1. /\ UNCHANGED <<loop_is_setup, pc>> /\ loop' = [loop EXCEPT !.start = s + g]
        /\ Gives(k, I, t >= e)
    BY <1>3, <1>8, <1>11 DEF DispatchNext
  <2>2. s <= e
    BY <1>8, <1>11 DEF Exhausted
  <2>3. I \in SUBSET Int /\ (t >= e) \in BOOLEAN /\ I \subseteq body[k].lower .. body[k].upper
    BY <1>7, <1>8, <2>2
  <2>4. \A i \in body[k].lower .. body[k].upper : i < s + g => i < s \/ i \in I
    BY <1>7, <1>8, <2>2
  <2>5. loop'.start = s + g /\ loop'.end = e /\ loop'.chunk = g
    BY <1>0, <1>8, <2>1
  <2>6. s + g >= body[k].lower
    BY <1>7, <1>8
  <2> HIDE DEF I, t
  <2>7. /\ UNION Parts(k)' = (UNION Parts(k)) \cup I
        /\ \A j \in 1 .. Len(body) : j # k => Parts(j)' = Parts(j)
    BY <2>1, <2>3, GivesParts
  <2>8. Covers(k)'
    <3>1. \A i \in body[k].lower .. body[k].upper : i < s => i \in UNION Parts(k)
      BY <1>6, <1>8 DEF Covers
    <3>2. \A i \in body[k].lower .. body[k].upper : i < s + g => i \in UNION Parts(k)'
      BY <2>4, <2>7, <3>1
    <3> QED
      BY <1>1, <1>8, <2>5, <2>6, <3>2 DEF Covers
  <2>9. DynCover'
    BY <1>1, <1>4, <1>5, <2>1, <2>8 DEF DynCover
  <2>10. \A j \in 1 .. Len(body) : Past(j)' = Past(j)
    BY <1>1, <1>4, <2>1 DEF Past, IsPast
  <2>11. /\ UNION Parts(k)' \subseteq body[k].lower .. body[k].upper
         /\ Past(k) # {} => UNION Parts(k)' = body[k].lower .. body[k].upper
    BY <1>9, <2>3, <2>7
  <2>12. NoIterationLost'
    BY <1>0, <1>1, <2>7, <2>10, <2>11 DEF NoIterationLost, Construct
  <2> QED
    BY <2>9, <2>12
<1> QED
  BY <1>10, <1>11
\* Part four is preserved.
LEMMA DynStep ==
  ASSUME ~Mixed, DynamicsWait, Types, Types', Config, Config', Places, Epochs,
         DynCover, NoIterationLost, [Next]_vars
  PROVE  DynCover' /\ NoIterationLost'
<1>0. /\ pc \in [Cores -> Labels] /\ Team \subseteq Cores /\ 0 \in Team /\ Len(body) \in Nat
      /\ DOMAIN handed = 1 .. Len(body) /\ pos \in [Cores -> Nat]
  BY TeamFacts, BodyFacts DEF Types
<1>a. ASSUME NEW d \in Team, pc[d] = "next"
      PROVE  pos[d] \in 1 .. Len(body) /\ body[pos[d]].kind = "dynamic"
  <2>1. Thread(d)
    BY <1>0, <1>a, Acting
  <2> QED
    BY <1>0, <1>a, <2>1 DEF Thread
<1>1. ASSUME NEW c \in Cores, Step(c) PROVE DynCover' /\ NoIterationLost'
  <2>0. Team' = Team /\ body' = body
    BY <1>1, StepFrame
  <2>1. ASSUME UNCHANGED <<loop, loop_is_setup, handed, pos>>,
               \A d \in Team : pc'[d] = "next" <=> pc[d] = "next"
        PROVE  DynCover' /\ NoIterationLost'
    <3>1. \A k \in 1 .. Len(body) : \A d \in Team : IsPast(d, k)' => IsPast(d, k)
      BY <2>1 DEF IsPast
    <3> QED
      BY <1>a, <2>0, <2>1, <3>1, DynKept
  <2>2. CASE ~(InRegion /\ c \in Team)
    <3>1. /\ UNCHANGED <<pos, handed, loop, loop_is_setup>>
          /\ \A d \in Cores : d # c => pc'[d] = pc[d]
          /\ pc'[c] # "next" /\ pc[c] # "next"
      BY <1>1, <2>2, OutsiderStep
    <3> QED
      BY <1>0, <2>1, <3>1
  <2>3. CASE Barrier(c)
    <3>1. UNCHANGED <<pos, handed, loop, loop_is_setup>>
      BY <2>3 DEF Barrier, loopVars
    <3>2. \A d \in Team : pc'[d] = "next" <=> pc[d] = "next"
      <4>1. CASE arrived \cup {c} = bar_mask
        BY <2>3, <4>1, Released
      <4>2. CASE arrived \cup {c} # bar_mask
        BY <2>3, <4>2 DEF Barrier
      <4> QED
        BY <4>1, <4>2
    <3> QED
      BY <2>1, <3>1, <3>2
  <2>4. CASE Wake(c) \/ HandlerDone(c) \/ TaskDone(c)
    <3>1. UNCHANGED <<pos, handed, loop, loop_is_setup>>
      BY <2>4 DEF Wake, HandlerDone, TaskDone, loopVars
    <3>2. pc[c] # "next" /\ \E l \in {"body", "handling", "exit"} : pc' = [pc EXCEPT ![c] = l]
      BY <2>4 DEF Wake, HandlerDone, TaskDone
    <3> QED
      BY <1>0, <2>1, <3>1, <3>2
  <2>5. ASSUME NEW kind \in {"single", "static"}, Enters(c, kind),
               NEW l \in {"body", "bar", "fini"}, pc' = [pc EXCEPT ![c] = l],
               UNCHANGED <<loop, loop_is_setup>>,
               \/ handed' = handed
               \/ \E iters, last : Gives(pos[c] + 1, iters, last)
        PROVE  DynCover' /\ NoIterationLost'
    <3>1. PICK p \in Nat :
            /\ pos[c] = p /\ p + 1 \in 1 .. Len(body) /\ pos'[c] = p + 1
            /\ body[p + 1].kind = kind /\ pc[c] = "body"
            /\ \A d \in Cores : d # c => pos'[d] = pos[d]
      BY <2>5, EntersFacts
    <3>2. \A k \in 1 .. Len(body) : body[k].kind = "dynamic" => handed'[k] = handed[k]
      BY <2>5, <3>1 DEF Gives, Types
    <3>3. \A d \in Team : /\ pc'[d] = "next" <=> pc[d] = "next"
                          /\ pc[d] = "next" => pos'[d] = pos[d]
      BY <1>0, <2>5, <3>1
    <3>4. ASSUME NEW k \in 1 .. Len(body), NEW d \in Team, body[k].kind = "dynamic", IsPast(d, k)'
          PROVE  IsPast(d, k)
      <4>1. CASE d = c
        <5>1. k # p + 1 /\ p + 1 >= k
          BY <1>0, <2>5, <3>1, <3>4, <4>1 DEF IsPast
        <5>2. p >= k
          BY <1>0, <5>1
        <5> QED
          BY <1>0, <3>1, <4>1, <5>2 DEF IsPast
      <4>2. CASE d # c
        BY <1>0, <2>5, <3>1, <3>4, <4>2 DEF IsPast
      <4> QED
        BY <4>1, <4>2
    <3> QED
      BY <1>a, <2>0, <2>5, <3>2, <3>3, <3>4, DynKept
  <2>6. CASE SingleStart(c)
    <3>1. After(pos[c] + 1) \in {"body", "bar", "fini"}
      BY DEF After
    <3>2. Enters(c, "single") /\ pc' = [pc EXCEPT ![c] = After(pos[c] + 1)]
          /\ UNCHANGED <<loop, loop_is_setup>>
      BY <2>6 DEF SingleStart, loopVars
    <3>3. \/ handed' = handed
          \/ \E iters, last : Gives(pos[c] + 1, iters, last)
      BY <2>6 DEF SingleStart
    <3> QED
      BY <2>5, <3>1, <3>2, <3>3
  <2>7. CASE ForStatic(c)
    <3>1. Enters(c, "static") /\ pc' = [pc EXCEPT ![c] = "fini"]
          /\ UNCHANGED <<loop, loop_is_setup>>
          /\ \E iters, last : Gives(pos[c] + 1, iters, last)
      BY <2>7 DEF ForStatic, loopVars
    <3> QED
      BY <2>5, <3>1
  <2> QED
    BY <1>1, <2>3, <2>4, <2>6, <2>7, DynInit, DynNext DEF Step
<1>2. ASSUME body' = <<>>, handed' = <<>>, ~loop_is_setup'
      PROVE  DynCover' /\ NoIterationLost'
  <2>1. Len(<<>>) = 0 /\ 1 .. 0 = {} /\ DOMAIN <<>> = {}
    OBVIOUS
  <2> QED
    BY <1>2, <2>1 DEF DynCover, NoIterationLost
<1>3. ASSUME ~InRegion PROVE ~loop_is_setup /\ body = <<>> /\ handed = <<>>
  <2>1. \A c \in Team : pc[c] # "next"
    BY <1>0, <1>3, Acting
  <2> QED
    BY <1>3, <2>1 DEF DynCover, Places
<1>4. CASE ForkReturn
  <2>1. pc[0] = "return" /\ UNCHANGED loop_is_setup /\ body' = <<>> /\ handed' = <<>>
    BY <1>4 DEF ForkReturn, loopVars
  <2>2. \A c \in Team : pc[c] # "next"
    BY <2>1, AllFinished
  <2>3. ~loop_is_setup
    BY <2>2 DEF DynCover
  <2> QED
    BY <1>2, <2>1, <2>3
<1>5. ASSUME NEW n \in HandlerCounts, OffloadStart(n) PROVE DynCover' /\ NoIterationLost'
  <2>1. pc[0] = "mailbox" /\ UNCHANGED <<loop_is_setup, body, handed>>
    BY <1>5 DEF OffloadStart, loopVars
  <2>2. ~InRegion
    BY <2>1 DEF InRegion
  <2> QED
    BY <1>2, <1>3, <2>1, <2>2
<1>6. CASE OffloadEnd
  <2>1. pc[0] = "serial" /\ UNCHANGED <<loop_is_setup, body, handed>>
    BY <1>6 DEF OffloadEnd, loopVars
  <2>2. ~InRegion
    BY <2>1 DEF InRegion
  <2> QED
    BY <1>2, <1>3, <2>1, <2>2
<1>7. ASSUME NEW n \in Clauses, NEW b \in Bodies, Fork(n, b) PROVE DynCover' /\ NoIterationLost'
  <2>1. /\ pc[0] = "serial" /\ UNCHANGED loop_is_setup /\ body' = b
        /\ pc' = [pc EXCEPT ![0] = "body"] /\ pos' = [c \in Cores |-> 0]
        /\ handed' = [k \in DOMAIN b |-> <<>>]
    BY <1>7 DEF Fork, loopVars
  <2>2. ~InRegion
    BY <2>1 DEF InRegion
  <2>3. ~loop_is_setup
    BY <1>3, <2>2
  <2>4. Team' \subseteq Cores
    BY TeamFactsNext
  <2>5. \A c \in Team' : pc'[c] # "next"
    <3>1. \A c \in Cores : pc[c] # "next"
      BY <2>2, Acting
    <3> QED
      BY <1>0, <2>1, <2>4, <3>1
  <2>6. DynCover'
    BY <2>1, <2>3, <2>5 DEF DynCover
  <2>7. DOMAIN b = 1 .. Len(b) /\ Len(b) \in Nat
    BY BodyFacts
  <2>8. ASSUME NEW k \in 1 .. Len(b) PROVE Past(k)' = {} /\ UNION Parts(k)' = {}
    <3>1. \A c \in Team' : ~IsPast(c, k)'
      BY <2>1, <2>4, <2>7 DEF IsPast
    <3>2. handed'[k] = <<>>
      BY <2>1, <2>7
    <3>3. DOMAIN handed'[k] = {}
      BY <3>2
    <3>4. Parts(k)' = {}
      BY <3>3 DEF Parts
    <3> QED
      BY <3>1, <3>4 DEF Past
  <2>9. NoIterationLost'
    BY <2>1, <2>7, <2>8 DEF NoIterationLost
  <2> QED
    BY <2>6, <2>9
<1>8. CASE UNCHANGED vars
  <2>1. UNCHANGED <<loop, loop_is_setup, handed, pos, pc, body, partial, nbThreads>>
    BY <1>8 DEF vars, loopVars
  <2>2. Team' = Team
    BY <2>1 DEF Team
  <2>3. \A k \in 1 .. Len(body) : Parts(k)' = Parts(k) /\ Past(k)' = Past(k)
    BY <2>1, <2>2 DEF Parts, Past, IsPast
  <2>4. DynCover'
    BY <2>1, <2>2, <2>3 DEF DynCover, Covers
  <2>5. NoIterationLost'
    BY <1>0, <2>1, <2>3 DEF NoIterationLost, Construct
  <2> QED
    BY <2>4, <2>5
<1> QED
  BY <1>1, <1>4, <1>5, <1>6, <1>7, <1>8 DEF Next
(***************************************************************************)
(* Part five: static loops.                                                 *)
(***************************************************************************)
\* Shares depend on the number of threads only.
LEMMA ShareFrame ==
  ASSUME UNCHANGED nbThreads, NEW x, NEW s
  PROVE  Share(x, s)' = Share(x, s)
<1>1. StaticEven(x, s)' = StaticEven(x, s)
  BY DEF StaticEven
<1>2. StaticChunked(x, s)' = StaticChunked(x, s)
  BY DEF StaticChunked
<1>3. (IF s.sched = 33 THEN StaticChunked(x, s) ELSE StaticEven(x, s))'
        = (IF s.sched = 33 THEN StaticChunked(x, s) ELSE StaticEven(x, s))
  BY <1>1, <1>2
<1> DEFINE r == IF s.sched = 33 THEN StaticChunked(x, s) ELSE StaticEven(x, s)
<1>4. r' = r
  BY <1>3
<1>5. Executed(s, r)' = Executed(s, r)
  BY <1>4 DEF Executed
<1> HIDE DEF r
<1>6. [iters |-> Executed(s, r), last |-> r.last]' = [iters |-> Executed(s, r), last |-> r.last]
  BY <1>4, <1>5
<1>7. Share(x, s) = [iters |-> Executed(s, r), last |-> r.last]
  BY DEF Share, r
<1>8. Share(x, s)' = [iters |-> Executed(s, r), last |-> r.last]'
  BY DEF Share, r
<1> QED
  BY <1>6, <1>7, <1>8

\* A step that gives no shares of static loops.
LEMMA DealtKept ==
  ASSUME Dealt, UNCHANGED <<body, nbThreads>>,
         \A k \in 1 .. Len(body) : body[k].kind = "static" =>
            handed'[k] = handed[k] /\ Entered(k)' = Entered(k)
  PROVE  Dealt'
<1>1. SUFFICES ASSUME NEW k \in 1 .. Len(body), body[k].kind = "static"
               PROVE  \E who \in [1 .. Len(handed'[k]) -> Entered(k)'] : Deals(k, who)'
  BY DEF Dealt
<1>2. PICK who \in [1 .. Len(handed[k]) -> Entered(k)] : Deals(k, who)
  BY <1>1 DEF Dealt
<1>3. handed'[k] = handed[k] /\ Entered(k)' = Entered(k)
  BY <1>1
<1>4. ASSUME NEW x, NEW s PROVE Share(x, s)' = Share(x, s)
  BY ShareFrame
<1>5. Deals(k, who)'
  BY <1>2, <1>3, <1>4 DEF Deals
<1> QED
  BY <1>2, <1>3, <1>5
\* __kmpc_for_static_init_4 gives a thread that enters the loop its share.
LEMMA DealtStatic ==
  ASSUME Types, Types', Config, Places, Dealt, NEW c \in Cores, ForStatic(c)
  PROVE  Dealt'
<1>0. /\ Team \subseteq Cores /\ Len(body) \in Nat /\ pos \in [Cores -> Nat]
      /\ handed \in [1 .. Len(body) -> Seq(Shares)]
  BY TeamFacts, BodyFacts DEF Types
<1>1. Enters(c, "static")
  BY DEF ForStatic
<1>2. PICK k \in 1 .. Len(body) :
        /\ pos[c] = k - 1 /\ pos'[c] = k /\ body[k].kind = "static" /\ pc[c] = "body"
        /\ \A d \in Cores : d # c => pos'[d] = pos[d]
  BY <1>1, EntersFacts
<1>3. Team' = Team /\ c \in Team /\ UNCHANGED <<body, nbThreads>>
  BY <1>2, StepFrame, Acting DEF Step
<1>4. ASSUME NEW x, NEW s PROVE Share(x, s)' = Share(x, s)
  BY <1>3, ShareFrame
<1> DEFINE r == Share(c, body[k])
<1>5. Gives(k, r.iters, r.last)
  <2>1. k = pos[c] + 1
    BY <1>0, <1>2
  <2> QED
    BY <2>1 DEF ForStatic, Share, Construct
<1>6. r.iters \in SUBSET Int /\ r.last \in BOOLEAN /\ r = [iters |-> r.iters, last |-> r.last]
  <2> DEFINE q == IF body[k].sched = 33 THEN StaticChunked(c, body[k])
                                        ELSE StaticEven(c, body[k])
  <2>1. r = [iters |-> Executed(body[k], q), last |-> q.last]
    BY DEF Share
  <2>2. Executed(body[k], q) \in SUBSET Int
    BY DEF Executed
  <2>3. q.last \in BOOLEAN
    BY DEF StaticEven, StaticChunked
  <2> HIDE DEF q, r
  <2> QED
    BY <2>1, <2>2, <2>3
<1> HIDE DEF r
<1>7. /\ handed'[k] = Append(handed[k], r)
      /\ \A j \in 1 .. Len(body) : j # k => handed'[j] = handed[j]
  BY <1>5, <1>6, GivesTypes
<1>8. Entered(k)' = Entered(k) \cup {c} /\ c \notin Entered(k)
  BY <1>0, <1>2, <1>3 DEF Entered
<1>9. ASSUME NEW j \in 1 .. Len(body), j # k PROVE Entered(j)' = Entered(j)
  <2>1. k >= j <=> k - 1 >= j
    BY <1>0, <1>9
  <2> QED
    BY <1>0, <1>2, <1>3, <2>1 DEF Entered
<1>10. PICK old \in [1 .. Len(handed[k]) -> Entered(k)] : Deals(k, old)
  BY <1>2 DEF Dealt
<1>11. PICK n \in Nat : n = Len(handed[k])
  BY <1>0
<1>12. r \in Shares
  BY <1>6 DEF Shares
<1>13. /\ Len(handed'[k]) = n + 1
       /\ \A i \in 1 .. n : handed'[k][i] = handed[k][i]
       /\ handed'[k][n + 1] = r
  BY <1>0, <1>7, <1>11, <1>12
<1> DEFINE who == [i \in 1 .. n + 1 |-> IF i = n + 1 THEN c ELSE old[i]]
<1>14. \A i \in 1 .. n + 1 : i \in 1 .. n \/ i = n + 1
  BY <1>11
<1>15. who \in [1 .. n + 1 -> Entered(k)']
  BY <1>8, <1>10, <1>11, <1>14
<1>16. who[n + 1] = c /\ \A i \in 1 .. n : who[i] = old[i] /\ who[i] \in Entered(k)
  BY <1>10, <1>11
<1> HIDE DEF who
<1>17. Deals(k, who)'
  <2>1. \A i, j \in 1 .. n + 1 : who[i] = who[j] => i = j
    <3>1. \A i, j \in 1 .. n : old[i] = old[j] => i = j
      BY <1>10, <1>11 DEF Deals
    <3> QED
      BY <1>8, <1>14, <1>16, <3>1
  <2>2. \A i \in 1 .. n + 1 : handed'[k][i] = Share(who[i], body[k])
    <3>1. \A i \in 1 .. n : handed[k][i] = Share(old[i], body[k])
      BY <1>10, <1>11 DEF Deals
    <3> QED
      BY <1>13, <1>14, <1>16, <3>1 DEF r
  <2>3. \A d \in Entered(k)' : \E i \in 1 .. n + 1 : who[i] = d
    <3>1. \A d \in Entered(k) : \E i \in 1 .. n : old[i] = d
      BY <1>10, <1>11 DEF Deals
    <3>2. n + 1 \in 1 .. n + 1 /\ \A i \in 1 .. n : i \in 1 .. n + 1
      BY <1>11
    <3> QED
      BY <1>8, <1>16, <3>1, <3>2
  <2> QED
    BY <1>3, <1>4, <1>13, <2>1, <2>2, <2>3 DEF Deals
<1>18. ASSUME NEW j \in 1 .. Len(body), body[j].kind = "static"
       PROVE  \E w \in [1 .. Len(handed'[j]) -> Entered(j)'] : Deals(j, w)'
  <2>1. CASE j = k
    BY <1>13, <1>15, <1>17, <2>1
  <2>2. CASE j # k
    <3>1. PICK w \in [1 .. Len(handed[j]) -> Entered(j)] : Deals(j, w)
      BY <1>18 DEF Dealt
    <3>2. handed'[j] = handed[j] /\ Entered(j)' = Entered(j)
      BY <1>7, <1>9, <2>2
    <3>3. Deals(j, w)'
      BY <1>3, <1>4, <3>1, <3>2 DEF Deals
    <3> QED
      BY <3>1, <3>2, <3>3
  <2> QED
    BY <2>1, <2>2
<1> QED
  BY <1>3, <1>18 DEF Dealt

\* Part five is preserved.
LEMMA DealtStep ==
  ASSUME ~Mixed, Types, Types', Config, Config', Places, Dealt, [Next]_vars
  PROVE  Dealt'
<1>0. /\ Team \subseteq Cores /\ Len(body) \in Nat /\ pos \in [Cores -> Nat]
      /\ handed \in [1 .. Len(body) -> Seq(Shares)]
  BY TeamFacts, BodyFacts DEF Types
<1>1. ASSUME NEW c \in Cores, Step(c) PROVE Dealt'
  <2>0. Team' = Team /\ UNCHANGED <<body, nbThreads>>
    BY <1>1, StepFrame
  <2>1. ASSUME pos' = pos, \A k \in 1 .. Len(body) : body[k].kind = "static" => handed'[k] = handed[k]
        PROVE  Dealt'
    <3>1. \A k \in 1 .. Len(body) : Entered(k)' = Entered(k)
      BY <2>0, <2>1 DEF Entered
    <3> QED
      BY <2>0, <2>1, <3>1, DealtKept
  <2>2. CASE Wake(c) \/ HandlerDone(c) \/ TaskDone(c) \/ Barrier(c)
    BY <2>1, <2>2 DEF Wake, HandlerDone, TaskDone, Barrier
  <2>3. ASSUME NEW kind \in {"single", "dynamic"}, Enters(c, kind),
               \/ handed' = handed
               \/ \E iters, last : Gives(pos[c] + 1, iters, last)
        PROVE  Dealt'
    <3>1. PICK k \in 1 .. Len(body) :
            /\ pos[c] = k - 1 /\ pos'[c] = k /\ body[k].kind = kind
            /\ \A d \in Cores : d # c => pos'[d] = pos[d]
      BY <2>3, EntersFacts
    <3>2. k = pos[c] + 1
      BY <1>0, <3>1
    <3>3. \A j \in 1 .. Len(body) : body[j].kind = "static" => handed'[j] = handed[j]
      BY <1>0, <2>3, <3>1, <3>2 DEF Gives
    <3>4. ASSUME NEW j \in 1 .. Len(body), body[j].kind = "static" PROVE Entered(j)' = Entered(j)
      <4>1. k >= j <=> k - 1 >= j
        BY <1>0, <2>3, <3>1, <3>4
      <4> QED
        BY <1>0, <2>0, <3>1, <4>1 DEF Entered
    <3> QED
      BY <2>0, <3>3, <3>4, DealtKept
  <2>4. CASE SingleStart(c)
    <3>1. \/ handed' = handed
          \/ \E iters, last : Gives(pos[c] + 1, iters, last)
      BY <2>4 DEF SingleStart
    <3>2. Enters(c, "single")
      BY <2>4 DEF SingleStart
    <3> QED
      BY <2>3, <3>1, <3>2
  <2>5. CASE DispatchInit(c)
    BY <2>3, <2>5 DEF DispatchInit
  <2>6. CASE DispatchNext(c)
    <3>1. pos' = pos /\ pc[c] = "next"
      BY <2>6 DEF DispatchNext
    <3>2. Thread(c)
      BY <3>1, Acting
    <3>3. pos[c] \in 1 .. Len(body) /\ body[pos[c]].kind = "dynamic"
      BY <1>0, <3>1, <3>2 DEF Thread
    <3>4. handed' = handed \/ \E iters, last : Gives(pos[c], iters, last)
      BY <2>6 DEF DispatchNext
    <3>5. \A j \in 1 .. Len(body) : body[j].kind = "static" => handed'[j] = handed[j]
      BY <1>0, <3>3, <3>4 DEF Gives
    <3> QED
      BY <2>1, <3>1, <3>5
  <2> QED
    BY <1>1, <2>2, <2>4, <2>5, <2>6, DealtStatic DEF Step
<1>2. ASSUME body' = <<>> PROVE Dealt'
  <2>1. Len(<<>>) = 0 /\ 1 .. 0 = {}
    OBVIOUS
  <2> QED
    BY <1>2, <2>1 DEF Dealt
<1>3. CASE ForkReturn
  BY <1>2, <1>3 DEF ForkReturn
<1>4. ASSUME ~InRegion, body' = body PROVE Dealt'
  BY <1>2, <1>4 DEF Places
<1>5. ASSUME NEW n \in HandlerCounts, OffloadStart(n) PROVE Dealt'
  BY <1>4, <1>5 DEF OffloadStart, InRegion
<1>6. CASE OffloadEnd
  BY <1>4, <1>6 DEF OffloadEnd, InRegion
<1>7. ASSUME NEW n \in Clauses, NEW b \in Bodies, Fork(n, b) PROVE Dealt'
  <2>1. /\ body' = b /\ pos' = [c \in Cores |-> 0] /\ handed' = [k \in DOMAIN b |-> <<>>]
    BY <1>7 DEF Fork
  <2>2. Len(b) \in Nat /\ DOMAIN b = 1 .. Len(b)
    BY BodyFacts
  <2>3. Team' \subseteq Cores
    BY TeamFactsNext
  <2>4. ASSUME NEW k \in 1 .. Len(b)
        PROVE  \E w \in [1 .. Len(handed'[k]) -> Entered(k)'] : Deals(k, w)'
    <3>1. handed'[k] = <<>> /\ Entered(k)' = {}
      BY <2>1, <2>2, <2>3 DEF Entered
    <3>2. Len(<<>>) = 0 /\ 1 .. 0 = {}
      OBVIOUS
    <3>3. 1 .. Len(handed'[k]) = {}
      BY <3>1, <3>2
    <3>4. [i \in {} |-> 0] \in [{} -> {}]
      OBVIOUS
    <3>5. ASSUME NEW w PROVE Deals(k, w)'
      BY <3>1, <3>3 DEF Deals
    <3> QED
      BY <3>1, <3>3, <3>4, <3>5
  <2> QED
    BY <2>1, <2>4 DEF Dealt
<1>8. CASE UNCHANGED vars
  <2>1. UNCHANGED <<body, nbThreads, handed, pos, partial>>
    BY <1>8 DEF vars
  <2>2. \A k \in 1 .. Len(body) : Entered(k)' = Entered(k)
    BY <2>1 DEF Entered, Team
  <2> QED
    BY <2>1, <2>2, DealtKept
<1> QED
  BY <1>1, <1>3, <1>5, <1>6, <1>7, <1>8 DEF Next

(***************************************************************************)
(* The invariant.                                                           *)
(***************************************************************************)
\* It holds after __rt_omp_init.
LEMMA IInvInit == Init => IInv
<1> SUFFICES ASSUME Init PROVE IInv
  OBVIOUS
<1>1. Len(<<>>) = 0 /\ 1 .. 0 = {} /\ DOMAIN <<>> = {} /\ <<>> \in [1 .. 0 -> Seq(Shares)]
  OBVIOUS
<1>2. Types
  <2>1. pc \in [Cores -> Labels]
    BY DEF Init, Labels
  <2>2. queue \in [Cores -> Seq(Entries)]
    BY DEF Init
  <2> QED
    BY <1>1, <2>1, <2>2 DEF Init, Types
<1>3. ~InRegion /\ Team = Cores
  BY CoreFacts DEF Init, InRegion, Team
<1>4. Config
  BY <1>3, CoreFacts DEF Init, Config
<1>5. Places
  <2>1. queue[0] = <<>>
    BY CoreFacts DEF Init
  <2>2. \A c \in Cores : ~Handling(c)
    BY CoreFacts DEF Init, Handling
  <2>3. \A c \in Cores \ {0} : Idle(c)
    BY DEF Init, Idle
  <2> QED
    BY <1>3, <2>1, <2>2, <2>3 DEF Init, Places
<1>6. Epochs
  BY <1>3 DEF Init, Epochs
<1>7. DynCover /\ NoIterationLost /\ Dealt
  BY <1>1 DEF Init, DynCover, NoIterationLost, Dealt
<1> QED
  BY <1>2, <1>4, <1>5, <1>6, <1>7 DEF IInv

\* Every step keeps it, when no team of fewer cores follows a full one, no
\* offload follows one with miss handlers, and dynamic loops end in a barrier.
LEMMA IInvStep ==
  ASSUME ~Mixed, ~Again, DynamicsWait, IInv, [Next]_vars PROVE IInv'
<1>1. Types /\ Config /\ Places /\ Epochs /\ DynCover /\ NoIterationLost /\ Dealt
  BY DEF IInv
<1>2. Types'
  BY <1>1, TypesStep
<1>3. Config'
  BY <1>1, ConfigStep
<1>4. Places'
  BY <1>1, <1>2, PlacesStep
<1>5. Epochs'
  BY <1>1, <1>2, <1>3, EpochsStep
<1>6. DynCover' /\ NoIterationLost'
  BY <1>1, <1>2, <1>3, DynStep
<1>7. Dealt'
  BY <1>1, <1>2, <1>3, DealtStep
<1> QED
  BY <1>2, <1>3, <1>4, <1>5, <1>6, <1>7 DEF IInv

\* It holds throughout.
THEOREM OmpInvariant ==
  ASSUME ~Mixed, ~Again, DynamicsWait PROVE Spec => []IInv
<1>1. IInv /\ [Next]_vars => IInv'
  BY IInvStep
<1> QED
  BY <1>1, IInvInit, PTL DEF Spec

\* SingleOnce, for any number of cores and any body: a single block is run by
\* one thread only, the first to reach it, because the epoch of the team
\* counts the blocks that have been started and that of a core those it has
\* passed.
THEOREM SinglesRunOnce ==
  ASSUME ~Mixed, ~Again, DynamicsWait PROVE Spec => []SingleOnce
<1>1. ASSUME IInv PROVE SingleOnce
  <2>0. Types /\ Config /\ Places /\ Epochs
    BY <1>1 DEF IInv
  <2>1. DOMAIN handed = 1 .. Len(body) /\ Len(body) \in Nat /\ Team \subseteq Cores
        /\ loop_epoch \in Nat /\ core_epoch \in [Cores -> Nat] /\ pos \in [Cores -> Nat]
    BY <2>0, BodyFacts, TeamFacts DEF Types
  <2>2. SUFFICES ASSUME NEW k \in 1 .. Len(body), body[k].kind = "single"
                 PROVE  Len(handed[k]) <= 1 /\ (Past(k) # {} => Len(handed[k]) = 1)
    BY <2>1 DEF SingleOnce, Construct
  <2>3. InRegion
    <3>1. Len(<<>>) = 0
      OBVIOUS
    <3> QED
      BY <2>0, <2>1, <2>2, <3>1 DEF Places
  <2>4. PICK e \in Nat : EpochsFrom(e)
    BY <2>0, <2>3 DEF Epochs
  <2>5. Len(handed[k]) = (IF loop_epoch >= e + SinglesOf(body, k) THEN 1 ELSE 0)
    BY <2>2, <2>4 DEF EpochsFrom, Singles
  <2>6. ASSUME NEW c \in Past(k) PROVE loop_epoch >= e + SinglesOf(body, k)
    <3>1. c \in Team /\ pos[c] \in Nat /\ pos[c] >= k
      BY <2>1, <2>6 DEF Past, IsPast
    <3>2. SinglesOf(body, k) \in Nat /\ SinglesOf(body, pos[c]) \in Nat
          /\ SinglesOf(body, k) <= SinglesOf(body, pos[c])
      BY <2>1, <3>1, SinglesGrow
    <3>3. core_epoch[c] = e + SinglesOf(body, pos[c]) /\ core_epoch[c] <= loop_epoch
      BY <2>4, <3>1 DEF EpochsFrom, Singles
    <3> QED
      BY <2>1, <3>2, <3>3
  <2> QED
    BY <2>5, <2>6
<1> QED
  BY <1>1, OmpInvariant, PTL

\* NoIterationLost, for any number of cores and any body: the bounds in the
\* shared place are those of the one loop that threads are in, and what lies
\* before the next chunk has been handed out.
THEOREM NoneLost ==
  ASSUME ~Mixed, ~Again, DynamicsWait PROVE Spec => []NoIterationLost
<1>1. IInv => NoIterationLost
  BY DEF IInv
<1> QED
  BY <1>1, OmpInvariant, PTL

(***************************************************************************)
(* The arithmetic of static loops.                                          *)
(***************************************************************************)
\* Quotient and remainder.
LEMMA DivMod ==
  ASSUME NEW z \in Int, NEW n \in Nat \ {0}
  PROVE  \E q \in Int, l \in 0 .. n - 1 : z = q * n + l /\ z \div n = q /\ z % n = l
BY Z3

\* They are unique.
LEMMA DivModUnique ==
  ASSUME NEW n \in Nat \ {0}, NEW c \in 0 .. n - 1, NEW d \in 0 .. n - 1,
         NEW j \in Int, NEW k \in Int, c + j * n = d + k * n
  PROVE  c = d /\ j = k
BY Z3

\* Products of natural numbers.
LEMMA Products ==
  ASSUME NEW a \in Nat, NEW b \in Nat, NEW q \in Nat, a <= b
  PROVE  a * q <= b * q /\ a * q \in Nat /\ (a + 1) * q = a * q + q
BY Z3

\* The first iteration of thread c when every thread gets q iterations and
\* the first l threads one more.
Lo(q, l, c) == c * q + (IF c < l THEN c ELSE l)

\* The parts of the threads follow each other.
LEMMA LoFacts ==
  ASSUME NEW q \in Nat, NEW l \in Nat, NEW c \in Nat
  PROVE  /\ Lo(q, l, c) \in Nat
         /\ Lo(q, l, c + 1) = Lo(q, l, c) + q + (IF c < l THEN 1 ELSE 0)
         /\ \A d \in Nat : c <= d => Lo(q, l, c) <= Lo(q, l, d)
<1>1. c * q \in Nat /\ (c + 1) * q = c * q + q
  BY Products
<1>2. ASSUME NEW d \in Nat, c <= d PROVE Lo(q, l, c) <= Lo(q, l, d)
  <2>1. c * q <= d * q /\ d * q \in Nat
    BY <1>2, Products
  <2> QED
    BY <1>1, <1>2, <2>1 DEF Lo
<1> QED
  BY <1>1, <1>2 DEF Lo

\* Every iteration lies in the part of a thread.
LEMMA LoCover ==
  ASSUME NEW q \in Nat, NEW n \in Nat \ {0}, NEW l \in 0 .. n - 1,
         NEW i \in 0 .. q * n + l - 1
  PROVE  \E c \in 0 .. n - 1 : Lo(q, l, c) <= i /\ i < Lo(q, l, c + 1)
<1>0. l * (q + 1) \in Nat /\ q * n \in Nat /\ l * (q + 1) = l * q + l /\ l * q \in Nat
  BY Z3
<1>1. CASE i < l * (q + 1)
  <2>1. PICK c \in Int, x \in 0 .. q : i = c * (q + 1) + x
    <3>1. PICK g \in Nat \ {0} : g = q + 1
      OBVIOUS
    <3>2. \E c \in Int, x \in 0 .. g - 1 : i = c * g + x
      <4>1. i \in Int
        BY <1>0
      <4> QED
        BY <4>1, DivMod
    <3> QED
      BY <3>1, <3>2
  <2>2. c >= 0
    BY <2>1, Z3
  <2>3. c < l
    BY <1>0, <1>1, <2>1, <2>2, Z3
  <2>4. c \in 0 .. n - 1 /\ c * (q + 1) = c * q + c /\ c * q \in Nat
    BY <2>2, <2>3, Z3
  <2>5. Lo(q, l, c) = c * q + c /\ Lo(q, l, c + 1) = Lo(q, l, c) + q + 1
    BY <2>2, <2>3, <2>4, LoFacts DEF Lo
  <2> QED
    BY <2>1, <2>4, <2>5
<1>2. CASE i >= l * (q + 1)
  <2>0. q > 0
    <3>1. ASSUME q = 0 PROVE FALSE
      BY <1>0, <1>2, <3>1
    <3> QED
      BY <3>1
  <2>1. PICK d \in Int, x \in 0 .. q - 1 : i - l * (q + 1) = d * q + x
    <3>1. q \in Nat \ {0} /\ i - l * (q + 1) \in Int
      BY <1>0, <2>0
    <3> QED
      BY <3>1, DivMod
  <2>2. d >= 0
    BY <1>0, <1>2, <2>0, <2>1, Z3
  <2>3. i - l * (q + 1) < (n - l) * q
    <3>1. (n - l) * q = q * n - l * q
      BY Z3
    <3> QED
      BY <1>0, <3>1
  <2>4. d < n - l
    BY <2>0, <2>1, <2>2, <2>3, Z3
  <2>5. l + d \in 0 .. n - 1 /\ l + d \in Nat /\ ~(l + d < l)
    BY <2>2, <2>4
  <2>6. (l + d) * q = l * q + d * q /\ d * q \in Nat
    BY <2>2, Z3
  <2>7. Lo(q, l, l + d) = (l + d) * q + l /\ Lo(q, l, l + d + 1) = Lo(q, l, l + d) + q
    BY <2>5, <2>6, <1>0, LoFacts DEF Lo
  <2>8. Lo(q, l, l + d) <= i /\ i < Lo(q, l, l + d + 1)
    BY <1>0, <2>1, <2>6, <2>7
  <2> QED
    BY <2>5, <2>8
<1> QED
  BY <1>0, <1>1, <1>2

\* A static loop as the compiler hands it over.
Loop(s) ==
  /\ s.lower = 0 /\ s.incr = 1 /\ s.upper \in Nat
  /\ s.sched = 34 \/ (s.sched = 33 /\ s.chunk \in Nat \ {0})

\* What a thread runs, without and with a chunk size
EvenPart(u, q, l, c) == {i \in 0 .. u : Lo(q, l, c) <= i /\ i < Lo(q, l, c + 1)}
ChunkPart(u, g, n, c) == {i \in 0 .. u : \E j \in 0 .. u : i \div g = c + j * n}

\* Each of n threads gets q of the iterations 0 to u, and l are left over.
Splits(u, n, q, l) == u + 1 = q * n + l /\ (u + 1) \div n = q

EvenCase(s, n, u, q, l) ==
  /\ n \in Nat \ {0} /\ u \in Nat /\ q \in Nat /\ l \in 0 .. n - 1
  /\ Loop(s) /\ s.sched = 34 /\ nbThreads = n /\ s.upper = u /\ Splits(u, n, q, l)

\* Without a chunk size a thread runs the iterations from its first one up to
\* the first one of the next thread.
LEMMA EvenShare ==
  ASSUME NEW s, NEW n, NEW u, NEW q, NEW l, EvenCase(s, n, u, q, l), NEW c \in 0 .. n - 1
  PROVE  /\ Share(c, s).iters = EvenPart(u, q, l, c)
         /\ Share(c, s).last <=> u \in Share(c, s).iters
<1> n \in Nat \ {0} /\ u \in Nat /\ q \in Nat /\ l \in 0 .. n - 1
  BY DEF EvenCase
<1> Loop(s) /\ s.sched = 34 /\ nbThreads = n /\ s.upper = u /\ Splits(u, n, q, l)
  BY DEF EvenCase
<1>s. u + 1 = q * n + l /\ (u + 1) \div n = q
  BY DEF Splits
<1> DEFINE r == StaticEven(c, s)
           a == Lo(q, l, c)
           z == Lo(q, l, c + 1)
<1>0. /\ a \in Nat /\ z \in Nat /\ z = a + q + (IF c < l THEN 1 ELSE 0)
      /\ q * n \in Nat /\ c * q \in Nat
  <2>1. c \in Nat /\ c + 1 \in Nat /\ l \in Nat
    OBVIOUS
  <2>2. a \in Nat /\ z = a + q + (IF c < l THEN 1 ELSE 0)
    <3>1. c * q \in Nat /\ (c + 1) * q = c * q + q
      BY <2>1, Products
    <3> QED
      BY <2>1, <3>1 DEF Lo
  <2>4. z \in Nat
    BY <2>1, <2>2
  <2>3. q * n \in Nat /\ c * q \in Nat
    BY <2>1, Z3
  <2> QED
    BY <2>2, <2>3, <2>4
<1>1. (s.upper - s.lower) \div s.incr + 1 = u + 1
  BY DEF Loop
<1>2. (u + 1) - q * n = l
  BY <1>0, <1>s
<1>3. r.lower = a /\ r.upper = z - 1
  <2>1. CASE c < l
    <3>1. c * (q + 1) * 1 = c * q + c
      BY Z3
    <3>2. r.lower = 0 + c * (q + 1) * 1 + 0
      BY <1>s, <1>1, <1>2, <2>1 DEF StaticEven, Loop
    <3>3. r.upper = r.lower + (q + 1) * 1 - 1
      BY <1>s, <1>1, <1>2, <2>1 DEF StaticEven, Loop
    <3> QED
      BY <1>0, <2>1, <3>1, <3>2, <3>3 DEF Lo
  <2>2. CASE ~(c < l)
    <3>1. r.lower = 0 + c * (q + 0) * 1 + l
      BY <1>s, <1>1, <1>2, <2>2 DEF StaticEven, Loop
    <3>2. r.upper = r.lower + (q + 0) * 1 - 1
      BY <1>s, <1>1, <1>2, <2>2 DEF StaticEven, Loop
    <3>3. c * (q + 0) * 1 = c * q
      BY Z3
    <3> QED
      BY <1>0, <2>2, <3>1, <3>2, <3>3 DEF Lo
  <2> QED
    BY <2>1, <2>2
<1>4. r.stride \in Int /\ (r.last <=> r.upper = u /\ r.lower <= u)
  <2>1. r.stride = u + 1
    BY <1>1 DEF StaticEven
  <2>2. u + 1 \in Int
    BY DEF Loop
  <2>3. r.last <=> r.upper = u /\ r.lower <= u
    BY DEF StaticEven
  <2> QED
    BY <2>1, <2>2, <2>3
<1>5. Share(c, s) = [iters |-> Executed(s, r), last |-> r.last]
  BY DEF Share
<1> HIDE DEF r, a, z
<1>6. Executed(s, r) = {i \in 0 .. u : a <= i /\ i < z}
  <2>1. Executed(s, r) = {i \in 0 .. u :
                            /\ r.lower + 0 * r.stride <= i
                            /\ i <= r.upper + 0 * r.stride
                            /\ (i - r.lower) % 1 = 0}
    BY DEF Executed, Loop
  <2>2. ASSUME NEW i \in Int
        PROVE  /\ r.lower + 0 * r.stride <= i <=> a <= i
               /\ i <= r.upper + 0 * r.stride <=> i < z
               /\ (i - r.lower) % 1 = 0
    BY <1>0, <1>3, <1>4
  <2> QED
    BY <2>1, <2>2
<1>7. z <= u + 1
  <2>1. Lo(q, l, n) = u + 1
    BY <1>0, <1>s DEF Lo
  <2>2. c + 1 \in Nat /\ c + 1 <= n
    OBVIOUS
  <2>3. Lo(q, l, c + 1) <= Lo(q, l, n)
    BY <2>2, LoFacts
  <2> QED
    BY <2>1, <2>3 DEF z
<1>8. r.last <=> u \in {i \in 0 .. u : a <= i /\ i < z}
  BY <1>0, <1>3, <1>4, <1>7 DEF Loop
<1> QED
  BY <1>5, <1>6, <1>8 DEF a, z, EvenPart
\* The chunk an iteration is in.
LEMMA ChunkOf ==
  ASSUME NEW g \in Nat \ {0}, NEW i \in Int, NEW m \in Int
  PROVE  (g * m <= i /\ i <= g * m + g - 1) <=> i \div g = m
<1>1. PICK q \in Int, x \in 0 .. g - 1 : i = q * g + x /\ i \div g = q
  BY DivMod
<1>2. g * q = q * g /\ q * g \in Int /\ g * m \in Int
  BY Z3
<1>3. g * q <= i /\ i <= g * q + g - 1
  BY <1>1, <1>2
<1>4. (g * m <= i /\ i <= g * m + g - 1) => m = q
  BY <1>3, Z3
<1> QED
  BY <1>1, <1>3, <1>4

\* With a chunk size g a thread runs every nth chunk, for n threads.
LEMMA ChunkShare ==
  ASSUME NEW s, Loop(s), s.sched = 33, NEW n \in Nat \ {0}, nbThreads = n,
         NEW g \in Nat \ {0}, s.chunk = g, NEW u \in Nat, s.upper = u,
         NEW c \in 0 .. n - 1
  PROVE  /\ Share(c, s).iters = ChunkPart(u, g, n, c)
         /\ Share(c, s).last <=> u \in Share(c, s).iters
<1> DEFINE r == StaticChunked(c, s)
<1>0. g * c \in Nat /\ g * n \in Nat \ {0}
  BY Z3
<1>1. /\ r.lower = g * c /\ r.upper = g * c + g - 1 /\ r.stride = g * n
      /\ r.last <=> ((u - (u % g)) - g * c) % (g * n) = 0
  <2>1. s.incr * s.chunk = g /\ s.lower = 0 /\ s.incr = 1
    BY DEF Loop
  <2>2. s.lower + (s.incr * s.chunk) * c = g * c
    BY <1>0, <2>1
  <2> QED
    BY <2>1, <2>2 DEF StaticChunked
<1>2. Share(c, s) = [iters |-> Executed(s, r), last |-> r.last]
  BY DEF Share
<1> HIDE DEF r
<1>3. ASSUME NEW i \in 0 .. u, NEW j \in 0 .. u
      PROVE  (/\ r.lower + j * r.stride <= i
              /\ i <= r.upper + j * r.stride
              /\ (i - r.lower) % 1 = 0) <=> i \div g = c + j * n
  <2>1. PICK m \in Int : m = c + j * n
    BY Z3
  <2>2. g * m = g * c + j * (g * n)
    BY <2>1, Z3
  <2>3. j * (g * n) \in Int /\ g * m \in Int
    BY Z3
  <2>4. r.lower + j * r.stride = g * m /\ r.upper + j * r.stride = g * m + g - 1
    BY <1>0, <1>1, <2>2, <2>3
  <2>5. (i - r.lower) % 1 = 0
    BY <1>0, <1>1
  <2>6. (g * m <= i /\ i <= g * m + g - 1) <=> i \div g = m
    <3>1. i \in Int
      OBVIOUS
    <3> QED
      BY <3>1, ChunkOf
  <2> QED
    BY <2>1, <2>4, <2>5, <2>6
<1>4. Executed(s, r) = {i \in 0 .. u : \E j \in 0 .. u : i \div g = c + j * n}
  <2>1. Executed(s, r) = {i \in 0 .. u : \E j \in 0 .. u :
                            /\ r.lower + j * r.stride <= i
                            /\ i <= r.upper + j * r.stride
                            /\ (i - r.lower) % 1 = 0}
    BY DEF Executed, Loop
  <2> QED
    BY <1>3, <2>1
<1>5. PICK m \in Int, x \in 0 .. g - 1 : u = m * g + x /\ u \div g = m /\ u % g = x
  BY DivMod
<1>6. m >= 0 /\ m <= u /\ u - (u % g) - g * c = g * (m - c)
  <2>1. m >= 0
    BY <1>5, Z3
  <2>2. m <= m * g
    BY <2>1, Z3
  <2>3. m * g \in Int /\ g * (m - c) = m * g - g * c
    BY Z3
  <2> QED
    BY <1>0, <1>5, <2>1, <2>2, <2>3
<1>7. PICK y \in Int, w \in 0 .. g * n - 1 :
         g * (m - c) = y * (g * n) + w /\ (g * (m - c)) % (g * n) = w
  <2>1. PICK t \in Int, h \in Nat \ {0} : t = g * (m - c) /\ h = g * n
    <3>1. g * (m - c) \in Int
      BY Z3
    <3> QED
      BY <1>0, <3>1
  <2>2. \E y \in Int, w \in 0 .. h - 1 : t = y * h + w /\ t % h = w
    BY DivMod
  <2> QED
    BY <2>1, <2>2
<1>8. r.last <=> w = 0
  BY <1>1, <1>6, <1>7
<1>9. ASSUME w = 0 PROVE \E j \in 0 .. u : m = c + j * n
  <2>1. g * (m - c) = g * (y * n)
    BY <1>7, <1>9, Z3
  <2>2. y * n \in Int
    BY Z3
  <2>3. m - c = y * n
    BY <2>1, <2>2, Z3
  <2>4. y >= 0
    <3>1. ASSUME y <= -1 PROVE FALSE
      <4>1. y * n <= -n
        BY <3>1, Z3
      <4> QED
        BY <1>6, <2>2, <2>3, <4>1
    <3> QED
      BY <3>1
  <2>5. y <= y * n
    BY <2>4, Z3
  <2> QED
    BY <1>6, <2>2, <2>3, <2>4, <2>5
<1>10. ASSUME NEW j \in 0 .. u, m = c + j * n PROVE w = 0
  <2>1. g * (m - c) = j * (g * n)
    BY <1>10, Z3
  <2>2. PICK h \in Nat \ {0} : h = g * n
    BY <1>0
  <2>3. 0 + j * h = w + y * h /\ 0 \in 0 .. h - 1 /\ w \in 0 .. h - 1
    BY <1>7, <2>1, <2>2, Z3
  <2> QED
    BY <2>3, DivModUnique
<1>11. w = 0 <=> u \in {i \in 0 .. u : \E j \in 0 .. u : i \div g = c + j * n}
  <2>1. u \in 0 .. u
    OBVIOUS
  <2>2. w = 0 <=> \E j \in 0 .. u : m = c + j * n
    BY <1>9, <1>10
  <2> QED
    BY <1>5, <2>1, <2>2
<1> QED
  BY <1>2, <1>4, <1>8, <1>11 DEF ChunkPart

\* The shares of the threads 0 to n - 1: disjoint, and together the loop; the
\* one with the last iteration is marked.
LEMMA SharesExact ==
  ASSUME NEW s, Loop(s), nbThreads \in Nat \ {0}
  PROVE  /\ \A c, d \in 0 .. nbThreads - 1 :
               c # d => Share(c, s).iters \cap Share(d, s).iters = {}
         /\ \A c \in 0 .. nbThreads - 1 :
               /\ Share(c, s).iters \subseteq 0 .. s.upper
               /\ Share(c, s).last <=> s.upper \in Share(c, s).iters
         /\ \A i \in 0 .. s.upper : \E c \in 0 .. nbThreads - 1 : i \in Share(c, s).iters
<1>0. PICK n \in Nat \ {0}, u \in Nat : nbThreads = n /\ s.upper = u
  BY DEF Loop
<1>1. CASE s.sched = 34
  <2>1. PICK q \in Int, l \in 0 .. n - 1 : u + 1 = q * n + l /\ (u + 1) \div n = q
    <3>1. u + 1 \in Int
      OBVIOUS
    <3> QED
      BY <3>1, DivMod
  <2>2. q \in Nat /\ l \in Nat
    <3>1. q >= 0
      BY <2>1, Z3
    <3> QED
      BY <3>1
  <2>3. ASSUME NEW c \in 0 .. n - 1
        PROVE  /\ Share(c, s).iters = EvenPart(u, q, l, c)
               /\ Share(c, s).last <=> u \in Share(c, s).iters
    <3>1. /\ Loop(s) /\ s.sched = 34 /\ nbThreads = n /\ s.upper = u
          /\ Splits(u, n, q, l)
      BY <1>0, <1>1, <2>1, <2>2 DEF Splits
    <3>2. n \in Nat \ {0} /\ u \in Nat /\ q \in Nat /\ l \in 0 .. n - 1
      BY <2>1, <2>2
    <3>3. EvenCase(s, n, u, q, l)
      BY <3>1, <3>2 DEF EvenCase
    <3> QED
      BY <3>3, EvenShare, Zenon
  <2>4. ASSUME NEW c \in 0 .. n - 1, NEW d \in 0 .. n - 1, c < d
        PROVE  Share(c, s).iters \cap Share(d, s).iters = {}
    <3>1. c + 1 \in Nat /\ d \in Nat /\ c + 1 <= d
      BY <2>4
    <3>2. Lo(q, l, c + 1) \in Nat /\ Lo(q, l, d) \in Nat /\ Lo(q, l, c + 1) <= Lo(q, l, d)
      BY <2>2, <3>1, LoFacts
    <3> QED
      BY <2>3, <3>2 DEF EvenPart
  <2>5. ASSUME NEW i \in 0 .. u PROVE \E c \in 0 .. n - 1 : i \in Share(c, s).iters
    <3>1. i \in 0 .. q * n + l - 1
      BY <2>1
    <3>2. \E c \in 0 .. n - 1 : Lo(q, l, c) <= i /\ i < Lo(q, l, c + 1)
      BY <2>2, <3>1, LoCover
    <3> QED
      BY <2>3, <3>2 DEF EvenPart
  <2>6. \A c, d \in 0 .. n - 1 : c # d => c < d \/ d < c
    OBVIOUS
  <2>7. \A c \in 0 .. n - 1 : Share(c, s).iters \subseteq 0 .. u
    BY <2>3 DEF EvenPart
  <2>8. \A c, d \in 0 .. n - 1 : c # d => Share(c, s).iters \cap Share(d, s).iters = {}
    BY <2>4, <2>6
  <2> QED
    BY <1>0, <2>3, <2>5, <2>7, <2>8
<1>2. CASE s.sched = 33
  <2>1. PICK g \in Nat \ {0} : s.chunk = g
    BY <1>2 DEF Loop
  <2>2. ASSUME NEW c \in 0 .. n - 1
        PROVE  /\ Share(c, s).iters = ChunkPart(u, g, n, c)
               /\ Share(c, s).last <=> u \in Share(c, s).iters
    <3>1. Loop(s) /\ s.sched = 33 /\ nbThreads = n /\ s.upper = u /\ s.chunk = g
      BY <1>0, <1>2, <2>1
    <3> QED
      BY <3>1, ChunkShare
  <2>3. ASSUME NEW c \in 0 .. n - 1, NEW d \in 0 .. n - 1, c # d
        PROVE  Share(c, s).iters \cap Share(d, s).iters = {}
    <3>1. SUFFICES ASSUME NEW i, i \in Share(c, s).iters, i \in Share(d, s).iters
                   PROVE  FALSE
      OBVIOUS
    <3>2. PICK j \in 0 .. u : i \div g = c + j * n
      BY <2>2, <3>1 DEF ChunkPart
    <3>3. PICK k \in 0 .. u : i \div g = d + k * n
      BY <2>2, <3>1 DEF ChunkPart
    <3>4. c + j * n = d + k * n /\ j \in Int /\ k \in Int
      BY <3>2, <3>3
    <3> QED
      BY <2>3, <3>4, DivModUnique
  <2>4. ASSUME NEW i \in 0 .. u PROVE \E c \in 0 .. n - 1 : i \in Share(c, s).iters
    <3>1. PICK m \in Int, x \in 0 .. g - 1 : i = m * g + x /\ i \div g = m
      <4>1. i \in Int
        OBVIOUS
      <4> QED
        BY <4>1, DivMod
    <3>2. m >= 0
      BY <3>1, Z3
    <3>3. m <= m * g
      BY <3>2, Z3
    <3>4. m <= u
      <4>1. m * g \in Int
        BY Z3
      <4> QED
        BY <3>1, <3>3, <4>1
    <3>5. PICK j \in Int, c \in 0 .. n - 1 : m = j * n + c
      BY DivMod
    <3>6. j >= 0
      BY <3>2, <3>5, Z3
    <3>7. j <= j * n
      BY <3>6, Z3
    <3>8. j * n \in Int
      BY Z3
    <3>9. j \in 0 .. u /\ m = c + j * n
      BY <3>4, <3>5, <3>6, <3>7, <3>8
    <3> QED
      BY <2>2, <3>1, <3>9 DEF ChunkPart
  <2>5. \A c \in 0 .. n - 1 : Share(c, s).iters \subseteq 0 .. u
    BY <2>2 DEF ChunkPart
  <2> QED
    BY <1>0, <2>2, <2>3, <2>4, <2>5
<1> QED
  BY <1>1, <1>2 DEF Loop

\* StaticExact, for any number of threads, any loop and any chunk size: every
\* thread that has entered the loop has been given its share once, and the
\* shares divide the loop.
THEOREM StaticLoopsExact ==
  ASSUME ~Mixed, ~Again, DynamicsWait PROVE Spec => []StaticExact
<1>1. ASSUME IInv PROVE StaticExact
  <2>0. Types /\ Config /\ Dealt
    BY <1>1 DEF IInv
  <2>1. DOMAIN handed = 1 .. Len(body) /\ Len(body) \in Nat /\ Team \subseteq Cores
        /\ pos \in [Cores -> Nat] /\ handed \in [1 .. Len(body) -> Seq(Shares)]
    BY <2>0, BodyFacts, TeamFacts DEF Types
  <2>2. Team = 0 .. nbThreads - 1 /\ nbThreads \in Nat \ {0}
    <3>1. nbThreads \in 1 .. NumCores /\ (~partial => nbThreads = NumCores)
      BY <2>0 DEF Config
    <3>2. CASE partial
      BY <3>1, <3>2, CoreFacts DEF Team, First, Cores
    <3>3. CASE ~partial
      BY <3>1, <3>3, CoreFacts DEF Team, Cores
    <3> QED
      BY <3>2, <3>3
  <2>3. ASSUME NEW k \in 1 .. Len(body), body[k].kind = "static"
        PROVE  /\ Disjoint(k)
               /\ \A i \in DOMAIN handed[k] :
                    handed[k][i].last <=> body[k].upper \in handed[k][i].iters
               /\ Past(k) = Team => UNION Parts(k) = body[k].lower .. body[k].upper
    <3>1. Loop(body[k]) /\ body[k].lower = 0
      BY <2>0, <2>3, BodyFacts DEF Loop, Types
    <3>2. DOMAIN handed[k] = 1 .. Len(handed[k])
      BY <2>1
    <3>3. PICK who \in [1 .. Len(handed[k]) -> Entered(k)] : Deals(k, who)
      BY <2>0, <2>3 DEF Dealt
    <3>4. ASSUME NEW i \in DOMAIN handed[k]
          PROVE  who[i] \in 0 .. nbThreads - 1 /\ handed[k][i] = Share(who[i], body[k])
      BY <2>2, <3>2, <3>3 DEF Deals, Entered
    <3>5. Disjoint(k)
      <4>1. ASSUME NEW i \in DOMAIN handed[k], NEW j \in DOMAIN handed[k], i # j
            PROVE  who[i] # who[j]
        BY <3>2, <3>3, <4>1 DEF Deals
      <4>2. \A c, d \in 0 .. nbThreads - 1 :
               c # d => Share(c, body[k]).iters \cap Share(d, body[k]).iters = {}
        BY <2>2, <3>1, SharesExact
      <4> QED
        BY <3>4, <4>1, <4>2 DEF Disjoint
    <3>6. \A i \in DOMAIN handed[k] :
            handed[k][i].last <=> body[k].upper \in handed[k][i].iters
      BY <2>2, <3>1, <3>4, SharesExact
    <3>7. ASSUME Past(k) = Team PROVE UNION Parts(k) = 0 .. body[k].upper
      <4>1. Entered(k) = Team
        BY <2>1, <3>7 DEF Past, IsPast, Entered
      <4>2. \A c \in 0 .. nbThreads - 1 : \E i \in DOMAIN handed[k] : who[i] = c
        BY <2>2, <3>2, <3>3, <4>1 DEF Deals
      <4>3. ASSUME NEW x \in 0 .. body[k].upper PROVE x \in UNION Parts(k)
        <5>1. PICK c \in 0 .. nbThreads - 1 : x \in Share(c, body[k]).iters
          BY <2>2, <3>1, SharesExact
        <5>2. PICK i \in DOMAIN handed[k] : who[i] = c
          BY <4>2
        <5>3. x \in handed[k][i].iters
          BY <3>4, <5>1, <5>2
        <5> QED
          BY <5>3 DEF Parts
      <4>4. ASSUME NEW i \in DOMAIN handed[k] PROVE handed[k][i].iters \subseteq 0 .. body[k].upper
        BY <2>2, <3>1, <3>4, SharesExact
      <4> QED
        BY <4>3, <4>4 DEF Parts
    <3> QED
      BY <3>1, <3>5, <3>6, <3>7
  <2> QED
    BY <2>1, <2>3 DEF StaticExact, Construct
<1> QED
  BY <1>1, OmpInvariant, PTL
=============================================================================
