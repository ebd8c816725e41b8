--------------------------- MODULE RabMissProofs ---------------------------
(***************************************************************************)
(* Miss handling by the host never runs out of slices and forgets no miss, *)
(* for every number of slices, of dates and of misses, if the host changes *)
(* the mode only when no miss is outstanding and enables miss handling     *)
(* only while no miss holds a slice.                                       *)
(***************************************************************************)
EXTENDS RabMiss, TLAPS, FiniteSetTheorems

\* The slices that misses may take.
Ring == Slices \ Kept

\* Misses are outstanding only while miss handling is enabled.
Busy == ~Quiet => mh

\* The handler counts from zero, and the FIFO has Depth entries.
Counted == (wpc = "idle" => n = 0) /\ Len(fifo) <= Depth

\* Below k the slices are of this round, from k on of the last one.
SplitAt(k) == \A t \in Ring : /\ t < k => sl[t].exp = date
                              /\ t >= k => Expired(date, sl[t].exp)

\* While a slice is being set up it is neither.
SplitAround(k) == \A t \in Ring : /\ t < k => sl[t].exp = date
                                  /\ t > k => Expired(date, sl[t].exp)

Rounds ==
    mh /\ lvl = 1 =>
        /\ wpc = "setup" => req.date = date /\ SplitAround(req.slice)
        /\ wpc # "setup" => \E k \in Slices : SplitAt(k)

\* Only slices of the ring are set up.
Picked == wpc = "setup" => req.slice \in Ring

MissInv == MissTypeOK /\ Busy /\ Counted /\ NoMissForgotten /\ Picked /\ Rounds
----------------------------------------------------------------------------
(***************************************************************************)
(* A constant mapping never counts as expired, whatever the date.          *)
(***************************************************************************)
LEMMA KeptNotExpired ==
    ASSUME NEW d \in 0 .. MaxDateMh PROVE ~Expired(d, MaxDate)
BY MissAssumption DEF Expired, MaxDate

(***************************************************************************)
(* A round is expired in the next, also when the dates start over.         *)
(***************************************************************************)
LEMMA RoundExpires ==
    ASSUME NEW d \in 0 .. MaxDateMh
    PROVE  NextDate(d) \in 0 .. MaxDateMh /\ Expired(NextDate(d), d)
BY MissAssumption DEF Expired, NextDate

(***************************************************************************)
(* The slices that may be taken are no constant mappings.                  *)
(***************************************************************************)
LEMMA TakeableInRing ==
    ASSUME MissTypeOK PROVE Takeable \subseteq Ring
<1>1. SUFFICES ASSUME NEW s \in Takeable, s \in Kept PROVE FALSE
  BY DEF Takeable, Ring
<1>2. sl[s].exp = MaxDate
  BY <1>1 DEF MissTypeOK, Free
<1>3. date \in 0 .. MaxDateMh
  BY DEF MissTypeOK
<1> QED
  BY <1>1, <1>2, <1>3, KeptNotExpired DEF Takeable

(***************************************************************************)
(* The last slice is no constant mapping.                                  *)
(***************************************************************************)
LEMMA LastInRing == N - 1 \in Ring /\ N - 1 \in Slices /\ Kept \subseteq Slices
BY MissAssumption DEF Ring, Slices

(***************************************************************************)
(* In a round the last slice is always left to take.                       *)
(***************************************************************************)
LEMMA SplitLeavesOne ==
    ASSUME NEW k \in Slices, SplitAt(k) PROVE N - 1 \in Takeable
<1>1. k <= N - 1
  BY MissAssumption DEF Slices
<1> QED
  BY <1>1, LastInRing, MissAssumption DEF SplitAt, Takeable, Slices

LEMMA CountsKept ==
    ASSUME NEW S, NEW f \in [S -> Int], NEW x PROVE [f EXCEPT ![x] = @ - 1] \in [S -> Int]
<1>1. CASE x \in S
  <2>1. f[x] - 1 \in Int
    BY <1>1
  <2> QED
    BY <1>1, <2>1
<1>2. CASE x \notin S
  BY <1>2, Zenon
<1> QED
  BY <1>1, <1>2

LEMMA HoldsNat == ASSUME NEW p PROVE Holds(p) \in Nat
<1>1. IsFiniteSet(Slices)
  BY MissAssumption, FS_Interval DEF Slices
<1>2. IsFiniteSet({s \in Slices : sl[s].page = p})
  BY <1>1, FS_Subset
<1> QED
  BY <1>2, FS_CardinalityType DEF Holds
----------------------------------------------------------------------------
(***************************************************************************)
(* Types.  Flags and data are separate, for the provers' sake.             *)
(***************************************************************************)
Flags == mh \in BOOLEAN /\ irq \in BOOLEAN /\ sched \in BOOLEAN

SlicesOK == /\ sl \in [Slices -> [page : Pages \cup {NoPage}, exp : 0 .. MaxDate]]
            /\ \A s \in Kept : sl[s] = Free(s)

QueueOK == fifo \in Seq(Misses) /\ cur \in Misses \cup {NoMiss} /\ seen \subseteq Pages

DataOK ==
    /\ lvl \in {0, 1} /\ date \in 0 .. MaxDateMh
    /\ pins \in [Pages -> Int]
    /\ wait \in [PEs -> Pages \cup {NoPage}]
    /\ wpc \in {"idle", "read", "pin", "get", "setup", "wake"}
    /\ n \in 0 .. Depth
    /\ req \in [date : 0 .. MaxDateMh, slice : Slices]

LEMMA TypeParts == MissTypeOK <=> Flags /\ SlicesOK /\ QueueOK /\ DataOK
BY Zenon DEF MissTypeOK, Flags, SlicesOK, QueueOK, DataOK

LEMMA FlagsKept == ASSUME Flags, [MissNext]_missVars PROVE Flags'
BY Zenon DEF Flags, missVars, MissNext, Access, Prefetch, OtherMiss, Miss, IsrMiss,
   Work, WorkStart, WorkEnd, WorkRead, WorkPin, WorkGet, WorkSetup, WorkWake,
   hostVars, SetModeHost, SetModeNone, Release, CtrlReset, Enable, Disable

(***************************************************************************)
(* A taken slice is emptied and belongs to the ring.                       *)
(***************************************************************************)
LEMMA WorkGetCases ==
    ASSUME MissTypeOK, WorkGet
    PROVE  \/ \E s \in Ring : (s \in Takeable \/ lvl = 0) /\ Take(s) /\ (\A t \in Takeable : s <= t)
           \/ Takeable = {} /\ lvl = 1 /\ GiveUp /\ UNCHANGED <<sl, pins, req>>
<1>1. CASE \E s \in Takeable : (\A t \in Takeable : s <= t) /\ Take(s)
  BY <1>1, TakeableInRing, Zenon
<1>2. CASE Takeable = {} /\ lvl = 0 /\ Take(N - 1)
  BY <1>2, LastInRing, Zenon
<1> QED
  BY <1>1, <1>2, Zenon DEF WorkGet

LEMMA QueueKept == ASSUME QueueOK, [MissNext]_missVars PROVE QueueOK'
<1>1. ASSUME NEW f \in PEs \cup Others, NEW p \in Pages, Miss(f, p) PROVE QueueOK'
  <2>1. [from |-> f, page |-> p] \in Misses
    BY DEF Misses
  <2> QED
    BY <1>1, <2>1 DEF QueueOK, Miss, workVars
<1>2. ASSUME WorkRead PROVE QueueOK'
  <2>1. fifo # <<>> /\ fifo \in Seq(Misses)
    BY <1>2 DEF WorkRead, BatchEnds, QueueOK
  <2>2. Head(fifo) \in Misses /\ Tail(fifo) \in Seq(Misses)
    BY <2>1
  <2>3. Head(fifo).page \in Pages
    BY <2>2 DEF Misses
  <2> QED
    BY <1>2, <2>2, <2>3 DEF WorkRead, QueueOK
<1>3. ASSUME WorkGet PROVE QueueOK'
  BY <1>3 DEF WorkGet, Take, GiveUp, QueueOK
<1>4. ASSUME WorkPin PROVE QueueOK'
  BY <1>4 DEF WorkPin, GiveUp, QueueOK
<1>5. ASSUME CtrlReset PROVE QueueOK'
  BY <1>5 DEF CtrlReset, QueueOK, workVars
<1>6. ASSUME WorkEnd \/ WorkStart \/ WorkSetup \/ WorkWake PROVE QueueOK'
  BY <1>6 DEF WorkEnd, WorkStart, WorkSetup, WorkWake, QueueOK
<1>7. ASSUME IsrMiss \/ SetModeHost \/ SetModeNone \/ Release \/ UNCHANGED missVars
      PROVE  QueueOK'
  BY <1>7 DEF IsrMiss, SetModeHost, SetModeNone, Release, QueueOK, workVars, missVars
<1>8. ASSUME NEW c \in PEs, NEW p \in Pages, Access(c, p) PROVE QueueOK'
  BY <1>1, <1>8 DEF Access
<1>9. ASSUME NEW p \in Pages, Prefetch(p) \/ OtherMiss(p) PROVE QueueOK'
  BY <1>1, <1>9 DEF Prefetch, OtherMiss, Others
<1> QED
  BY <1>2, <1>3, <1>4, <1>5, <1>6, <1>7, <1>8, <1>9 DEF MissNext, Work

LEMMA SlicesKept == ASSUME MissTypeOK, Picked, [MissNext]_missVars PROVE SlicesOK'
<1> USE DEF SlicesOK
<1>0. SlicesOK /\ req.date \in 0 .. MaxDate /\ cur.page \in Pages \cup {NoPage}
  BY MissAssumption DEF MissTypeOK, MaxDate, Misses, NoMiss
<1>1. ASSUME NEW s \in Ring, Take(s) PROVE SlicesOK'
  BY <1>0, <1>1, MissAssumption DEF Take, WorkFree, Ring, MaxDate
<1>2. ASSUME WorkGet PROVE SlicesOK'
  BY <1>0, <1>1, <1>2, WorkGetCases
<1>3. ASSUME FreeAll PROVE SlicesOK'
  <2>1. \A s \in Slices : Free(s) \in [page : Pages \cup {NoPage}, exp : 0 .. MaxDate]
    BY MissAssumption DEF Free, MaxDate
  <2> QED
    BY <1>3, <2>1, LastInRing DEF FreeAll
<1>4. ASSUME WorkSetup PROVE SlicesOK'
  BY <1>0, <1>4 DEF WorkSetup, Ring, Picked
<1>5. ASSUME sl' = sl PROVE SlicesOK'
  BY <1>0, <1>5, Zenon DEF Free
<1>6. ASSUME NEW f, NEW p, Miss(f, p) PROVE sl' = sl
  BY <1>6 DEF Miss
<1>7. ASSUME WorkStart \/ WorkEnd \/ WorkRead \/ WorkPin \/ WorkWake \/ IsrMiss
             \/ SetModeHost \/ SetModeNone \/ UNCHANGED missVars
      PROVE  sl' = sl
  BY <1>7, Zenon DEF WorkStart, WorkEnd, WorkRead, WorkPin, WorkWake, IsrMiss, SetModeHost,
     SetModeNone, missVars
<1>8. ASSUME Release \/ CtrlReset PROVE FreeAll
  BY <1>8, Zenon DEF Release, CtrlReset
<1> QED
  BY <1>2, <1>3, <1>4, <1>5, <1>6, <1>7, <1>8, Zenon
  DEF MissNext, Work, Access, Prefetch, OtherMiss

LEMMA DataKept == ASSUME MissTypeOK, [MissNext]_missVars PROVE DataOK'
<1>0. DataOK
  BY TypeParts
<1> USE DEF DataOK
<1>1. ASSUME NEW s \in Slices, Take(s), UNCHANGED <<hostVars, date, wait, n>> PROVE DataOK'
  <2>1. Unpin(s) \in [Pages -> Int]
    <3>1. pins \in [Pages -> Int]
      BY <1>0
    <3> QED
      BY <3>1, CountsKept, Zenon DEF Unpin
  <2>2. pins' \in [Pages -> Int]
    BY <1>1, <2>1, Zenon DEF Take, WorkFree
  <2>3. req' \in [date : 0 .. MaxDateMh, slice : Slices] /\ wpc' = "setup"
    BY <1>0, <1>1 DEF Take
  <2> QED
    BY <1>0, <1>1, <2>2, <2>3 DEF hostVars
<1>2. ASSUME WorkGet PROVE DataOK'
  <2>1. UNCHANGED <<hostVars, date, wait, n>>
    BY <1>2 DEF WorkGet
  <2>2. ASSUME GiveUp, UNCHANGED <<pins, req>> PROVE DataOK'
    BY <1>0, <2>1, <2>2 DEF GiveUp, hostVars
  <2> QED
    BY <1>1, <1>2, <2>1, <2>2, WorkGetCases DEF Ring
<1>3. ASSUME FreeAll PROVE pins' \in [Pages -> Int]
  BY <1>0, <1>3, HoldsNat DEF FreeAll
<1>4. ASSUME Release \/ CtrlReset PROVE DataOK'
  <2>1. pins' \in [Pages -> Int]
    BY <1>3, <1>4 DEF Release, CtrlReset
  <2> QED
    BY <1>0, <1>4, <2>1, MissAssumption DEF Release, CtrlReset, Disable, workVars
<1>5. ASSUME WorkSetup PROVE DataOK'
  BY <1>0, <1>5, RoundExpires, LastInRing, MissAssumption DEF WorkSetup, NoReq, hostVars, Slices
<1>6. ASSUME WorkWake PROVE DataOK'
  BY <1>0, <1>6 DEF WorkWake, hostVars
<1>7. ASSUME WorkRead PROVE DataOK'
  BY <1>0, <1>7, MissAssumption DEF WorkRead, BatchEnds, hostVars
<1>8. ASSUME WorkPin PROVE DataOK'
  BY <1>0, <1>8 DEF WorkPin, GiveUp, hostVars
<1>9. ASSUME WorkStart \/ WorkEnd PROVE DataOK'
  BY <1>0, <1>9, MissAssumption DEF WorkStart, WorkEnd, hostVars
<1>10. ASSUME IsrMiss \/ SetModeNone \/ SetModeHost \/ UNCHANGED missVars PROVE DataOK'
  BY <1>0, <1>10, MissAssumption DEF IsrMiss, SetModeNone, SetModeHost, Enable, Disable,
     hostVars, workVars, missVars
<1>11. ASSUME NEW c \in PEs, NEW p \in Pages, Access(c, p) PROVE DataOK'
  BY <1>0, <1>11 DEF Access, Miss, hostVars, workVars
<1>12. ASSUME NEW p \in Pages, Prefetch(p) \/ OtherMiss(p) PROVE DataOK'
  BY <1>0, <1>12 DEF Prefetch, OtherMiss, Miss, hostVars, workVars
<1> HIDE DEF DataOK
<1> QED
  BY <1>2, <1>4, <1>5, <1>6, <1>7, <1>8, <1>9, <1>10, <1>11, <1>12, Zenon DEF MissNext, Work
----------------------------------------------------------------------------
(***************************************************************************)
(* The other parts of the invariant.                                       *)
(***************************************************************************)
LEMMA BusyKept ==
    ASSUME ~Overlap, Busy, [MissNext]_missVars PROVE Busy'
<1> USE DEF Busy, Quiet
<1>1. ASSUME Quiet, ~mh PROVE Busy'
  BY <1>1, Zenon DEF MissNext, Work, Access, Prefetch, OtherMiss, Miss, IsrMiss, WorkStart,
     WorkEnd, WorkRead, WorkPin, WorkGet, WorkSetup, WorkWake, SetModeHost, SetModeNone,
     Release, CtrlReset, missVars, workVars
<1>2. ASSUME Quiet PROVE Busy'
  BY <1>2, Zenon DEF MissNext, Work, Access, Prefetch, OtherMiss, Miss, IsrMiss, WorkStart,
     WorkEnd, WorkRead, WorkPin, WorkGet, WorkSetup, WorkWake, SetModeHost, SetModeNone,
     Release, CtrlReset, missVars, workVars, hostVars
<1>3. ASSUME ~Quiet PROVE mh'
  BY <1>3, Zenon DEF MissNext, Work, Access, Prefetch, OtherMiss, Miss, IsrMiss, WorkStart,
     WorkEnd, WorkRead, WorkPin, WorkGet, WorkSetup, WorkWake, SetModeHost, SetModeNone,
     Release, CtrlReset, missVars, hostVars
<1> QED
  BY <1>2, <1>3, Zenon

LEMMA CountedKept ==
    ASSUME MissTypeOK, Counted, [MissNext]_missVars PROVE Counted'
<1>0. fifo \in Seq(Misses) /\ Len(fifo) \in Nat /\ Depth \in Nat \ {0}
  BY MissAssumption DEF MissTypeOK
<1> USE DEF Counted
<1>1. ASSUME NEW f, NEW p, Miss(f, p) PROVE Counted'
  BY <1>0, <1>1 DEF Miss, workVars
<1>2. ASSUME WorkRead PROVE Counted'
  BY <1>0, <1>2 DEF WorkRead, BatchEnds
<1>3. ASSUME CtrlReset PROVE Counted'
  BY <1>0, <1>3 DEF CtrlReset, workVars
<1>4. ASSUME WorkEnd PROVE Counted'
  BY <1>0, <1>4 DEF WorkEnd
<1>5. ASSUME WorkStart \/ WorkPin \/ WorkGet \/ WorkSetup \/ WorkWake PROVE Counted'
  BY <1>0, <1>5 DEF WorkStart, WorkPin, WorkGet, WorkSetup, WorkWake, Take, GiveUp
<1>6. ASSUME IsrMiss \/ SetModeHost \/ SetModeNone \/ Release \/ UNCHANGED missVars
      PROVE  Counted'
  BY <1>0, <1>6 DEF IsrMiss, SetModeHost, SetModeNone, Release, missVars, workVars
<1> HIDE DEF Counted
<1> QED
  BY <1>1, <1>2, <1>3, <1>4, <1>5, <1>6, Zenon DEF MissNext, Work, Access, Prefetch, OtherMiss

LEMMA ForgottenKept ==
    ASSUME MissTypeOK, Busy, Counted, NoMissForgotten, [MissNext]_missVars
    PROVE  NoMissForgotten'
<1>0. fifo \in Seq(Misses) /\ Len(fifo) \in Nat /\ Depth \in Nat \ {0} /\ n \in 0 .. Depth
  BY MissAssumption DEF MissTypeOK
<1>1. ASSUME NEW f, NEW p, Miss(f, p) PROVE NoMissForgotten'
  BY <1>1, Zenon DEF Miss, NoMissForgotten
<1>2. ASSUME IsrMiss PROVE NoMissForgotten'
  BY <1>2, Zenon DEF IsrMiss, NoMissForgotten, Busy, Quiet, workVars
<1>3. ASSUME WorkStart PROVE NoMissForgotten'
  BY <1>0, <1>3 DEF WorkStart, NoMissForgotten, Counted
<1>4. ASSUME WorkEnd PROVE NoMissForgotten'
  <2>1. fifo = <<>> \/ irq \/ sched
    BY <1>0, <1>4 DEF WorkEnd, BatchEnds, NoMissForgotten
  <2> QED
    BY <1>4, <2>1, Zenon DEF WorkEnd, NoMissForgotten
<1>5. ASSUME WorkRead PROVE NoMissForgotten'
  <2>1. fifo # <<>> /\ Len(fifo') = Len(fifo) - 1 /\ n' = n + 1 /\ wpc' # "idle"
    BY <1>0, <1>5 DEF WorkRead, BatchEnds
  <2>2. irq' = irq /\ sched' = sched
    BY <1>5, Zenon DEF WorkRead
  <2>3. CASE irq \/ sched
    BY <2>2, <2>3, Zenon DEF NoMissForgotten
  <2>4. CASE n + Len(fifo) <= Depth
    <3>1. n' + Len(fifo') <= Depth
      BY <1>0, <2>1, <2>4
    <3> QED
      BY <2>1, <3>1, Zenon DEF NoMissForgotten
  <2> QED
    BY <2>1, <2>3, <2>4, Zenon DEF NoMissForgotten
<1>6. ASSUME WorkPin \/ WorkGet \/ WorkSetup \/ WorkWake PROVE NoMissForgotten'
  <2>1. UNCHANGED <<fifo, irq, sched, n>> /\ wpc # "idle" /\ wpc' # "idle"
    BY <1>6 DEF WorkPin, WorkGet, WorkSetup, WorkWake, Take, GiveUp
  <2> QED
    BY <2>1, Zenon DEF NoMissForgotten
<1>7. ASSUME CtrlReset PROVE NoMissForgotten'
  BY <1>7, Zenon DEF CtrlReset, NoMissForgotten
<1>8. ASSUME SetModeHost \/ SetModeNone \/ Release \/ UNCHANGED missVars
      PROVE  NoMissForgotten'
  BY <1>8, Zenon DEF SetModeHost, SetModeNone, Release, missVars, workVars, NoMissForgotten
<1> QED
  BY <1>1, <1>2, <1>3, <1>4, <1>5, <1>6, <1>7, <1>8, Zenon
  DEF MissNext, Work, Access, Prefetch, OtherMiss

LEMMA PickedKept == ASSUME MissTypeOK, Picked, [MissNext]_missVars PROVE Picked'
<1>1. ASSUME WorkGet PROVE Picked'
  BY <1>1, WorkGetCases DEF Picked, Take, GiveUp
<1>2. ASSUME WorkStart \/ WorkEnd \/ WorkRead \/ WorkPin \/ WorkSetup \/ WorkWake PROVE Picked'
  BY <1>2 DEF Picked, WorkStart, WorkEnd, WorkRead, WorkPin, WorkSetup, WorkWake, GiveUp
<1>3. ASSUME UNCHANGED <<wpc, req>> PROVE Picked'
  BY <1>3, Zenon DEF Picked, Ring, Slices
<1>4. ASSUME NEW f, NEW p, Miss(f, p) PROVE UNCHANGED <<wpc, req>>
  BY <1>4, Zenon DEF Miss, workVars
<1>5. ASSUME IsrMiss \/ SetModeHost \/ SetModeNone \/ Release \/ CtrlReset \/ UNCHANGED missVars
      PROVE  UNCHANGED <<wpc, req>>
  BY <1>5, Zenon DEF IsrMiss, SetModeHost, SetModeNone, Release, CtrlReset, missVars, workVars
<1> QED
  BY <1>1, <1>2, <1>3, <1>4, <1>5, Zenon DEF MissNext, Work, Access, Prefetch, OtherMiss

(***************************************************************************)
(* Enabling starts a round in which all slices are left.                   *)
(***************************************************************************)
LEMMA RoundsStart ==
    ASSUME ~Overlap, ~Reenables, SetModeHost PROVE Rounds'
<1>1. SUFFICES ASSUME mh' PROVE wpc' # "setup" /\ SplitAt(0)'
  BY LastInRing, MissAssumption DEF Rounds, Slices
<1>2. wpc' = "idle"
  BY DEF SetModeHost, Quiet, workVars
<1>3. date' = 1 /\ sl' = sl
  BY <1>1, Zenon DEF SetModeHost, Enable
<1>4. \A t \in Ring : sl[t].exp = 0
  <2>1. \A t \in Slices : sl[t] = Free(t)
    BY Zenon DEF SetModeHost
  <2>2. ASSUME NEW t \in Ring PROVE Free(t).exp = 0
    BY DEF Ring, Free
  <2> QED
    BY <2>1, <2>2 DEF Ring
<1> QED
  BY <1>2, <1>3, <1>4 DEF SplitAt, Expired, Ring, Slices

(***************************************************************************)
(* The slice that is taken is the border between the two rounds.           *)
(***************************************************************************)
LEMMA RoundsTake ==
    ASSUME MissTypeOK, NEW k \in Slices, SplitAt(k), NEW s \in Ring, s \in Takeable,
           Take(s), \A t \in Takeable : s <= t, UNCHANGED date
    PROVE  (req.date = date)' /\ SplitAround(req.slice)'
<1>1. req'.date = date /\ req'.slice = s
  BY DEF Take
<1>2. date \in 0 .. MaxDateMh /\ ~Expired(date, date)
  BY MissAssumption DEF MissTypeOK, Expired
<1>3. ASSUME NEW t \in Ring, t # s PROVE sl'[t] = sl[t]
  BY <1>3 DEF Take, WorkFree, MissTypeOK, Ring
<1>4. Ring \subseteq Int /\ Ring \subseteq Slices /\ k \in Int
  BY MissAssumption DEF Ring, Slices
<1>5. ASSUME NEW t \in Ring, t < s PROVE sl'[t].exp = date
  <2>1. t \notin Takeable
    BY <1>4, <1>5
  <2>2. t < k
    BY <1>4, <2>1 DEF SplitAt, Takeable
  <2> QED
    BY <1>3, <1>4, <1>5, <2>2 DEF SplitAt
<1>6. ASSUME NEW t \in Ring, t > s PROVE Expired(date, sl'[t].exp)
  <2>1. ~(s < k)
    BY <1>2 DEF SplitAt, Takeable
  <2>2. t >= k
    BY <1>4, <1>6, <2>1
  <2> QED
    BY <1>3, <1>4, <1>6, <2>2 DEF SplitAt
<1>7. SplitAround(s)'
  BY <1>5, <1>6 DEF SplitAround, Expired, Ring, Slices
<1> QED
  BY <1>1, <1>7 DEF SplitAround, Expired, Ring, Slices

(***************************************************************************)
(* Setting up moves the border; behind the last slice a new round begins.  *)
(***************************************************************************)
LEMMA RoundsSetup ==
    ASSUME MissTypeOK, Picked, lvl = 1, req.date = date, SplitAround(req.slice), WorkSetup
    PROVE  \E k \in Slices : SplitAt(k)'
<1>0. PICK r \in Ring : r = req.slice
  BY DEF Picked, WorkSetup
<1>1. Ring \subseteq Int /\ Ring \subseteq Slices /\ r \in Int /\ N \in Nat \ {0}
  BY MissAssumption DEF Ring, Slices
<1>2. sl'[r].exp = date /\ \A t \in Ring : t # r => sl'[t] = sl[t]
  BY <1>0, <1>1 DEF WorkSetup, MissTypeOK
<1>5. \A t \in Ring : /\ t < r => sl[t].exp = date
                      /\ t > r => Expired(date, sl[t].exp)
  BY <1>0 DEF SplitAround
<1>3. CASE r = N - 1
  <2>1. date' = NextDate(date) /\ Expired(NextDate(date), date)
    BY <1>0, <1>3, RoundExpires DEF WorkSetup, MissTypeOK
  <2>2. \A t \in Ring : sl'[t].exp = date
    <3>1. \A t \in Ring : t <= N - 1
      BY MissAssumption DEF Ring, Slices
    <3> QED
      BY <1>1, <1>2, <1>3, <1>5, <3>1
  <2>3. \A t \in Ring : Expired(date', sl'[t].exp) /\ ~(t < 0)
    BY <1>1, <2>1, <2>2 DEF Slices
  <2>4. SplitAt(0)'
    BY <2>3 DEF SplitAt, Expired, Ring, Slices
  <2> QED
    BY <2>4, MissAssumption DEF Slices
<1>4. CASE r # N - 1
  <2>1. date' = date
    BY <1>0, <1>4 DEF WorkSetup
  <2>2. r + 1 \in Slices
    BY <1>1, <1>4 DEF Slices, Ring
  <2>3. ASSUME NEW t \in Ring, t < r + 1 PROVE sl'[t].exp = date
    BY <1>1, <1>2, <1>5, <2>3
  <2>4. ASSUME NEW t \in Ring, t >= r + 1 PROVE Expired(date, sl'[t].exp)
    BY <1>1, <1>2, <1>5, <2>4
  <2>5. SplitAt(r + 1)'
    BY <2>1, <2>3, <2>4 DEF SplitAt, Expired, Ring, Slices
  <2> QED
    BY <2>2, <2>5
<1> QED
  BY <1>3, <1>4

LEMMA RoundsKept ==
    ASSUME ~Overlap, ~Reenables, MissTypeOK, Picked, Rounds, [MissNext]_missVars
    PROVE  Rounds'
<1>1. ASSUME WorkGet PROVE Rounds'
  <2>1. UNCHANGED <<mh, lvl, date>> /\ wpc = "get"
    BY <1>1, Zenon DEF WorkGet, hostVars
  <2>2. SUFFICES ASSUME mh, lvl = 1
                 PROVE  /\ wpc' = "setup" => (req.date = date)' /\ SplitAround(req.slice)'
                        /\ wpc' # "setup" => \E k \in Slices : SplitAt(k)'
    BY <2>1, Zenon DEF Rounds, Slices
  <2>3. PICK k \in Slices : SplitAt(k)
    BY <2>1, <2>2, Zenon DEF Rounds
  <2>4. Takeable # {}
    BY <2>3, SplitLeavesOne
  <2>5. PICK s \in Ring : s \in Takeable /\ Take(s) /\ \A t \in Takeable : s <= t
    BY <1>1, <2>2, <2>4, WorkGetCases
  <2>6. wpc' = "setup"
    BY <2>5 DEF Take
  <2> QED
    BY <2>1, <2>3, <2>5, <2>6, RoundsTake
<1>2. ASSUME WorkSetup PROVE Rounds'
  <2>1. UNCHANGED <<mh, lvl>> /\ wpc = "setup" /\ wpc' = "wake"
    BY <1>2, Zenon DEF WorkSetup, hostVars
  <2>2. ASSUME mh, lvl = 1 PROVE \E k \in Slices : SplitAt(k)'
    <3>1. req.date = date /\ SplitAround(req.slice)
      BY <2>1, <2>2, Zenon DEF Rounds
    <3> QED
      BY <1>2, <2>2, <3>1, RoundsSetup
  <2>3. wpc' # "setup"
    BY <2>1
  <2> QED
    BY <2>1, <2>2, <2>3, Zenon DEF Rounds, Slices
<1>3. ASSUME UNCHANGED <<mh, lvl, date, sl>>, wpc # "setup", wpc' # "setup" PROVE Rounds'
  BY <1>3, Zenon DEF Rounds, SplitAt, Expired, Ring, Slices
<1>4. ASSUME UNCHANGED <<mh, lvl, date, sl, wpc, req>> PROVE Rounds'
  BY <1>4, Zenon DEF Rounds, SplitAt, SplitAround, Expired, Ring, Slices
<1>5. ASSUME SetModeNone \/ Release \/ CtrlReset PROVE Rounds'
  BY <1>5, Zenon DEF SetModeNone, Release, CtrlReset, Disable, Rounds
<1>6. ASSUME SetModeHost PROVE Rounds'
  BY <1>6, RoundsStart, Zenon
<1>7. ASSUME WorkStart \/ WorkEnd \/ WorkRead \/ WorkPin \/ WorkWake PROVE Rounds'
  <2>1. wpc # "setup" /\ wpc' # "setup"
    BY <1>7 DEF WorkStart, WorkEnd, WorkRead, WorkPin, WorkWake, GiveUp
  <2>2. UNCHANGED <<mh, lvl, date, sl>>
    BY <1>7, Zenon DEF WorkStart, WorkEnd, WorkRead, WorkPin, WorkWake, hostVars
  <2> QED
    BY <1>3, <2>1, <2>2, Zenon
<1>8. ASSUME IsrMiss \/ (\E f, p : Miss(f, p)) \/ UNCHANGED missVars
      PROVE  UNCHANGED <<mh, lvl, date, sl, wpc, req>>
  BY <1>8, Zenon DEF IsrMiss, Miss, missVars, hostVars, workVars
<1> QED
  BY <1>1, <1>2, <1>4, <1>5, <1>6, <1>7, <1>8, Zenon
  DEF MissNext, Work, Access, Prefetch, OtherMiss
----------------------------------------------------------------------------
(***************************************************************************)
(* The invariant holds initially and is kept by every step.                *)
(***************************************************************************)
LEMMA InitMissInv == MissInit => MissInv
<1> SUFFICES ASSUME MissInit PROVE MissInv
  OBVIOUS
<1> USE DEF MissInit
<1>1. Flags
  BY Zenon DEF Flags
<1>2. SlicesOK
  BY LastInRing, MissAssumption DEF SlicesOK, Free, MaxDate
<1>3. QueueOK
  BY DEF QueueOK
<1>4. DataOK
  BY MissAssumption DEF DataOK, NoReq, Slices
<1>5. Busy /\ NoMissForgotten /\ Rounds
  BY Zenon DEF Busy, Quiet, NoMissForgotten, Rounds
<1>6. Counted /\ Picked
  BY MissAssumption DEF Counted, Picked
<1> QED
  BY <1>1, <1>2, <1>3, <1>4, <1>5, <1>6, TypeParts, Zenon DEF MissInv

(***************************************************************************)
(* The inductive invariant of the miss handler.                            *)
(***************************************************************************)
THEOREM MissInvariant ==
    ASSUME ~Overlap, ~Reenables PROVE MissSpec => []MissInv
<1>1. ASSUME MissInv, [MissNext]_missVars PROVE MissInv'
  <2>1. MissTypeOK /\ Busy /\ Counted /\ NoMissForgotten /\ Picked /\ Rounds
    BY <1>1, Zenon DEF MissInv
  <2>2. Flags'
    BY <1>1, <2>1, TypeParts, FlagsKept, Zenon
  <2>3. SlicesOK' /\ DataOK'
    BY <1>1, <2>1, SlicesKept, DataKept, Zenon
  <2>4. QueueOK'
    BY <1>1, <2>1, TypeParts, QueueKept, Zenon
  <2>5. MissTypeOK'
    BY <2>2, <2>3, <2>4, Zenon DEF MissTypeOK, Flags, SlicesOK, QueueOK, DataOK
  <2>6. Busy' /\ Counted' /\ NoMissForgotten'
    BY <1>1, <2>1, BusyKept, CountedKept, ForgottenKept, Zenon
  <2>7. Picked' /\ Rounds'
    BY <1>1, <2>1, PickedKept, RoundsKept, Zenon
  <2> QED
    BY <2>5, <2>6, <2>7, Zenon DEF MissInv
<1> QED
  BY <1>1, InitMissInv, PTL DEF MissSpec

(***************************************************************************)
(* rab_mh_date stays a date of the miss handler, and the constant mappings *)
(* are never taken over.                                                   *)
(***************************************************************************)
THEOREM MissTypes ==
    ASSUME ~Overlap, ~Reenables PROVE MissSpec => []MissTypeOK
<1>1. MissInv => MissTypeOK
  BY Zenon DEF MissInv
<1> QED
  BY <1>1, MissInvariant, PTL

(***************************************************************************)
(* The rounds leave a slice for the miss at hand.                          *)
(***************************************************************************)
LEMMA RoundsServe == ASSUME MissInv PROVE NeverRefused
<1>1. SUFFICES ASSUME wpc = "get", lvl = 1 PROVE Takeable # {}
  BY DEF NeverRefused
<1>2. mh
  BY <1>1 DEF MissInv, Busy, Quiet
<1>3. PICK k \in Slices : SplitAt(k)
  BY <1>1, <1>2 DEF MissInv, Rounds
<1> QED
  BY <1>3, SplitLeavesOne

(***************************************************************************)
(* pulp_rab_slice_get finds a slice for every miss, whatever the number of *)
(* slices and dates and however often the dates have started over.         *)
(***************************************************************************)
THEOREM SliceForEveryMiss ==
    ASSUME ~Overlap, ~Reenables PROVE MissSpec => []NeverRefused
<1>1. MissInv => NeverRefused
  BY RoundsServe
<1> QED
  BY <1>1, MissInvariant, PTL

(***************************************************************************)
(* No miss stays in the FIFO without an interrupt, a pending work item or  *)
(* an execution that will read it, for any depth of the FIFO.              *)
(***************************************************************************)
THEOREM EveryMissSeen ==
    ASSUME ~Overlap, ~Reenables PROVE MissSpec => []NoMissForgotten
<1>1. MissInv => NoMissForgotten
  BY Zenon DEF MissInv
<1> QED
  BY <1>1, MissInvariant, PTL
----------------------------------------------------------------------------
(***************************************************************************)
(* Pinned pages.  HeldBy(p) are the slices that map page p.  The slice     *)
(* that is being set up maps nothing, and the handler always has a page    *)
(* in hand for it.                                                         *)
(***************************************************************************)
HeldBy(p) == {s \in Slices : sl[s].page = p}

InHand == /\ wpc \in {"pin", "get", "setup"} => cur.page \in Pages
          /\ wpc = "setup" => sl[req.slice].page = NoPage

PinInv == InHand /\ PinsExact

\* The slices that map a page are finitely many.
LEMMA HeldFinite == ASSUME NEW p PROVE IsFiniteSet(HeldBy(p)) /\ IsFiniteSet(HeldBy(p)')
<1>1. IsFiniteSet(Slices)
  BY MissAssumption, FS_Interval DEF Slices
<1>2. HeldBy(p) \subseteq Slices /\ HeldBy(p)' \subseteq Slices
  BY DEF HeldBy, Slices
<1> QED
  BY <1>1, <1>2, FS_Subset

\* pulp_rab_slice_free takes the slice from the one page that it mapped.
LEMMA TakeReleases ==
    ASSUME SlicesOK, NEW s \in Slices, Take(s), NEW p \in Pages
    PROVE  /\ HeldBy(p)' = HeldBy(p) \ {s}
           /\ Holds(p)' = IF sl[s].page = p THEN Holds(p) - 1 ELSE Holds(p)
<1>1. sl' = [sl EXCEPT ![s] = [page |-> NoPage, exp |-> 0]]
  BY DEF Take, WorkFree
<1>2. NoPage # p
  BY NoPageAssumption
<1>3. sl'[s].page = NoPage /\ \A t \in Slices : t # s => sl'[t] = sl[t]
  BY <1>1 DEF SlicesOK
<1>4. HeldBy(p)' = HeldBy(p) \ {s}
  BY <1>2, <1>3 DEF HeldBy, Slices
<1>5. s \in HeldBy(p) <=> sl[s].page = p
  BY DEF HeldBy
<1>6. Holds(p) = Cardinality(HeldBy(p)) /\ Holds(p)' = Cardinality(HeldBy(p)')
  BY DEF Holds, HeldBy
<1> QED
  BY <1>4, <1>5, <1>6, HeldFinite, FS_RemoveElement

\* Setting up a slice that maps nothing adds it to those of its page.
LEMMA SetupHolds ==
    ASSUME SlicesOK, NEW r \in Slices, sl[r].page = NoPage,
           NEW q \in Pages, NEW d, sl' = [sl EXCEPT ![r] = [page |-> q, exp |-> d]],
           NEW p \in Pages
    PROVE  Holds(p)' = IF p = q THEN Holds(p) + 1 ELSE Holds(p)
<1>1. NoPage # p
  BY NoPageAssumption
<1>2. sl'[r].page = q /\ \A t \in Slices : t # r => sl'[t] = sl[t]
  BY DEF SlicesOK
<1>3. r \notin HeldBy(p)
  BY <1>1 DEF HeldBy
<1>4. HeldBy(p)' = IF p = q THEN HeldBy(p) \cup {r} ELSE HeldBy(p)
  <2>1. \A t \in Slices : t \in HeldBy(p)' <=> IF t = r THEN p = q ELSE t \in HeldBy(p)
    BY <1>2 DEF HeldBy, Slices
  <2>2. HeldBy(p) \subseteq Slices /\ HeldBy(p)' \subseteq Slices
    BY DEF HeldBy, Slices
  <2> QED
    BY <1>3, <2>1, <2>2
<1>5. Holds(p) = Cardinality(HeldBy(p)) /\ Holds(p)' = Cardinality(HeldBy(p)')
  BY DEF Holds, HeldBy
<1> QED
  BY <1>3, <1>4, <1>5, HeldFinite, FS_AddElement

\* Freeing all slices leaves none to any page.
LEMMA FreeAllHolds == ASSUME FreeAll, NEW p \in Pages PROVE Holds(p)' = 0
<1>1. \A s \in Slices : sl'[s].page = NoPage
  BY DEF FreeAll, Free
<1>2. {s \in Slices : sl'[s].page = p} = {}
  BY <1>1, NoPageAssumption
<1> QED
  BY <1>2, FS_EmptySet DEF Holds, Slices

\* Every step keeps the pages pinned exactly as often as they are mapped.
LEMMA PinInvKept ==
    ASSUME ~Overlap, MissInv, PinInv, [MissNext]_missVars
    PROVE  PinInv'
<1>0. /\ SlicesOK /\ DataOK /\ QueueOK /\ MissTypeOK /\ NeverRefused /\ Picked
      /\ pins \in [Pages -> Int]
  BY TypeParts, RoundsServe DEF MissInv, DataOK
<1>1. ASSUME NEW p \in Pages PROVE Holds(p) \in Nat /\ pins[p] \in Int
  BY <1>0, HoldsNat
<1>2. ASSUME UNCHANGED <<sl, pins, wpc, cur, req>> PROVE PinInv'
  BY <1>2 DEF PinInv, InHand, PinsExact, Holds
<1>3. ASSUME UNCHANGED <<sl, pins>>, wpc \notin {"get", "setup"}, wpc' \notin {"get", "setup"},
             wpc' = "pin" => cur'.page \in Pages
      PROVE  PinInv'
  BY <1>3 DEF PinInv, InHand, PinsExact, Holds
<1>4. ASSUME FreeAll, wpc = "idle", wpc' = "idle" PROVE PinInv'
  <2>1. InHand'
    BY <1>4 DEF InHand
  <2>2. ASSUME NEW p \in Pages PROVE pins'[p] = Holds(p)'
    <3>1. pins[p] = Holds(p)
      BY <1>1, <1>4 DEF PinInv, PinsExact
    <3>2. pins'[p] = 0
      BY <1>1, <1>4, <3>1 DEF FreeAll
    <3> QED
      BY <1>4, <3>2, FreeAllHolds
  <2>3. ASSUME NEW p \in Pages PROVE Holds(p)' + 0 = Holds(p)'
    BY <1>4, FreeAllHolds
  <2> QED
    BY <1>4, <2>1, <2>2, <2>3 DEF PinInv, PinsExact
<1>5. CASE WorkPin
  <2>1. wpc = "pin" /\ cur.page \in Pages /\ sl' = sl
    BY <1>5 DEF WorkPin, PinInv, InHand
  <2>2. CASE cur.page \in BadPages
    BY <1>3, <1>5, <2>1, <2>2 DEF WorkPin, GiveUp
  <2>3. CASE cur.page \notin BadPages
    <3>1. /\ wpc' = "get" /\ cur' = cur
          /\ pins' = [pins EXCEPT ![cur.page] = @ + 1]
      BY <1>5, <2>3 DEF WorkPin
    <3>2. ASSUME NEW p \in Pages
          PROVE  pins'[p] = Holds(p) + IF cur.page = p THEN 1 ELSE 0
      <4>1. pins[p] = Holds(p)
        BY <1>1, <2>1 DEF PinInv, PinsExact
      <4> QED
        BY <1>0, <1>1, <3>1, <4>1
    <3>3. \A p \in Pages : Holds(p)' = Holds(p)
      BY <2>1 DEF Holds
    <3> QED
      BY <2>1, <3>1, <3>2, <3>3 DEF PinInv, InHand, PinsExact
  <2> QED
    BY <2>2, <2>3
<1>6. CASE WorkGet
  <2>1. PICK s \in Ring : Take(s)
    BY <1>0, <1>6, WorkGetCases DEF NeverRefused, WorkGet
  <2>2. s \in Slices /\ wpc = "get" /\ wpc' = "setup" /\ cur' = cur /\ req'.slice = s
    BY <1>6, <2>1 DEF Ring, WorkGet, Take
  <2>3. cur.page \in Pages
    BY <2>2 DEF PinInv, InHand
  <2>4. sl'[s].page = NoPage
    BY <1>0, <2>1, <2>2 DEF Take, WorkFree, SlicesOK
  <2>5. ASSUME NEW p \in Pages
        PROVE  pins'[p] = Holds(p)' + IF cur.page = p THEN 1 ELSE 0
    <3>1. pins[p] = Holds(p) + IF cur.page = p THEN 1 ELSE 0
      BY <2>2 DEF PinInv, PinsExact
    <3>2. Holds(p)' = IF sl[s].page = p THEN Holds(p) - 1 ELSE Holds(p)
      BY <1>0, <2>1, <2>2, TakeReleases
    <3>3. pins'[p] = IF sl[s].page = p THEN pins[p] - 1 ELSE pins[p]
      <4>1. pins' = Unpin(s)
        BY <2>1 DEF Take, WorkFree
      <4>2. sl[s].page \in Pages \cup {NoPage}
        BY <1>0, <2>2 DEF SlicesOK
      <4> QED
        BY <1>0, <4>1, <4>2, NoPageAssumption DEF Unpin
    <3> QED
      BY <1>1, <3>1, <3>2, <3>3
  <2> QED
    BY <2>2, <2>3, <2>4, <2>5 DEF PinInv, InHand, PinsExact
<1>7. CASE WorkSetup
  <2>1. /\ wpc = "setup" /\ wpc' = "wake" /\ pins' = pins
        /\ sl' = [sl EXCEPT ![req.slice] = [page |-> cur.page, exp |-> req.date]]
        /\ req.slice \in Slices /\ cur.page \in Pages /\ sl[req.slice].page = NoPage
    BY <1>0, <1>7 DEF WorkSetup, PinInv, InHand, DataOK
  <2>2. ASSUME NEW p \in Pages PROVE pins'[p] = Holds(p)'
    <3>1. pins[p] = Holds(p) + IF cur.page = p THEN 1 ELSE 0
      BY <2>1 DEF PinInv, PinsExact
    <3>2. Holds(p)' = IF p = cur.page THEN Holds(p) + 1 ELSE Holds(p)
      BY <1>0, <2>1, SetupHolds
    <3> QED
      BY <1>1, <2>1, <3>1, <3>2
  <2>3. ASSUME NEW p \in Pages PROVE Holds(p)' + 0 = Holds(p)'
    <3>1. Holds(p)' \in Int
      BY <1>1, <2>1, <2>2
    <3> QED
      BY <3>1
  <2> QED
    BY <2>1, <2>2, <2>3 DEF PinInv, InHand, PinsExact
<1>8. CASE WorkRead
  <2>1. /\ UNCHANGED <<sl, pins>> /\ wpc = "read" /\ wpc' \in {"read", "wake", "pin"}
        /\ wpc' = "pin" => cur' = Head(fifo)
    BY <1>8 DEF WorkRead
  <2>2. Head(fifo).page \in Pages
    <3>1. fifo # <<>> /\ fifo \in Seq(Misses)
      BY <1>0, <1>8 DEF WorkRead, BatchEnds, QueueOK
    <3>2. Head(fifo) \in Misses
      BY <3>1
    <3> QED
      BY <3>2 DEF Misses
  <2> QED
    BY <1>3, <2>1, <2>2
<1>9. CASE WorkStart \/ WorkEnd \/ WorkWake
  BY <1>3, <1>9 DEF WorkStart, WorkEnd, WorkWake
<1>10. CASE Release \/ CtrlReset
  BY <1>4, <1>10 DEF Release, CtrlReset, Quiet, workVars
<1>11. CASE IsrMiss \/ SetModeHost \/ SetModeNone \/ UNCHANGED missVars
  BY <1>2, <1>11, Zenon DEF IsrMiss, SetModeHost, SetModeNone, missVars, workVars
<1>12. CASE \E f, p : Miss(f, p)
  BY <1>2, <1>12, Zenon DEF Miss, workVars
<1> QED
  BY <1>5, <1>6, <1>7, <1>8, <1>9, <1>10, <1>11, <1>12, Zenon
  DEF MissNext, Work, Access, Prefetch, OtherMiss

(***************************************************************************)
(* The pages that misses map are pinned exactly as often as slices map     *)
(* them: no page is leaked when its slice is taken over or released, and   *)
(* none loses its pin while a slice still maps it.  It rests on            *)
(* SliceForEveryMiss, since a miss that is refused keeps its pin.          *)
(***************************************************************************)
THEOREM MissPinsExact ==
    ASSUME ~Overlap, ~Reenables PROVE MissSpec => []PinsExact
<1>1. MissInit => PinInv
  <2> SUFFICES ASSUME MissInit PROVE PinInv
    OBVIOUS
  <2>1. ASSUME NEW p \in Pages PROVE Holds(p) = 0
    <3>1. {s \in Slices : sl[s].page = p} = {}
      BY NoPageAssumption DEF MissInit, Free
    <3> QED
      BY <3>1, FS_EmptySet DEF Holds
  <2>2. wpc = "idle" /\ \A p \in Pages : pins[p] = 0
    BY DEF MissInit
  <2> QED
    BY <2>1, <2>2 DEF PinInv, InHand, PinsExact
<1>2. MissInv /\ PinInv /\ [MissNext]_missVars => PinInv'
  BY PinInvKept
<1>3. PinInv => PinsExact
  BY DEF PinInv
<1> QED
  BY <1>1, <1>2, <1>3, MissInvariant, PTL DEF MissSpec
============================================================================
