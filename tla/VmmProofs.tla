------------------------------ MODULE VmmProofs ------------------------------
(***************************************************************************)
(* Proofs about Vmm with a single miss handler, for every number of cores,  *)
(* pages and sets, and every size of a set and of the list of recently      *)
(* mapped pages that is shorter than a set.                                 *)
(*                                                                         *)
(* The argument is about ages.  Counted backwards from the write index,     *)
(* every entry of a set and every element of the list has an age; a new     *)
(* mapping makes all others one older.  An element of the list is never     *)
(* younger than the entry of its page, and the entry that is replaced is    *)
(* older than any element of the list can be.                               *)
(***************************************************************************)
EXTENDS Vmm, TLAPS

\* The age of position e of a ring of n positions, i being written next
Age(i, e, n) == IF e < i THEN i - 1 - e ELSE i - 1 - e + n

\* Ages are those of a ring, and start at zero.
LEMMA AgeRange ==
  ASSUME NEW n \in Nat \ {0}, NEW i \in 0 .. n, NEW e \in 0 .. n - 1
  PROVE  Age(i, e, n) \in 0 .. n - 1
BY DEF Age

\* A set of entries wraps when its index is used: the oldest entry is written,
\* and the others become one older.
LEMMA EntryAges ==
  ASSUME NEW n \in Nat \ {0}, NEW i \in 0 .. n, NEW e \in 0 .. n - 1,
         NEW j, j = IF i >= n THEN 0 ELSE i
  PROVE  /\ j \in 0 .. n - 1
         /\ Age(i, j, n) = n - 1
         /\ Age(j + 1, j, n) = 0
         /\ e # j => Age(j + 1, e, n) = Age(i, e, n) + 1
BY DEF Age

\* The list of recent pages wraps after its index is used.
LEMMA RecentAges ==
  ASSUME NEW n \in Nat \ {0}, NEW i \in 0 .. n - 1, NEW k \in 0 .. n - 1,
         NEW w, w = IF i + 1 >= n THEN 0 ELSE i + 1
  PROVE  /\ w \in 0 .. n - 1
         /\ Age(w, i, n) = 0
         /\ k # i => Age(w, k, n) = Age(i, k, n) + 1
BY DEF Age

\* Every page belongs to a set.
LEMMA PageSet ==
  ASSUME NEW p \in Nat
  PROVE  page_set(p) \in Sets
BY SizesAssumption DEF page_set, Sets

-----------------------------------------------------------------------------
(* The inductive invariant *)

Between(h) == hpc[h] \in {"idle", "addr"}

\* The two halves of the FIFO are in step, but for the miss whose first half
\* the handler has read; after it has read both it works for a core.  Workers
\* sleep for a page.
FifoInv(h) ==
  /\ Len(addrs) = IF hpc[h] = "addr" THEN Len(metas) + 1 ELSE Len(metas)
  /\ ~Between(h) => page[h] \in Pages /\ meta[h].core \in Cores
  /\ \A w \in Workers : wpc[w] = "asleep" => want[w] \in Pages

\* Pages are in their own set; while the handler maps a page nobody else has
\* mapped it, and it writes the entry the index points to.
EntryInv(h) ==
  /\ \A s \in Sets, e \in Slots : entry[s][e] # NoPage => page_set(entry[s][e]) = s
  /\ hpc[h] \in {"map", "write"} => ~IsMapped(page[h])
  /\ hpc[h] = "write" =>
       idx[h] = IF i_set[page_set(page[h])] >= EntriesPerSet THEN 0
                ELSE i_set[page_set(page[h])]

\* Page p has an entry not older than a.
YoungEntry(p, a) ==
  \E e \in Slots : /\ entry[page_set(p)][e] = p
                   /\ Age(i_set[page_set(p)], e, EntriesPerSet) <= a

\* An entry is at most as old as the page in the list, or one older between
\* the two updates of a mapping.
AgeInv(h) ==
  /\ \A k \in Recent : recent[k] # NoPage =>
       YoungEntry(recent[k], Age(rmp_wptr, k, NumRecent)
                             + IF hpc[h] = "add" THEN 1 ELSE 0)
  /\ hpc[h] = "add" => YoungEntry(page[h], 0)

IInv(h) ==
  /\ VmmTypeOK
  /\ FifoInv(h)
  /\ EntryInv(h)
  /\ OneEntryPerPage
  /\ AgeInv(h)

-----------------------------------------------------------------------------
(* Initial states *)

LEMMA InitIInv ==
  ASSUME NEW h, Handlers = {h}, Init
  PROVE  IInv(h)
<1>1. VmmTypeOK
  BY CoresAssumption, SizesAssumption DEF Init, VmmTypeOK, NoMeta, Metas, Cores, Recent, Slots, Sets
<1>2. FifoInv(h)
  BY DEF Init, FifoInv, Between
<1>3. EntryInv(h)
  BY DEF Init, EntryInv
<1>4. OneEntryPerPage
  BY DEF Init, OneEntryPerPage
<1>5. AgeInv(h)
  BY DEF Init, AgeInv
<1> QED BY <1>1, <1>2, <1>3, <1>4, <1>5 DEF IInv

-----------------------------------------------------------------------------
(* Steps that do not map: entries, list and ages stay as they are *)

LEMMA SameMapping ==
  ASSUME NEW h, IInv(h), UNCHANGED <<rabVars, rmpVars>>,
         hpc'[h] = "add" <=> hpc[h] = "add",
         hpc[h] = "add" => page'[h] = page[h]
  PROVE  AgeInv(h)' /\ OneEntryPerPage'
<1>0. UNCHANGED <<entry, i_set, recent, rmp_wptr>>
  BY DEF rabVars, rmpVars
<1>1. OneEntryPerPage'
  BY <1>0 DEF IInv, OneEntryPerPage
<1>2. AgeInv(h)'
  BY <1>0 DEF IInv, AgeInv, YoungEntry
<1> QED BY <1>1, <1>2

\* What an access may add to the FIFO
Queued ==
  \/ UNCHANGED fifoVars
  \/ \E m \in Metas, q \in Pages : metas' = Append(metas, m) /\ addrs' = Append(addrs, q)

\* Queueing a miss keeps the FIFO typed and its halves in step.
LEMMA QueuedLen ==
  ASSUME VmmTypeOK, Queued
  PROVE  /\ metas' \in Seq(Metas)
         /\ addrs' \in Seq(Pages)
         /\ Len(addrs') - Len(metas') = Len(addrs) - Len(metas)
         /\ Len(addrs') \in Nat /\ Len(metas') \in Nat
         /\ Len(addrs) \in Nat /\ Len(metas) \in Nat
<1>1. metas \in Seq(Metas) /\ addrs \in Seq(Pages)
  BY DEF VmmTypeOK
<1>2. CASE UNCHANGED fifoVars
  BY <1>1, <1>2 DEF fifoVars
<1>3. CASE \E m \in Metas, q \in Pages : metas' = Append(metas, m) /\ addrs' = Append(addrs, q)
  <2>1. PICK m \in Metas, q \in Pages : metas' = Append(metas, m) /\ addrs' = Append(addrs, q)
    BY <1>3
  <2>2. /\ Append(metas, m) \in Seq(Metas) /\ Len(Append(metas, m)) = Len(metas) + 1
        /\ Append(addrs, q) \in Seq(Pages) /\ Len(Append(addrs, q)) = Len(addrs) + 1
    BY <1>1, <2>1
  <2> QED BY <1>1, <2>1, <2>2
<1> QED BY <1>2, <1>3 DEF Queued

\* A miss of a core or of another master is queued.
LEMMA MissesQueue ==
  ASSUME NEW c \in Cores \cup {Dma}, NEW p \in Pages, NEW b \in BOOLEAN, Misses(c, p, b)
  PROVE  Queued
<1>1. [core |-> c, prefetch |-> b] \in Metas
  BY DEF Metas
<1> QED BY <1>1 DEF Misses, Queued

\* Workers and other masters: a miss is queued or a worker goes on.
LEMMA WorkerStep ==
  ASSUME NEW h, Handlers = {h}, IInv(h),
         \/ \E w \in Workers : \/ \E p \in Pages : TryAccess(w, p) \/ Prefetch(w, p)
                               \/ Retry(w)
         \/ DmaMiss
  PROVE  IInv(h)'
<1>0. UNCHANGED <<rabVars, rmpVars, hpc, meta, page, idx>>
  BY DEF TryAccess, Prefetch, Retry, DmaMiss, handlerVars
<1>u. UNCHANGED <<entry, i_set, recent, rmp_wptr>>
  BY <1>0 DEF rabVars, rmpVars
<1>t. VmmTypeOK /\ FifoInv(h) /\ EntryInv(h)
  BY DEF IInv
<1>w. /\ event \subseteq Cores /\ wpc \in [Workers -> {"run", "asleep"}]
      /\ want \in [Workers -> Pages \cup {NoPage}] /\ accesses \in Nat
      /\ \A w \in Workers : wpc[w] = "asleep" => want[w] \in Pages
  BY <1>t DEF VmmTypeOK, FifoInv
<1>f. /\ Queued
      /\ event' \subseteq Cores
      /\ wpc' \in [Workers -> {"run", "asleep"}]
      /\ want' \in [Workers -> Pages \cup {NoPage}]
      /\ accesses' \in Nat
      /\ \A w \in Workers : wpc'[w] = "asleep" => want'[w] \in Pages
  <2>1. CASE \E w \in Workers, p \in Pages : TryAccess(w, p)
    <3>1. PICK w \in Workers, p \in Pages : TryAccess(w, p)
      BY <2>1
    <3>2. Queued
      BY <3>1, MissesQueue DEF TryAccess, Cores
    <3> QED BY <1>w, <3>1, <3>2 DEF TryAccess
  <2>2. CASE \E w \in Workers, p \in Pages : Prefetch(w, p)
    <3>1. PICK w \in Workers, p \in Pages : Prefetch(w, p)
      BY <2>2
    <3>2. Queued
      BY <3>1, MissesQueue DEF Prefetch, Cores
    <3> QED BY <1>w, <3>1, <3>2 DEF Prefetch
  <2>3. CASE \E w \in Workers : Retry(w)
    <3>1. PICK w \in Workers : Retry(w)
      BY <2>3
    <3>2. Queued
      BY <1>w, <3>1, MissesQueue DEF Retry, Cores, Queued
    <3> QED BY <1>w, <3>1, <3>2 DEF Retry
  <2>4. CASE DmaMiss
    <3>1. (CHOOSE p \in Pages : TRUE) \in Pages
      BY PagesAssumption
    <3>2. Queued
      BY <2>4, <3>1, MissesQueue DEF DmaMiss
    <3> QED BY <1>w, <2>4, <3>2 DEF DmaMiss
  <2> QED BY <2>1, <2>2, <2>3, <2>4
<1>l. /\ metas' \in Seq(Metas) /\ addrs' \in Seq(Pages)
      /\ Len(addrs') - Len(metas') = Len(addrs) - Len(metas)
      /\ Len(addrs') \in Nat /\ Len(metas') \in Nat
      /\ Len(addrs) \in Nat /\ Len(metas) \in Nat
  BY <1>t, <1>f, QueuedLen
<1>1. VmmTypeOK'
  BY <1>t, <1>0, <1>u, <1>f, <1>l DEF VmmTypeOK
<1>2. FifoInv(h)'
  BY <1>t, <1>0, <1>f, <1>l DEF FifoInv, Between
<1>3. EntryInv(h)'
  BY <1>t, <1>0, <1>u DEF EntryInv, IsMapped
<1>4. AgeInv(h)' /\ OneEntryPerPage'
  BY <1>0, SameMapping
<1> QED BY <1>1, <1>2, <1>3, <1>4 DEF IInv

-----------------------------------------------------------------------------
(* Steps of the handler that do not map *)

\* The types of what the handler's steps read and write
LEMMA HandlerTypes ==
  ASSUME NEW h, Handlers = {h}, VmmTypeOK
  PROVE  /\ hpc \in [Handlers -> {"idle", "addr", "recent", "probe", "map",
                                  "write", "add", "wake"}]
         /\ meta \in [Handlers -> Metas]
         /\ page \in [Handlers -> Pages \cup {NoPage}]
         /\ idx \in [Handlers -> Slots]
         /\ metas \in Seq(Metas) /\ addrs \in Seq(Pages)
         /\ event \subseteq Cores
         /\ h \in Handlers
         /\ 0 \in Slots
         /\ NoMeta \in Metas
BY SizesAssumption DEF VmmTypeOK, Slots, NoMeta, Metas

\* get_rab_miss and the search in the list
LEMMA GetStep ==
  ASSUME NEW h, Handlers = {h}, IInv(h),
         GetMeta(h) \/ GetAddr(h) \/ LookRecent(h) \/ WakeUp(h)
  PROVE  IInv(h)'
<1>t. VmmTypeOK /\ FifoInv(h) /\ EntryInv(h)
  BY DEF IInv
<1>y. /\ hpc \in [Handlers -> {"idle", "addr", "recent", "probe", "map",
                               "write", "add", "wake"}]
      /\ meta \in [Handlers -> Metas]
      /\ page \in [Handlers -> Pages \cup {NoPage}]
      /\ idx \in [Handlers -> Slots]
      /\ metas \in Seq(Metas) /\ addrs \in Seq(Pages)
      /\ event \subseteq Cores
      /\ h \in Handlers
      /\ 0 \in Slots
      /\ NoMeta \in Metas
  BY <1>t, HandlerTypes
<1>u. UNCHANGED <<entry, i_set, recent, rmp_wptr, wpc, want, accesses>>
  BY DEF GetMeta, GetAddr, LookRecent, WakeUp, rabVars, rmpVars, workerVars
<1>d. Done(h) => /\ hpc' \in [Handlers -> {"idle"}]
                 /\ meta' \in [Handlers -> Metas]
                 /\ page' \in [Handlers -> Pages \cup {NoPage}]
                 /\ idx' \in [Handlers -> Slots]
                 /\ hpc'[h] = "idle"
  BY <1>y DEF Done
<1>f. /\ hpc' \in [Handlers -> {"idle", "addr", "recent", "probe", "wake"}]
      /\ meta' \in [Handlers -> Metas]
      /\ page' \in [Handlers -> Pages \cup {NoPage}]
      /\ idx' \in [Handlers -> Slots]
      /\ metas' \in Seq(Metas) /\ addrs' \in Seq(Pages)
      /\ event' \subseteq Cores
      /\ hpc[h] # "add"
      /\ FifoInv(h)'
  <2>1. CASE GetMeta(h)
    <3>1. /\ Head(metas) \in Metas /\ Tail(metas) \in Seq(Metas)
          /\ Len(Tail(metas)) = Len(metas) - 1
          /\ Len(metas) \in Nat
      BY <1>y, <2>1 DEF GetMeta
    <3>2. hpc'[h] = "addr" /\ UNCHANGED <<addrs, event, page, idx>> /\ metas' = Tail(metas)
      BY <1>y, <2>1 DEF GetMeta, workerVars
    <3>3. FifoInv(h)'
      BY <1>t, <1>u, <3>1, <3>2, <2>1 DEF FifoInv, Between, GetMeta
    <3> QED BY <1>y, <3>1, <3>2, <3>3, <2>1 DEF GetMeta
  <2>2. CASE GetAddr(h)
    <3>0. Len(addrs) = Len(metas) + 1 /\ Len(metas) \in Nat /\ addrs # <<>>
      BY <1>t, <1>y, <2>2 DEF GetAddr, FifoInv
    <3>1. /\ Head(addrs) \in Pages /\ Tail(addrs) \in Seq(Pages)
          /\ Len(Tail(addrs)) = Len(metas)
      BY <1>y, <3>0
    <3>2. UNCHANGED <<metas, event>> /\ addrs' = Tail(addrs) /\ hpc[h] = "addr"
      BY <2>2 DEF GetAddr, workerVars
    <3>3. CASE Done(h)
      BY <1>t, <1>u, <1>y, <1>d, <3>1, <3>2, <3>3 DEF FifoInv, Between
    <3>4. CASE ~Done(h)
      <4>1. /\ meta[h].core \notin {Dma, h}
            /\ page' = [page EXCEPT ![h] = Head(addrs)]
            /\ hpc' = [hpc EXCEPT ![h] = "recent"]
            /\ UNCHANGED <<meta, idx>>
        BY <2>2, <3>4 DEF GetAddr
      <4>2. meta[h].core \in Cores
        BY <1>y, <4>1 DEF Metas
      <4>3. hpc'[h] = "recent" /\ page'[h] \in Pages /\ meta'[h].core \in Cores
        BY <1>y, <3>1, <4>1, <4>2
      <4>4. FifoInv(h)'
        BY <1>t, <1>u, <3>1, <3>2, <4>3 DEF FifoInv, Between
      <4> QED BY <1>y, <3>1, <3>2, <4>1, <4>4
    <3> QED BY <3>3, <3>4
  <2>3. CASE LookRecent(h)
    <3>1. UNCHANGED <<metas, addrs, event, meta, page, idx>> /\ hpc[h] = "recent"
      BY <2>3 DEF LookRecent, fifoVars, workerVars
    <3>2. hpc' \in [Handlers -> {"probe", "wake"}] /\ hpc'[h] \in {"probe", "wake"}
      BY <1>y, <2>3 DEF LookRecent
    <3>3. FifoInv(h)'
      BY <1>t, <1>u, <3>1, <3>2 DEF FifoInv, Between
    <3> QED BY <1>y, <3>1, <3>2, <3>3
  <2>4. CASE WakeUp(h)
    <3>1. UNCHANGED <<metas, addrs>> /\ hpc[h] = "wake" /\ Done(h)
      BY <2>4 DEF WakeUp, fifoVars
    <3>2. event' \subseteq Cores
      BY <1>y, <1>t, <2>4, <3>1 DEF WakeUp, FifoInv, Between
    <3>3. FifoInv(h)'
      BY <1>t, <1>u, <1>y, <1>d, <3>1 DEF FifoInv, Between
    <3> QED BY <1>y, <1>d, <3>1, <3>2, <3>3
  <2> QED BY <2>1, <2>2, <2>3, <2>4
<1>g. hpc'[h] \in {"idle", "addr", "recent", "probe", "wake"}
  BY <1>f, <1>y
<1>1. VmmTypeOK'
  BY <1>t, <1>u, <1>f DEF VmmTypeOK
<1>3. EntryInv(h)'
  BY <1>t, <1>u, <1>g DEF EntryInv
<1>4. AgeInv(h)' /\ OneEntryPerPage'
  BY <1>u, <1>f, <1>g, SameMapping DEF rabVars, rmpVars
<1> QED BY <1>1, <1>f, <1>3, <1>4 DEF IInv

\* page_is_mapped and the part of map_page before the entry is written
LEMMA ProbeStep ==
  ASSUME NEW h, Handlers = {h}, IInv(h), Probe(h) \/ LoadIndex(h)
  PROVE  IInv(h)'
<1>t. VmmTypeOK /\ FifoInv(h) /\ EntryInv(h)
  BY DEF IInv
<1>y. /\ hpc \in [Handlers -> {"idle", "addr", "recent", "probe", "map",
                               "write", "add", "wake"}]
      /\ meta \in [Handlers -> Metas]
      /\ page \in [Handlers -> Pages \cup {NoPage}]
      /\ idx \in [Handlers -> Slots]
      /\ metas \in Seq(Metas) /\ addrs \in Seq(Pages)
      /\ event \subseteq Cores
      /\ h \in Handlers
      /\ 0 \in Slots
      /\ NoMeta \in Metas
  BY <1>t, HandlerTypes
<1>u. UNCHANGED <<entry, i_set, recent, rmp_wptr, event, wpc, want, accesses>>
  BY DEF Probe, LoadIndex, rabVars, rmpVars, workerVars
<1>p. hpc[h] \in {"probe", "map"} /\ page[h] \in Pages /\ meta[h].core \in Cores
  BY <1>t DEF Probe, LoadIndex, FifoInv, Between
<1>s. page_set(page[h]) \in Sets
  BY <1>p, PageSet, PagesAssumption
<1>f. /\ hpc' \in [Handlers -> {"idle", "map", "write", "wake"}]
      /\ meta' \in [Handlers -> Metas]
      /\ page' \in [Handlers -> Pages \cup {NoPage}]
      /\ idx' \in [Handlers -> Slots]
      /\ Queued
      /\ hpc'[h] # "idle" => page'[h] = page[h] /\ meta'[h] = meta[h]
      /\ hpc'[h] \in {"map", "write"} => ~IsMapped(page[h])
      /\ hpc'[h] = "write" =>
           idx'[h] = IF i_set[page_set(page[h])] >= EntriesPerSet THEN 0
                     ELSE i_set[page_set(page[h])]
  <2>1. CASE Probe(h)
    <3>1. UNCHANGED <<meta, page, idx>>
      BY <2>1 DEF Probe
    <3>2. Queued
      BY <2>1, <1>p, <1>y, MissesQueue DEF Probe, Queued, Cores
    <3>3. /\ hpc' \in [Handlers -> {"map", "wake"}] /\ hpc'[h] \in {"map", "wake"}
          /\ hpc'[h] = "map" => ~IsMapped(page[h])
      BY <2>1, <1>y DEF Probe
    <3> QED BY <1>y, <3>1, <3>2, <3>3
  <2>2. CASE LoadIndex(h)
    <3>1. Queued /\ hpc[h] = "map" /\ ~IsMapped(page[h])
      BY <2>2, <1>t DEF LoadIndex, Queued, EntryInv
    <3>2. CASE Done(h)
      BY <1>y, <3>1, <3>2 DEF Done
    <3>3. CASE ~Done(h)
      <4> DEFINE i == i_set[page_set(page[h])]
      <4> DEFINE j == IF i >= EntriesPerSet THEN 0 ELSE i
      <4>1. /\ hpc' = [hpc EXCEPT ![h] = "write"]
            /\ idx' = [idx EXCEPT ![h] = j]
            /\ UNCHANGED <<meta, page>>
        BY <2>2, <3>3 DEF LoadIndex
      <4>2. i \in 0 .. EntriesPerSet
        BY <1>t, <1>s DEF VmmTypeOK
      <4>3. j \in Slots
        BY <4>2, SizesAssumption DEF Slots
      <4> QED BY <1>y, <3>1, <4>1, <4>3
    <3> QED BY <3>2, <3>3
  <2> QED BY <2>1, <2>2
<1>g. hpc'[h] \in {"idle", "map", "write", "wake"}
  BY <1>f, <1>y
<1>l. /\ metas' \in Seq(Metas) /\ addrs' \in Seq(Pages)
      /\ Len(addrs') - Len(metas') = Len(addrs) - Len(metas)
      /\ Len(addrs') \in Nat /\ Len(metas') \in Nat
      /\ Len(addrs) \in Nat /\ Len(metas) \in Nat
  BY <1>t, <1>f, QueuedLen
<1>1. VmmTypeOK'
  BY <1>t, <1>u, <1>f, <1>l DEF VmmTypeOK
<1>2. FifoInv(h)'
  BY <1>t, <1>u, <1>f, <1>g, <1>p, <1>l DEF FifoInv, Between
<1>3. EntryInv(h)'
  BY <1>t, <1>u, <1>f, <1>g DEF EntryInv, IsMapped
<1>4. AgeInv(h)' /\ OneEntryPerPage'
  BY <1>u, <1>p, <1>g, SameMapping DEF rabVars, rmpVars
<1> QED BY <1>1, <1>2, <1>3, <1>4 DEF IInv

-----------------------------------------------------------------------------
(* A page is mapped *)

\* The entry is written: it was the oldest of its set and had left the list.
LEMMA WriteStep ==
  ASSUME NEW h, Handlers = {h}, IInv(h), WriteEntry(h)
  PROVE  IInv(h)'
<1> DEFINE p == page[h]
<1> DEFINE s == page_set(p)
<1> DEFINE j == idx[h]
<1>t. VmmTypeOK /\ FifoInv(h) /\ EntryInv(h) /\ AgeInv(h) /\ OneEntryPerPage
  BY DEF IInv
<1>u. UNCHANGED <<recent, rmp_wptr, metas, addrs, event, wpc, want, accesses, meta, page, idx>>
  BY DEF WriteEntry, rmpVars, fifoVars, workerVars
<1>h. h \in Handlers /\ hpc[h] = "write"
  BY DEF WriteEntry
<1>y. /\ hpc \in [Handlers -> {"idle", "addr", "recent", "probe", "map",
                               "write", "add", "wake"}]
      /\ entry \in [Sets -> [Slots -> Pages \cup {NoPage}]]
      /\ i_set \in [Sets -> 0 .. EntriesPerSet]
      /\ recent \in [Recent -> Pages \cup {NoPage}]
      /\ rmp_wptr \in Recent
  BY <1>t DEF VmmTypeOK
<1>p. p \in Pages /\ p \in Nat /\ p # NoPage
  BY <1>t, <1>h, PagesAssumption DEF FifoInv, Between, NoPage
<1>s. s \in Sets
  BY <1>p, PageSet
<1>n. /\ ~IsMapped(p)
      /\ i_set[s] \in 0 .. EntriesPerSet
      /\ EntriesPerSet \in Nat \ {0}
      /\ j = IF i_set[s] >= EntriesPerSet THEN 0 ELSE i_set[s]
  BY <1>t, <1>h, <1>s, <1>y, SizesAssumption DEF EntryInv
<1>j. /\ j \in Slots
      /\ Age(i_set[s], j, EntriesPerSet) = EntriesPerSet - 1
      /\ Age(j + 1, j, EntriesPerSet) = 0
      /\ j + 1 \in 0 .. EntriesPerSet
  <2>1. 0 \in 0 .. EntriesPerSet - 1
    BY <1>n
  <2>2. /\ j \in 0 .. EntriesPerSet - 1
        /\ Age(i_set[s], j, EntriesPerSet) = EntriesPerSet - 1
        /\ Age(j + 1, j, EntriesPerSet) = 0
    BY <1>n, <2>1, EntryAges
  <2> QED BY <2>2, <1>n DEF Slots
<1>a. \A e \in Slots : e # j =>
        Age(j + 1, e, EntriesPerSet) = Age(i_set[s], e, EntriesPerSet) + 1
  BY <1>n, EntryAges DEF Slots
<1>e. /\ i_set' = [i_set EXCEPT ![s] = j + 1]
      /\ entry' = [entry EXCEPT ![s][j] = p]
      /\ hpc' = [hpc EXCEPT ![h] = "add"]
  BY DEF WriteEntry
<1>x. /\ i_set' \in [Sets -> 0 .. EntriesPerSet]
      /\ i_set'[s] = j + 1
      /\ \A r \in Sets : r # s => i_set'[r] = i_set[r]
      /\ entry' \in [Sets -> [Slots -> Pages \cup {NoPage}]]
      /\ entry'[s][j] = p
      /\ \A r \in Sets, e \in Slots : ~(r = s /\ e = j) => entry'[r][e] = entry[r][e]
      /\ hpc' \in [Handlers -> {"idle", "addr", "recent", "probe", "map",
                                "write", "add", "wake"}]
      /\ hpc'[h] = "add"
  BY <1>e, <1>y, <1>h, <1>s, <1>j, <1>p
<1> HIDE DEF p, s, j
<1>1. VmmTypeOK'
  BY <1>t, <1>u, <1>x DEF VmmTypeOK
<1>2. FifoInv(h)'
  BY <1>t, <1>u, <1>x, <1>h DEF FifoInv, Between
<1>3. EntryInv(h)'
  <2>1. \A r \in Sets, e \in Slots : entry'[r][e] # NoPage => page_set(entry'[r][e]) = r
    BY <1>t, <1>x, <1>s DEF EntryInv, s
  <2> QED BY <2>1, <1>x DEF EntryInv
<1>4. OneEntryPerPage'
  <2> SUFFICES ASSUME NEW r \in Sets, NEW e \in Slots, NEW f \in Slots, e # f,
                      entry'[r][e] = entry'[r][f]
               PROVE  entry'[r][e] = NoPage
    BY DEF OneEntryPerPage
  <2>1. \A g \in Slots : entry[s][g] # p
    BY <1>n DEF IsMapped, s
  <2>2. CASE r = s /\ (e = j \/ f = j)
    BY <2>1, <2>2, <1>x, <1>j
  <2>3. CASE ~(r = s /\ (e = j \/ f = j))
    BY <2>3, <1>x, <1>t DEF OneEntryPerPage
  <2> QED BY <2>2, <2>3
<1>5. AgeInv(h)'
  <2>1. YoungEntry(p, 0)'
    BY <1>x, <1>j, <1>u DEF YoungEntry, s, p
  <2>2. ASSUME NEW k \in Recent, recent[k] # NoPage
        PROVE  YoungEntry(recent[k], Age(rmp_wptr, k, NumRecent) + 1)'
    <3> DEFINE q == recent[k]
    <3> DEFINE a == Age(rmp_wptr, k, NumRecent)
    <3>1. a \in 0 .. NumRecent - 1
      BY <1>y, AgeRange, SizesAssumption DEF Recent
    <3>2. YoungEntry(q, a)
      <4>1. YoungEntry(q, a + 0)
        BY <1>t, <1>h, <2>2 DEF AgeInv
      <4>2. a + 0 = a
        BY <3>1
      <4> QED BY <4>1, <4>2
    <3>3. q \in Pages /\ page_set(q) \in Sets
      BY <1>y, <2>2, PageSet, PagesAssumption
    <3> HIDE DEF a, q
    <3>4. PICK e \in Slots : /\ entry[page_set(q)][e] = q
                             /\ Age(i_set[page_set(q)], e, EntriesPerSet) <= a
      BY <3>2 DEF YoungEntry
    <3>5. Age(i_set[page_set(q)], e, EntriesPerSet) \in 0 .. EntriesPerSet - 1
      BY <3>3, <1>y, <1>n, AgeRange DEF Slots
    <3>6. /\ entry'[page_set(q)][e] = q
          /\ Age(i_set'[page_set(q)], e, EntriesPerSet) <= a + 1
      <4>1. CASE page_set(q) = s
        <5>1. e # j
          BY <1>j, <3>1, <3>4, <4>1, SizesAssumption
        <5> QED BY <1>x, <1>a, <3>1, <3>3, <3>4, <3>5, <4>1, <5>1
      <4>2. CASE page_set(q) # s
        BY <1>x, <3>1, <3>3, <3>4, <3>5, <4>2
      <4> QED BY <4>1, <4>2
    <3>7. recent'[k] = q /\ Age(rmp_wptr', k, NumRecent) = a
      BY <1>u DEF q, a
    <3> QED BY <3>6, <3>7 DEF YoungEntry
  <2>3. page'[h] = p
    BY <1>u DEF p
  <2>4. p' = p
    BY <1>u DEF p
  <2> QED BY <2>1, <2>2, <2>3, <2>4, <1>u, <1>x DEF AgeInv
<1> QED BY <1>1, <1>2, <1>3, <1>4, <1>5 DEF IInv

\* The page is added to the list: the others become older by one.
LEMMA AddStep ==
  ASSUME NEW h, Handlers = {h}, IInv(h), AddRecent(h)
  PROVE  IInv(h)'
<1>t. VmmTypeOK /\ FifoInv(h) /\ EntryInv(h) /\ AgeInv(h) /\ OneEntryPerPage
  BY DEF IInv
<1>u. UNCHANGED <<entry, i_set, metas, addrs, event, wpc, want, accesses, meta, page, idx>>
  BY DEF AddRecent, rabVars, fifoVars, workerVars
<1>y. /\ hpc \in [Handlers -> {"idle", "addr", "recent", "probe", "map",
                               "write", "add", "wake"}]
      /\ recent \in [Recent -> Pages \cup {NoPage}]
      /\ rmp_wptr \in Recent
      /\ h \in Handlers /\ hpc[h] = "add"
      /\ page[h] \in Pages
      /\ NumRecent \in Nat \ {0}
  BY <1>t, SizesAssumption DEF VmmTypeOK, AddRecent, FifoInv, Between
<1>x. /\ recent' = [recent EXCEPT ![rmp_wptr] = page[h]]
      /\ rmp_wptr' = IF rmp_wptr + 1 >= NumRecent THEN 0 ELSE rmp_wptr + 1
      /\ hpc' \in [Handlers -> {"idle", "addr", "recent", "probe", "map",
                               "write", "add", "wake"}]
      /\ hpc'[h] = "wake"
  BY <1>y DEF AddRecent
<1>a. /\ rmp_wptr' \in Recent
      /\ Age(rmp_wptr', rmp_wptr, NumRecent) = 0
      /\ \A k \in Recent : k # rmp_wptr =>
           Age(rmp_wptr', k, NumRecent) = Age(rmp_wptr, k, NumRecent) + 1
  BY <1>y, <1>x, RecentAges DEF Recent
<1>1. VmmTypeOK'
  BY <1>t, <1>u, <1>x, <1>a, <1>y DEF VmmTypeOK
<1>2. FifoInv(h)'
  BY <1>t, <1>u, <1>x, <1>y DEF FifoInv, Between
<1>3. EntryInv(h)'
  BY <1>t, <1>u, <1>x DEF EntryInv
<1>4. OneEntryPerPage'
  BY <1>t, <1>u DEF OneEntryPerPage
<1>5. AgeInv(h)'
  <2> SUFFICES ASSUME NEW k \in Recent, recent'[k] # NoPage
               PROVE  YoungEntry(recent[k], Age(rmp_wptr, k, NumRecent) + 0)'
    BY <1>x DEF AgeInv
  <2>0. Age(rmp_wptr, k, NumRecent) \in Nat
    BY <1>y, AgeRange DEF Recent
  <2>1. CASE k = rmp_wptr
    <3>1. YoungEntry(page[h], 0)
      BY <1>t, <1>y DEF AgeInv
    <3>2. recent'[k] = page[h] /\ Age(rmp_wptr', k, NumRecent) + 0 = 0
      BY <1>x, <1>y, <1>a, <2>1
    <3> QED BY <3>1, <3>2, <1>u DEF YoungEntry
  <2>2. CASE k # rmp_wptr
    <3>1. recent'[k] = recent[k]
      BY <1>x, <1>y, <2>2
    <3>2. YoungEntry(recent[k], Age(rmp_wptr, k, NumRecent) + 1)
      BY <1>t, <1>y, <3>1 DEF AgeInv
    <3>3. Age(rmp_wptr', k, NumRecent) + 0 = Age(rmp_wptr, k, NumRecent) + 1
      BY <1>a, <2>0, <2>2
    <3> QED BY <3>1, <3>2, <3>3, <1>u DEF YoungEntry
  <2> QED BY <2>1, <2>2
<1> QED BY <1>1, <1>2, <1>3, <1>4, <1>5 DEF IInv

-----------------------------------------------------------------------------
(* The theorems *)

LEMMA IInvStep ==
  ASSUME NEW h, Handlers = {h}, IInv(h), [Next]_vars
  PROVE  IInv(h)'
<1>1. CASE \E g \in Handlers : Handle(g)
  <2>1. Handle(h)
    BY <1>1
  <2> QED BY <2>1, GetStep, ProbeStep, WriteStep, AddStep DEF Handle
<1>2. CASE \/ \E w \in Workers : \/ \E p \in Pages : TryAccess(w, p) \/ Prefetch(w, p)
                                 \/ Retry(w)
           \/ DmaMiss
  BY <1>2, WorkerStep
<1>3. CASE UNCHANGED vars
  <2>1. UNCHANGED <<entry, i_set, recent, rmp_wptr, metas, addrs, event, wpc,
                    want, accesses, hpc, meta, page, idx>>
    BY <1>3 DEF vars, rabVars, rmpVars, fifoVars, workerVars, handlerVars
  <2>2. VmmTypeOK'
    BY <2>1 DEF IInv, VmmTypeOK
  <2>3. FifoInv(h)'
    BY <2>1 DEF IInv, FifoInv, Between
  <2>4. EntryInv(h)'
    BY <2>1 DEF IInv, EntryInv, IsMapped
  <2>5. OneEntryPerPage' /\ AgeInv(h)'
    BY <2>1, SameMapping DEF rabVars, rmpVars
  <2> QED BY <2>2, <2>3, <2>4, <2>5 DEF IInv
<1> QED BY <1>1, <1>2, <1>3 DEF Next

\* With one handler that calls map_page only from handle_rab_misses, all
\* variables keep their types: in particular get_rab_miss never reads half a
\* miss, and only cores are woken.
THEOREM VmmTypeCorrect ==
  ASSUME NEW h, Handlers = {h}
  PROVE  Spec => []VmmTypeOK
<1>1. Init => IInv(h)
  BY InitIInv
<1>2. IInv(h) /\ [Next]_vars => IInv(h)'
  BY IInvStep
<1>3. IInv(h) => VmmTypeOK
  BY DEF IInv
<1> QED BY <1>1, <1>2, <1>3, PTL DEF Spec

\* With one handler no page is given a second entry.
THEOREM VmmOneEntry ==
  ASSUME NEW h, Handlers = {h}
  PROVE  Spec => []OneEntryPerPage
<1>1. Init => IInv(h)
  BY InitIInv
<1>2. IInv(h) /\ [Next]_vars => IInv(h)'
  BY IInvStep
<1>3. IInv(h) => OneEntryPerPage
  BY DEF IInv
<1> QED BY <1>1, <1>2, <1>3, PTL DEF Spec

\* With one handler and a list shorter than a set, page_has_recently_been_mapped
\* is never wrong.
THEOREM VmmRecentIsMapped ==
  ASSUME NEW h, Handlers = {h}
  PROVE  Spec => []RecentIsMapped
<1>1. Init => IInv(h)
  BY InitIInv
<1>2. IInv(h) /\ [Next]_vars => IInv(h)'
  BY IInvStep
<1>3. IInv(h) => RecentIsMapped
  BY DEF IInv, AgeInv, YoungEntry, RecentIsMapped, IsMapped
<1> QED BY <1>1, <1>2, <1>3, PTL DEF Spec
=============================================================================
