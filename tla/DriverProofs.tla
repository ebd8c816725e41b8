---------------------------- MODULE DriverProofs ----------------------------
(***************************************************************************)
(* TLAPS proofs about two parts of pulp-driver that ioctls and the         *)
(* interrupt handler share: cluster control (ClusterCtrl), for every       *)
(* number of clusters, and level 1 of the RAB (RabL1), for every number of *)
(* slices, dates, requests and switches.  The two models have no variable  *)
(* in common; each has its invariant and its theorems in a part of its own.*)
(***************************************************************************)
EXTENDS ClusterCtrl, RabL1, FiniteSetTheorems, TLAPS

----------------------------------------------------------------------------
(* PART 1: ClusterCtrl *)

(***************************************************************************)
(* The inductive invariant behind the two, for a host that stops only what *)
(* it has awaited.  Between runs nothing is under way; while a run is      *)
(* being prepared nothing is under way either; during a run active holds   *)
(* the clusters that have not ended or whose end is not yet handled.       *)
(***************************************************************************)
Quiet == /\ intr = {} /\ ipc = "idle" /\ ibits = {} /\ done = 0
         /\ \A c \in Clusters : cstate[c] # "running"

RestInv == awaited =>
    /\ Quiet /\ ~Starting
    /\ nruns > 0 => ended = Clusters /\ hfin = Clusters /\ afin = Clusters

StartInv == Starting =>
    /\ Quiet /\ gpio = {} /\ gpioval = Clusters
    /\ hpc \in {"starthost", "startaccel"} => hfin \subseteq todo /\ afin \subseteq todo
    /\ hpc = "startaccel" => \A c \in hfin : ~IsFirst(c, todo)
    /\ hpc \in {"arm", "reinit", "go"} => hfin = {} /\ afin = {}
    /\ hpc \in {"reinit", "go"} => active = Clusters

GpioInv == /\ hpc \in {"idle", "wait"} => gpio = gpioval
           /\ hpc \in {"idle", "wait"} => gpio \in {{}, Clusters}
           /\ hpc \in {"stophost", "stopaccel"} => awaited /\ gpio = {} /\ gpioval = {}

RunInv == ~awaited /\ ~Starting =>
    /\ gpio = Clusters
    /\ \A c \in Clusters : cstate[c] = "running" <=> c \notin ended
    /\ intr \subseteq ended /\ ibits \subseteq ended /\ intr \cap ibits = {}
    /\ ipc = "idle" <=> ibits = {}
    /\ ipc = "store" => imask = active
    /\ \A c \in Clusters :
           c \in active <=> /\ c \notin ended \/ c \in intr \/ c \in ibits
                           /\ ~(ipc = "check" /\ IsFirst(c, ibits))
    /\ hfin \subseteq ended /\ afin \subseteq ended
    /\ Clusters \ active \subseteq hfin /\ Clusters \ active \subseteq afin
    /\ ipc \in {"store", "check"} =>
           \A c \in ibits : IsFirst(c, ibits) => c \in hfin /\ c \in afin
    /\ done > 0 => /\ done = 1 /\ ended = Clusters /\ active = {}
                   /\ intr = {} /\ ibits = {}

CtrlInv == RestInv /\ StartInv /\ GpioInv /\ RunInv

----------------------------------------------------------------------------
\* The clusters are numbered by integers, and there is one.
LEMMA ClustersFacts == /\ Clusters # {}
                       /\ \A c, d \in Clusters : c <= d /\ d <= c => c = d
<1>1. NClusters \in Nat /\ NClusters # 0
  BY CtrlAssumption
<1>2. 0 \in Clusters
  BY <1>1 DEF Clusters
<1>3. \A c, d \in Clusters : c <= d /\ d <= c => c = d
  BY <1>1 DEF Clusters
<1> QED BY <1>2, <1>3

\* Every step keeps the types.
LEMMA TypeStep == CtrlTypeOK /\ [CtrlNext]_ctrlVars => CtrlTypeOK'
<1> SUFFICES ASSUME CtrlTypeOK, [CtrlNext]_ctrlVars PROVE CtrlTypeOK'
  OBVIOUS
<1> USE DEF CtrlTypeOK, hwVars, profVars, hostVars, isrVars, histVars
<1>1. CtrlDataOK'
  <2>1. ASSUME NEW c \in Clusters, ClusterEoc(c) PROVE CtrlDataOK'
    BY <2>1 DEF CtrlDataOK, ClusterEoc
  <2>2. ASSUME StartSet PROVE CtrlDataOK'
    BY <2>2 DEF CtrlDataOK, StartSet
  <2>3. ASSUME NEW c \in Clusters, StartHostTime(c) PROVE CtrlDataOK'
    BY <2>3 DEF CtrlDataOK, StartHostTime, IsFirst
  <2>4. ASSUME NEW c \in Clusters, StartAccelTime(c) PROVE CtrlDataOK'
    BY <2>4 DEF CtrlDataOK, StartAccelTime, IsFirst
  <2>5. ASSUME StartArm PROVE CtrlDataOK'
    BY <2>5 DEF CtrlDataOK, StartArm
  <2>6. ASSUME StartReinit PROVE CtrlDataOK'
    BY <2>6 DEF CtrlDataOK, StartReinit
  <2>7. ASSUME StartWrite PROVE CtrlDataOK'
    BY <2>7 DEF CtrlDataOK, StartWrite, WriteGpio
  <2>8. ASSUME StopWrite PROVE CtrlDataOK'
    BY <2>8 DEF CtrlDataOK, StopWrite, WriteGpio
  <2>9. ASSUME NEW c \in Clusters, StopHostTime(c) PROVE CtrlDataOK'
    BY <2>9 DEF CtrlDataOK, StopHostTime, IsFirst
  <2>10. ASSUME NEW c \in Clusters, StopAccelTime(c) PROVE CtrlDataOK'
    BY <2>10 DEF CtrlDataOK, StopAccelTime, IsFirst
  <2>11. ASSUME StopDisarm PROVE CtrlDataOK'
    BY <2>11 DEF CtrlDataOK, StopDisarm
  <2>12. ASSUME WaitCall PROVE CtrlDataOK'
    BY <2>12 DEF CtrlDataOK, WaitCall
  <2>13. ASSUME WaitCompleted PROVE CtrlDataOK'
    BY <2>13 DEF CtrlDataOK, WaitCompleted
  <2>14. ASSUME WaitTimeout PROVE CtrlDataOK'
    BY <2>14 DEF CtrlDataOK, WaitTimeout
  <2>15. ASSUME CtrlReset PROVE CtrlDataOK'
    BY <2>15 DEF CtrlDataOK, CtrlReset
  <2>16. ASSUME Release PROVE CtrlDataOK'
    BY <2>16 DEF CtrlDataOK, Release, WriteGpio
  <2>17. ASSUME IsrRead PROVE CtrlDataOK'
    BY <2>17 DEF CtrlDataOK, IsrRead
  <2>18. ASSUME NEW c \in Clusters, IsrFinish(c) PROVE CtrlDataOK'
    BY <2>18 DEF CtrlDataOK, IsrFinish, IsFirst
  <2>19. ASSUME NEW c \in Clusters, IsrStore(c) PROVE CtrlDataOK'
    BY <2>19 DEF CtrlDataOK, IsrStore, IsFirst
  <2>20. ASSUME NEW c \in Clusters, IsrComplete(c) PROVE CtrlDataOK'
    BY <2>20 DEF CtrlDataOK, IsrComplete, IsFirst
  <2>90. CASE UNCHANGED ctrlVars
    BY <2>90 DEF CtrlDataOK, ctrlVars
  <2>91. QED
    BY <2>1, <2>2, <2>3, <2>4, <2>5, <2>6, <2>7, <2>8, <2>9, <2>10, <2>11,
       <2>12, <2>13, <2>14, <2>15, <2>16, <2>17, <2>18, <2>19, <2>20, <2>90
       DEF CtrlNext, Start, Stop, Wait, Isr
<1>2. (awaited \in BOOLEAN)'
  <2>1. ASSUME NEW c \in Clusters, ClusterEoc(c) PROVE (awaited \in BOOLEAN)'
    BY <2>1, Zenon DEF ClusterEoc
  <2>2. ASSUME StartSet PROVE (awaited \in BOOLEAN)'
    BY <2>2, Zenon DEF StartSet
  <2>3. ASSUME NEW c \in Clusters, StartHostTime(c) PROVE (awaited \in BOOLEAN)'
    BY <2>3, Zenon DEF StartHostTime
  <2>4. ASSUME NEW c \in Clusters, StartAccelTime(c) PROVE (awaited \in BOOLEAN)'
    BY <2>4, Zenon DEF StartAccelTime
  <2>5. ASSUME StartArm PROVE (awaited \in BOOLEAN)'
    BY <2>5, Zenon DEF StartArm
  <2>6. ASSUME StartReinit PROVE (awaited \in BOOLEAN)'
    BY <2>6, Zenon DEF StartReinit
  <2>7. ASSUME StartWrite PROVE (awaited \in BOOLEAN)'
    BY <2>7, Zenon DEF StartWrite
  <2>8. ASSUME StopWrite PROVE (awaited \in BOOLEAN)'
    BY <2>8, Zenon DEF StopWrite
  <2>9. ASSUME NEW c \in Clusters, StopHostTime(c) PROVE (awaited \in BOOLEAN)'
    BY <2>9, Zenon DEF StopHostTime
  <2>10. ASSUME NEW c \in Clusters, StopAccelTime(c) PROVE (awaited \in BOOLEAN)'
    BY <2>10, Zenon DEF StopAccelTime
  <2>11. ASSUME StopDisarm PROVE (awaited \in BOOLEAN)'
    BY <2>11, Zenon DEF StopDisarm
  <2>12. ASSUME WaitCall PROVE (awaited \in BOOLEAN)'
    BY <2>12, Zenon DEF WaitCall
  <2>13. ASSUME WaitCompleted PROVE (awaited \in BOOLEAN)'
    BY <2>13, Zenon DEF WaitCompleted
  <2>14. ASSUME WaitTimeout PROVE (awaited \in BOOLEAN)'
    BY <2>14, Zenon DEF WaitTimeout
  <2>15. ASSUME CtrlReset PROVE (awaited \in BOOLEAN)'
    BY <2>15, Zenon DEF CtrlReset
  <2>16. ASSUME Release PROVE (awaited \in BOOLEAN)'
    BY <2>16, Zenon DEF Release
  <2>17. ASSUME IsrRead PROVE (awaited \in BOOLEAN)'
    BY <2>17, Zenon DEF IsrRead
  <2>18. ASSUME NEW c \in Clusters, IsrFinish(c) PROVE (awaited \in BOOLEAN)'
    BY <2>18, Zenon DEF IsrFinish
  <2>19. ASSUME NEW c \in Clusters, IsrStore(c) PROVE (awaited \in BOOLEAN)'
    BY <2>19, Zenon DEF IsrStore
  <2>20. ASSUME NEW c \in Clusters, IsrComplete(c) PROVE (awaited \in BOOLEAN)'
    BY <2>20, Zenon DEF IsrComplete
  <2>90. CASE UNCHANGED ctrlVars
    BY <2>90, Zenon DEF ctrlVars
  <2>91. QED
    BY <2>1, <2>2, <2>3, <2>4, <2>5, <2>6, <2>7, <2>8, <2>9, <2>10, <2>11,
       <2>12, <2>13, <2>14, <2>15, <2>16, <2>17, <2>18, <2>19, <2>20, <2>90, Zenon
       DEF CtrlNext, Start, Stop, Wait, Isr
<1> QED BY <1>1, <1>2

(***************************************************************************)
(* The driver's and the hardware's state keeps its types; ctrl_finished    *)
(* never goes below zero, with early stops and resets too.                 *)
(***************************************************************************)
THEOREM CtrlTypeCorrect == CtrlSpec => []CtrlTypeOK
<1>1. CtrlInit => CtrlTypeOK
  <2> SUFFICES ASSUME CtrlInit PROVE CtrlTypeOK
    OBVIOUS
  <2>1. CtrlDataOK
    BY DEF CtrlInit, CtrlDataOK
  <2>2. awaited \in BOOLEAN
    BY Zenon DEF CtrlInit
  <2> QED BY <2>1, <2>2 DEF CtrlTypeOK
<1> QED BY <1>1, TypeStep, PTL DEF CtrlSpec

----------------------------------------------------------------------------
\* Before the first run nothing is under way.
LEMMA InvInit == CtrlInit => CtrlInv
  BY DEF CtrlInit, CtrlInv, RestInv, StartInv, GpioInv, RunInv, Quiet, Starting

\* Every step of a host that stops only what it has awaited keeps CtrlInv.
LEMMA InvStep == ASSUME host = "patient", CtrlTypeOK, CtrlInv, [CtrlNext]_ctrlVars
                 PROVE  CtrlInv'
<1>0. CtrlDataOK
  BY DEF CtrlTypeOK
<1> USE <1>0 DEF CtrlDataOK, CtrlInv, RestInv, StartInv, GpioInv, RunInv, Quiet,
                Starting, IsFirst, hwVars, profVars, hostVars, isrVars, histVars
<1>1. ASSUME NEW c \in Clusters, ClusterEoc(c) PROVE CtrlInv'
  BY <1>1 DEF ClusterEoc
<1>2. ASSUME StartSet PROVE CtrlInv'
  BY <1>2, ClustersFacts DEF StartSet
<1>3. ASSUME NEW c \in Clusters, StartHostTime(c) PROVE CtrlInv'
  BY <1>3, ClustersFacts DEF StartHostTime
<1>4. ASSUME NEW c \in Clusters, StartAccelTime(c) PROVE CtrlInv'
  BY <1>4, ClustersFacts DEF StartAccelTime
<1>5. ASSUME StartArm PROVE CtrlInv'
  BY <1>5 DEF StartArm
<1>6. ASSUME StartReinit PROVE CtrlInv'
  BY <1>6 DEF StartReinit
<1>7. ASSUME StartWrite PROVE CtrlInv'
  BY <1>7, ClustersFacts DEF StartWrite, WriteGpio
<1>8. ASSUME StopWrite PROVE CtrlInv'
  BY <1>8, ClustersFacts DEF StopWrite, WriteGpio
<1>9. ASSUME NEW c \in Clusters, StopHostTime(c) PROVE CtrlInv'
  BY <1>9 DEF StopHostTime
<1>10. ASSUME NEW c \in Clusters, StopAccelTime(c) PROVE CtrlInv'
  BY <1>10 DEF StopAccelTime
<1>11. ASSUME StopDisarm PROVE CtrlInv'
  BY <1>11 DEF StopDisarm
<1>12. ASSUME WaitCall PROVE CtrlInv'
  BY <1>12 DEF WaitCall
<1>13. ASSUME WaitCompleted PROVE CtrlInv'
  <2>1. done' \in Nat /\ done > 0 /\ hpc = "wait"
    BY <1>13 DEF WaitCompleted
  <2>2. ~awaited /\ ~Starting
    BY <2>1
  <2>3. /\ done' = 0 /\ ended = Clusters /\ active = {} /\ intr = {} /\ ibits = {}
        /\ hfin = Clusters /\ afin = Clusters /\ ipc = "idle"
    BY <1>13, <2>1, <2>2 DEF WaitCompleted
  <2> QED BY <1>13, <2>2, <2>3 DEF WaitCompleted
<1>14. ASSUME WaitTimeout PROVE CtrlInv'
  BY <1>14 DEF WaitTimeout
<1>15. ASSUME CtrlReset PROVE CtrlInv'
  BY <1>15 DEF CtrlReset
<1>16. ASSUME Release PROVE CtrlInv'
  BY <1>16, ClustersFacts DEF Release, WriteGpio
<1>17. ASSUME IsrRead PROVE CtrlInv'
  BY <1>17 DEF IsrRead
<1>18. ASSUME NEW c \in Clusters, IsrFinish(c) PROVE CtrlInv'
  BY <1>18, ClustersFacts DEF IsrFinish
<1>19. ASSUME NEW c \in Clusters, IsrStore(c) PROVE CtrlInv'
  <2>1. ~awaited /\ ~Starting /\ active' = active \ {c}
    BY <1>19 DEF IsrStore
  <2>2. \A d \in Clusters : IsFirst(d, ibits) <=> d = c
    BY <1>19, ClustersFacts DEF IsrStore
  <2> QED BY <1>19, <2>1, <2>2 DEF IsrStore
<1>20. ASSUME NEW c \in Clusters, IsrComplete(c) PROVE CtrlInv'
  <2>1. ~awaited /\ ~Starting /\ c \in ibits /\ c \in ended /\ c \notin active
    BY <1>20 DEF IsrComplete
  <2>2. \A d \in Clusters : IsFirst(d, ibits) <=> d = c
    BY <1>20, ClustersFacts DEF IsrComplete
  <2>3. CASE active = {}
    <3>1. ibits = {c} /\ ended = Clusters /\ intr = {}
      BY <2>1, <2>2, <2>3
    <3> QED BY <1>20, <2>1, <2>3, <3>1 DEF IsrComplete
  <2>4. CASE active # {}
    BY <1>20, <2>1, <2>2, <2>4 DEF IsrComplete
  <2> QED BY <2>3, <2>4
<1>90. CASE UNCHANGED ctrlVars
  BY <1>90 DEF ctrlVars
<1> QED
  BY <1>1, <1>2, <1>3, <1>4, <1>5, <1>6, <1>7, <1>8, <1>9, <1>10, <1>11,
     <1>12, <1>13, <1>14, <1>15, <1>16, <1>17, <1>18, <1>19, <1>20, <1>90
     DEF CtrlNext, Start, Stop, Wait, Isr

\* What kind the host is does not change.
LEMMA HostStep == ASSUME [CtrlNext]_ctrlVars PROVE host' = host
  BY DEF CtrlNext, ClusterEoc, Start, Stop, Wait, Isr, CtrlReset, Release,
         StartSet, StartHostTime, StartAccelTime, StartArm, StartReinit,
         StartWrite, StopWrite, StopHostTime, StopAccelTime, StopDisarm,
         WaitCall, WaitCompleted, WaitTimeout, IsrRead, IsrFinish, IsrStore,
         IsrComplete, histVars, ctrlVars

\* CtrlInv is an invariant under the discipline.
LEMMA InvAlways == CtrlSpec => [](CtrlTypeOK /\ (host = "patient" => CtrlInv))
<1> DEFINE I == CtrlTypeOK /\ (host = "patient" => CtrlInv)
<1>1. I /\ [CtrlNext]_ctrlVars => I'
  BY TypeStep, InvStep, HostStep
<1>2. CtrlInit => CtrlInv
  BY InvInit
<1> QED BY <1>1, <1>2, CtrlTypeCorrect, PTL DEF CtrlSpec

(***************************************************************************)
(* A completion is never seen before every cluster of the run has ended,   *)
(* for any number of clusters, if the host stops only what it has awaited. *)
(***************************************************************************)
THEOREM CompletionSound == CtrlSpec => []CompletionMeansDone
<1>1. CtrlTypeOK /\ (host = "patient" => CtrlInv) => CompletionMeansDone
  BY DEF CtrlTypeOK, CtrlDataOK, CtrlInv, RestInv, RunInv, Quiet, Starting,
         CompletionMeansDone
<1> QED BY <1>1, InvAlways, PTL

(***************************************************************************)
(* Under the same discipline the profile is that of the current run.       *)
(***************************************************************************)
THEOREM ProfileSound == CtrlSpec => []ProfileOfThisRun
<1>1. CtrlTypeOK /\ (host = "patient" => CtrlInv) => ProfileOfThisRun
  BY DEF CtrlTypeOK, CtrlDataOK, CtrlInv, RestInv, RunInv, Quiet, Starting,
         ProfileOfThisRun
<1> QED BY <1>1, InvAlways, PTL

----------------------------------------------------------------------------
(* PART 2: RabL1 *)
(***************************************************************************)
(* The callers for which the properties of RabL1 hold: flags_drv happens   *)
(* to be clear when RAB_REQ is entered, the driver has the one constant    *)
(* mapping of port 1 that it has on every platform but Ariane, a request   *)
(* of several segments comes while both mappings have the same free fields *)
(* of page_ptrs, and the dates are valid and below that of a release.      *)
(***************************************************************************)
Plain == /\ StrayFlags \subseteq {{}} /\ NConst = 1 /\ ~Unaligned
         /\ \A d \in Dating : 0 < d[1] /\ d[1] <= d[2] /\ d[2] < MaxDate - 1

\* The records of a slice and of a request, and where an ioctl may be.
SliceRec == [exp : Dates, fixed : BOOLEAN, idx : Slices,
             pg : SUBSET Segs, fl : SUBSET DrvFlags, cfg : CfgSet]
ReqRec == [i : Nat, j : Nat, m : Nat, slice : Slices, idx : Slices,
           arr : Arrays \cup {NoArray, DrvMem}, nseg : Nat, exp : Dates, cur : Dates,
           fl : SUBSET DrvFlags, got : SUBSET Slices,
           by : {"none", "setup", "free", "release", "reset"}]
Pcs == {"idle", "setup", "reqget", "reqfree", "reqsetup", "strget", "strfree", "strsetup",
        "free", "freestr", "reinit"}
ReqPcs == {"reqget", "reqfree", "reqsetup"}
StrPcs == {"strget", "strfree", "strsetup"}

Types ==
    /\ sl \in [Mappings -> [Slices -> SliceRec]]
    /\ ptr \in [Mappings -> [Slices -> Arrays \cup {NoPages}]]
    /\ ref \in [Mappings -> [Slices -> Nat]]
    /\ stripe \in [Mappings -> SUBSET Slices]
    /\ pin \in [Arrays -> [Segs -> 0 .. 1]] /\ live \in SUBSET Arrays
    /\ nreq \in 0 .. MaxReqs /\ nswitch \in 0 .. MaxSwitches
    /\ released \in BOOLEAN /\ lost \in SUBSET Arrays
    /\ pc \in Pcs /\ rq \in ReqRec

\* The four kinds of slices: cleared; the constant mapping; one page of a RAB_REQ, set
\* up in every mapping; a slice of a RAB_REQ_STRIPED, in one mapping.
IsClear(r, s) == r = Cleared(FALSE) \/ (s = 0 /\ r = Cleared(TRUE))
ConstSlice == [exp |-> MaxDate, fixed |-> TRUE, idx |-> 0, pg |-> {0},
               fl |-> {"const", "every", "fixed"}, cfg |-> Cfg(DrvMem, {0}, TRUE)]
IsUser(r) == /\ r.exp \in 1 .. MaxDate - 2 /\ ~r.fixed /\ r.idx # 0 /\ r.fl = {"every"}
             /\ r.cfg.arr \in Arrays /\ r.cfg.en /\ r.cfg.pages = r.pg
             /\ \E i \in Segs : r.pg = {i}
IsStriped(r) == /\ r.exp = MaxDate /\ ~r.fixed /\ r.idx # 0 /\ "every" \notin r.fl
                /\ r.cfg.arr \in Arrays /\ r.cfg.pages = r.pg
Form(r, s) == IsClear(r, s) \/ (s = 0 /\ r = ConstSlice) \/ IsUser(r) \/ IsStriped(r)
Forms == \A m \in Mappings, s \in Slices : Form(sl[m][s], s)

Arr(m, s) == sl[m][s].cfg.arr
IsMapped(m, s) == Arr(m, s) \in Arrays

\* pulp_rab_slice_free is past the disabling of the slice and the put of its pages.
HasPut(m, s) == op.at = "free" /\ ~op.off /\ ~op.put /\ op.m = m /\ op.s = s

\* The field of page_ptrs a slice refers to holds the array it maps, which is alive,
\* and the pages of the slice are pinned until they are put.
Owns == \A m \in Mappings, s \in Slices : IsMapped(m, s) =>
            /\ ptr[m][sl[m][s].idx] = Arr(m, s)
            /\ Arr(m, s) \in live /\ Arr(m, s) <= nreq
            /\ ~HasPut(m, s) => \A p \in sl[m][s].pg : pin[Arr(m, s)][p] = 1

\* Two slices of one array: they expire together, use one field in a mapping, and map
\* different pages unless they are in different mappings or belong to a striped element,
\* which lies in one mapping and whose slices share all pages.
Alike(m, r, s, n, q, t) ==
    /\ r.exp = q.exp
    /\ m = n => r.idx = q.idx
    /\ r.exp = MaxDate => m = n /\ r.pg = q.pg
    /\ r.exp # MaxDate /\ m = n /\ r.pg = q.pg => s = t
Sames == \A m, n \in Mappings, s, t \in Slices :
            IsMapped(m, s) /\ Arr(m, s) = Arr(n, t) => Alike(m, sl[m][s], s, n, sl[n][t], t)

\* The constant mapping of m is set up; until then all of m is clear.
Up(m) == \/ pc # "setup" /\ rq.by # "setup"
         \/ rq.m = 1 /\ (pc = "setup" \/ rq.j > m)
Base == \A m \in Mappings :
    /\ Up(m) => sl[m][0] = ConstSlice /\ ref[m][0] = 1 /\ ptr[m][0] = NoPages
    /\ ~Up(m) => \A s \in Slices : IsClear(sl[m][s], s) /\ ref[m][s] = 0 /\ ptr[m][s] = NoPages

\* Pages are unlocked with a slice of mapping 1 or with a striped slice: as long as an
\* array is alive or one of its pages pinned, there is such a slice, unless the array
\* is in the hands of the ioctl or lost.
Holds(m, s, a) == Arr(m, s) = a /\ (m = 1 \/ sl[m][s].exp = MaxDate)
Kept == \A a \in Arrays \ lost : a # rq.arr =>
    /\ a \in live => \E m \in Mappings, s \in Slices : Holds(m, s, a)
    /\ \A p \in Segs : pin[a][p] # 0 =>
           \E m \in Mappings, s \in Slices : Holds(m, s, a) /\ p \in sl[m][s].pg

\* slice_idxs of the element of a mapping holds all slices of one array; striped slices
\* in no element belong to a request that failed or is under way.
StripeOK == \A m \in Mappings, s \in Slices :
    /\ s \in stripe[m] => /\ IsStriped(sl[m][s]) /\ Arr(m, s) \notin lost /\ Arr(m, s) # rq.arr
                          /\ \A t \in Slices : t \in stripe[m] <=> Arr(m, t) = Arr(m, s)
    /\ IsStriped(sl[m][s]) /\ s \notin stripe[m] => Arr(m, s) \in lost \/ Arr(m, s) = rq.arr

\* After a release what is still mapped belongs to requests that failed or lost a slice.
OnlyLost == \A m \in Mappings, s \in Slices : IsMapped(m, s) => Arr(m, s) \in lost
RelOK == released => OnlyLost /\ rq.arr \notin Arrays
LostOK == /\ \A a \in lost : a <= nreq
          /\ rq.arr \in Arrays => rq.arr = nreq /\ rq.arr \notin lost

\* What holds at each step of an ioctl.  First those that hold no array, and the
\* requests of the driver itself.
Settled == rq.arr = NoArray /\ rq.got = {}
IdleOK == pc = "idle" => rq = Idle
SetupOK == pc = "setup" => Settled /\ rq.by = "none" /\ rq.m \in {0, 1}
DrvReq == pc \in ReqPcs /\ rq.by = "setup"
DrvOK == DrvReq =>
    /\ rq.m = 1 /\ rq.j \in Mappings /\ rq.i = 0 /\ rq.nseg = 1 /\ rq.slice = 0 /\ rq.idx = 0
    /\ rq.arr = DrvMem /\ rq.exp = MaxDate /\ rq.cur = MaxDate /\ rq.got = {}
    /\ rq.fl = {"const", "every", "fixed"}

\* RAB_REQ: its pages are pinned, its slices are the ones for the segments before i, and
\* in mapping 0 for i itself once j = 1; the field it has chosen for segment 0 is free
\* in both mappings or has its array in both.
Pinned == \A p \in Segs : pin[rq.arr][p] = IF p < rq.nseg THEN 1 ELSE 0
UserReq == pc \in ReqPcs /\ rq.by # "setup"
OwnSlice(m, s) ==
    /\ IsUser(sl[m][s]) /\ sl[m][s].exp = rq.exp
    /\ \E p \in Segs : /\ sl[m][s].pg = {p}
                       /\ p < rq.i \/ (p = rq.i /\ m = 0 /\ rq.j = 1)
    /\ m = 1 \/ rq.nseg > 1 => sl[m][s].idx = rq.idx
UserOK == UserReq =>
    /\ rq.by = "none" /\ rq.arr \in live /\ rq.nseg \in 1 .. MaxSeg /\ rq.i < rq.nseg
    /\ rq.j \in Mappings /\ rq.fl = {"every"} /\ rq.got = {}
    /\ 0 < rq.cur /\ rq.cur <= rq.exp /\ rq.exp < MaxDate - 1
    /\ Pinned
    /\ \A m \in Mappings, s \in Slices : Arr(m, s) = rq.arr => OwnSlice(m, s)
    /\ \A p \in Segs : p < rq.i => \E s \in Slices : Arr(1, s) = rq.arr /\ sl[1][s].pg = {p}
    /\ rq.i > 0 => \A m \in Mappings : ptr[m][rq.idx] = rq.arr
    /\ rq.j = 1 /\ rq.nseg > 1 => ptr[0][rq.idx] = rq.arr
    /\ rq.i > 0 \/ pc # "reqget" => rq.idx # 0
    /\ rq.i = 0 /\ pc # "reqget" => ref[rq.j][rq.idx] = 0
    /\ rq.nseg > 1 /\ rq.i = 0 /\ rq.j = 0 /\ pc = "reqget" => FreeFields(0) = FreeFields(1)
    /\ rq.nseg > 1 /\ rq.i = 0 /\ (rq.j = 0 <=> pc # "reqget") => IsLeast(rq.idx, FreeFields(1))
    /\ pc = "reqfree" => /\ rq.slice # 0
                         /\ \/ sl[rq.j][rq.slice] = Cleared(FALSE)
                            \/ IsUser(sl[rq.j][rq.slice]) /\ sl[rq.j][rq.slice].exp < rq.cur
    /\ pc = "reqsetup" => rq.slice # 0 /\ sl[rq.j][rq.slice] = Cleared(FALSE)

\* RAB_REQ_STRIPED: exactly the slices got so far are mapped.
StrReq == pc \in StrPcs
StrOK == StrReq =>
    /\ rq.by = "none" /\ rq.arr \in live /\ rq.nseg \in 1 .. MaxSeg /\ rq.m \in Mappings
    /\ rq.exp = MaxDate /\ rq.cur = 1 /\ rq.idx # 0 /\ rq.j < NStriped /\ stripe[rq.m] = {}
    /\ Pinned
    /\ \A m \in Mappings, s \in Slices : Arr(m, s) = rq.arr <=> m = rq.m /\ s \in rq.got
    /\ \A s \in rq.got : /\ IsStriped(sl[rq.m][s]) /\ sl[rq.m][s].idx = rq.idx
                         /\ sl[rq.m][s].pg = 0 .. rq.nseg - 1
    /\ rq.j = 0 => rq.got = {} /\ ref[rq.m][rq.idx] = 0
    /\ rq.j > 0 => rq.got # {} /\ ptr[rq.m][rq.idx] = rq.arr
    /\ pc # "strget" => rq.slice # 0 /\ sl[rq.m][rq.slice] = Cleared(FALSE)

\* pulp_rab_free and pulp_rab_free_striped: nothing that was due is left behind the slice
\* under treatment, and the elements are gone before a release frees the rest.
Due(x, cur) == cur > x \/ (cur = 0 /\ x = MaxDate - 2)
FreeOK == pc = "free" =>
    /\ Settled /\ rq.by \in {"free", "release", "reset"} /\ rq.m \in Mappings
    /\ rq.by # "free" => rq.cur = MaxDate - 1 /\ \A m \in Mappings : stripe[m] = {}
    /\ \A m \in Mappings, s \in Slices :
           (m < rq.m \/ (m = rq.m /\ s < rq.slice)) /\ IsMapped(m, s) => ~Due(sl[m][s].exp, rq.cur)
FreeStrOK == pc = "freestr" =>
    /\ Settled /\ rq.by \in {"free", "release", "reset"} /\ rq.m \in Mappings
    /\ rq.slice = 0
    /\ rq.by # "free" /\ rq.m = 1 => stripe[0] = {}
ReinitOK == pc = "reinit" =>
    Settled /\ rq.by = "reset" /\ OnlyLost /\ \A m \in Mappings : stripe[m] = {}
StripeNone == pc = "setup" \/ rq.by = "setup" => \A m \in Mappings : stripe[m] = {}

\* The part of the inductive invariant about what only the ioctls use.
RabI == /\ Types /\ Forms /\ RefsExact /\ Owns /\ Sames /\ Base /\ Kept /\ StripeOK
        /\ RelOK /\ LostOK /\ IdleOK /\ SetupOK /\ DrvOK /\ UserOK /\ StrOK /\ FreeOK
        /\ FreeStrOK /\ ReinitOK /\ StripeNone

\* And the part about what the ioctls share with the mailbox interrupt.  The hardware
\* is ahead of mapping_active during a switch.
HwTypes ==
    /\ hw \in [Slices -> CfgSet] /\ mapping_active \in Mappings /\ switching \in BOOLEAN
    /\ torn \in SUBSET Slices
    /\ op \in [at : {"none", "free", "test", "write"}, m : Mappings, s : Slices,
              off : BOOLEAN, put : BOOLEAN, cfg : CfgSet]
HwMap == IF switching THEN 1 - mapping_active ELSE mapping_active

\* A hardware slice is off or what the mapping says, whoever changed it last, unless
\* both were at it.
Translates(s, c) == hw[s] = NoCfg \/ (hw[s] = c /\ hw[s].en)
HwIs == \A s \in Slices \ torn : Translates(s, sl[HwMap][s].cfg)

\* Which slice pulp_rab_slice_free is at, and the flags it has from its caller.
FreeFor(m, s, fl) ==
    \/ pc = "reqfree" /\ m = rq.j /\ s = rq.slice /\ fl = rq.fl
    \/ pc = "strfree" /\ m = rq.m /\ s = rq.slice /\ fl = StripedFlags
    \/ /\ pc = "free" /\ m = rq.m /\ s = rq.slice /\ fl = FreeFlags(m, s)
       /\ SliceCheck(m, s, fl, rq.cur)
    \/ pc = "freestr" /\ m = rq.m /\ IsLeast(s, stripe[m]) /\ fl = FreeStripedFlags(s)

\* It has put the pages of its slice when nothing is left to put.
PagesPut(m, s, fl) ==
    IsMapped(m, s) /\ UnlocksNow(fl) => \A p \in sl[m][s].pg : pin[Arr(m, s)][p] = 0
FreeOpOK == op.at = "free" =>
    \E fl \in SUBSET DrvFlags :
        /\ FreeFor(op.m, op.s, fl)
        /\ op.put => UnlocksNow(fl) /\ Pages(op.m, op.s) # NoPages
        /\ ~op.put => PagesPut(op.m, op.s, fl)
SetOpOK == op.at \in {"test", "write"} => sl[op.m][op.s].cfg = op.cfg

\* Without a switch at it, the slice is off from the test on that says so, and the
\* mapping of a slice that is about to be enabled is the active one.
AloneOK == op.at # "none" /\ op.s \notin torn =>
    /\ ~switching
    /\ op.at = "free" /\ IsMapped(op.m, op.s) /\ mapping_active = op.m /\ ~op.off =>
           hw[op.s] = NoCfg
    /\ op.at = "write" => mapping_active = op.m
HwI == HwTypes /\ HwIs /\ FreeOpOK /\ SetOpOK /\ AloneOK

\* The inductive invariant.
RabInv == RabI /\ HwI

\* The constants.
LEMMA Sizes ==
    /\ NSlices \in Nat \ {0} /\ 0 \in Slices /\ Slices \subseteq Nat /\ IsFiniteSet(Slices)
    /\ MaxDate \in Nat /\ MaxDate > 2 /\ Dates \subseteq Nat /\ 0 \in Dates /\ MaxDate \in Dates
    /\ 0 \in Segs /\ Segs \subseteq Nat /\ Arrays \subseteq Nat /\ 0 \notin Arrays /\ -1 \notin Arrays
    /\ NStriped \in Nat \ {0} /\ MaxSeg \in Nat \ {0} /\ MaxReqs \in Nat
<1>1. /\ NSlices \in Nat \ {0} /\ MaxDate \in Nat /\ MaxDate > 2 /\ NStriped \in Nat \ {0}
      /\ MaxSeg \in Nat \ {0} /\ MaxReqs \in Nat
  BY RabAssumption
<1>2. IsFiniteSet(Slices)
  <2>1. 0 \in Int /\ NSlices - 1 \in Int
    BY <1>1
  <2> QED
    BY <2>1, FS_Interval DEF Slices
<1>3. 0 \in Slices /\ Slices \subseteq Nat
  BY <1>1 DEF Slices
<1>4. Dates \subseteq Nat /\ 0 \in Dates /\ MaxDate \in Dates
  BY <1>1 DEF Dates
<1>5. 0 \in Segs /\ Segs \subseteq Nat
  BY <1>1 DEF Segs
<1>6. Arrays \subseteq Nat /\ 0 \notin Arrays /\ -1 \notin Arrays
  BY <1>1 DEF Arrays
<1> QED
  BY <1>1, <1>2, <1>3, <1>4, <1>5, <1>6

LEMMA ClearedFacts ==
    ASSUME NEW x \in BOOLEAN
    PROVE  /\ Cleared(x) \in SliceRec
           /\ Cleared(x).exp = 0 /\ Cleared(x).fixed = x /\ Cleared(x).idx = 0
           /\ Cleared(x).pg = {0} /\ Cleared(x).fl = {} /\ Cleared(x).cfg = NoCfg
<1>1. NoCfg \in CfgSet
  BY Sizes DEF NoCfg, Cfg, CfgSet
<1> QED
  BY <1>1, Sizes DEF Cleared, SliceRec

LEMMA NoCfgFacts == NoCfg.arr = NoArray /\ NoCfg.en = FALSE /\ NoArray \notin Arrays /\ DrvMem \notin Arrays
                    /\ NoCfg.arr \notin Arrays /\ NoCfg \in CfgSet
BY Sizes DEF NoCfg, Cfg, CfgSet, NoArray, DrvMem

LEMMA ConstFacts ==
    /\ ConstSlice \in SliceRec
    /\ ConstSlice.exp = MaxDate /\ ConstSlice.fixed /\ ConstSlice.idx = 0
    /\ ConstSlice.cfg.arr = DrvMem /\ ConstSlice.cfg.arr \notin Arrays /\ ConstSlice.cfg # NoCfg
    /\ ConstSlice.cfg = Cfg(DrvMem, {0}, TRUE)
<1>1. Cfg(DrvMem, {0}, TRUE) \in CfgSet
  BY Sizes DEF Cfg, CfgSet
<1>2. Cfg(DrvMem, {0}, TRUE).arr = DrvMem /\ Cfg(DrvMem, {0}, TRUE) # NoCfg
  BY DEF Cfg, NoCfg, DrvMem, NoArray
<1>3. {"const", "every", "fixed"} \in SUBSET DrvFlags
  BY DEF DrvFlags
<1> QED
  BY <1>1, <1>2, <1>3, Sizes, NoCfgFacts DEF ConstSlice, SliceRec

\* What a slice of some form is.
LEMMA FormFacts ==
    ASSUME NEW r, NEW s, Form(r, s)
    PROVE  /\ r.cfg.arr \in Arrays => IsUser(r) \/ IsStriped(r)
           /\ r.cfg.arr \notin Arrays => IsClear(r, s) \/ (s = 0 /\ r = ConstSlice)
           /\ IsClear(r, s) => r.cfg = NoCfg /\ r.exp = 0 /\ r.idx = 0 /\ r.cfg.arr \notin Arrays
           /\ r.cfg.arr \in Arrays => r.cfg # NoCfg /\ r.idx # 0 /\ r.fixed = FALSE /\ r.cfg.pages = r.pg
           /\ r.cfg # NoCfg /\ r.idx # 0 => r.cfg.arr \in Arrays
           /\ r.exp = MaxDate => ~IsUser(r)
           /\ IsStriped(r) \/ r = ConstSlice => r.exp = MaxDate
<1>1. IsClear(r, s) => r.cfg = NoCfg /\ r.exp = 0 /\ r.idx = 0 /\ r.cfg.arr \notin Arrays
  BY ClearedFacts, NoCfgFacts DEF IsClear
<1>2. IsUser(r) \/ IsStriped(r) => r.cfg.arr \in Arrays /\ r.idx # 0 /\ ~r.fixed /\ r.cfg.pages = r.pg
  BY DEF IsUser, IsStriped
<1>3. r = ConstSlice => r.idx = 0 /\ r.cfg.arr \notin Arrays /\ r.exp = MaxDate
  BY ConstFacts
<1>4. IsStriped(r) => r.exp = MaxDate
  BY DEF IsStriped
<1>5. r.exp = MaxDate => ~IsUser(r)
  BY Sizes DEF IsUser
<1>6. r.cfg.arr \in Arrays => r.cfg # NoCfg
  BY NoCfgFacts
<1> QED
  BY <1>1, <1>2, <1>3, <1>4, <1>5, <1>6 DEF Form

LEMMA SliceTypes ==
    ASSUME Types, NEW m \in Mappings, NEW s \in Slices
    PROVE  /\ sl[m][s] \in SliceRec /\ sl[m][s].exp \in Dates /\ sl[m][s].exp \in Nat
           /\ sl[m][s].fixed \in BOOLEAN
           /\ sl[m][s].idx \in Slices /\ sl[m][s].pg \in SUBSET Segs /\ sl[m][s].cfg \in CfgSet
           /\ sl[m][s].fl \in SUBSET DrvFlags
<1>1. sl[m][s] \in SliceRec
  BY DEF Types
<1> QED
  BY <1>1, Sizes DEF SliceRec

-----------------------------------------------------------------------------
(* References *)

\* The slices that refer to a field.
Users(m, f) == {s \in Slices : InUse(m, s) /\ sl[m][s].idx = f}

LEMMA RefFacts ==
    ASSUME RefsExact, NEW m \in Mappings, NEW f \in Slices
    PROVE  /\ IsFiniteSet(Users(m, f)) /\ ref[m][f] = Cardinality(Users(m, f)) /\ ref[m][f] \in Nat
           /\ ref[m][f] = 0 <=> Users(m, f) = {}
           /\ \A s, t \in Users(m, f) : ref[m][f] = 1 => s = t
           /\ \A s \in Users(m, f) : ref[m][f] # 1 => \E t \in Users(m, f) : t # s
<1>1. Users(m, f) \in SUBSET Slices
  BY DEF Users
<1>2. IsFiniteSet(Users(m, f)) /\ Cardinality(Users(m, f)) \in Nat
  BY <1>1, Sizes, FS_Subset, FS_CardinalityType
<1>3. ref[m][f] = Cardinality(Users(m, f))
  BY DEF RefsExact, Users
<1>4. Cardinality(Users(m, f)) = 0 <=> Users(m, f) = {}
  BY <1>2, FS_EmptySet
<1>5. Cardinality(Users(m, f)) = 1 <=> \E x : Users(m, f) = {x}
  BY <1>2, FS_Singleton
<1>6. ASSUME NEW s \in Users(m, f), \A t \in Users(m, f) : t = s PROVE ref[m][f] = 1
  <2>1. Users(m, f) = {s}
    BY <1>6
  <2> QED
    BY <2>1, <1>3, <1>5
<1> QED
  BY <1>2, <1>3, <1>4, <1>5, <1>6

\* Slices of arrays refer to their field, and a field to one array.
LEMMA MappedFacts ==
    ASSUME Types, Forms, RefsExact, Owns, NEW m \in Mappings, NEW s \in Slices, IsMapped(m, s)
    PROVE  /\ sl[m][s].idx \in Slices /\ s \in Users(m, sl[m][s].idx) /\ sl[m][s].idx # 0
           /\ ref[m][sl[m][s].idx] # 0
           /\ ptr[m][sl[m][s].idx] = Arr(m, s)
           /\ \A t \in Users(m, sl[m][s].idx) : Arr(m, t) = Arr(m, s)
<1>1. sl[m][s].idx \in Slices
  BY SliceTypes
<1>2. InUse(m, s) /\ sl[m][s].idx # 0
  BY FormFacts DEF Forms, IsMapped, InUse, Arr
<1>3. s \in Users(m, sl[m][s].idx)
  BY <1>2 DEF Users
<1>4. ref[m][sl[m][s].idx] # 0
  BY <1>1, <1>3, RefFacts
<1>5. ptr[m][sl[m][s].idx] = Arr(m, s)
  BY DEF Owns
<1>6. ASSUME NEW t \in Users(m, sl[m][s].idx) PROVE Arr(m, t) = Arr(m, s)
  <2>1. t \in Slices /\ InUse(m, t) /\ sl[m][t].idx = sl[m][s].idx
    BY DEF Users
  <2>2. IsMapped(m, t)
    BY <2>1, <1>2, FormFacts DEF Forms, IsMapped, InUse, Arr
  <2> QED
    BY <2>1, <2>2, <1>5 DEF Owns
<1> QED
  BY <1>1, <1>2, <1>3, <1>4, <1>5, <1>6

-----------------------------------------------------------------------------
(* The effect of pulp_rab_slice_free and pulp_rab_slice_setup *)

Core == Types /\ Forms /\ RefsExact /\ Owns /\ Sames

\* What both leave, the types of what they write included.
CoreNext == /\ sl' \in [Mappings -> [Slices -> SliceRec]]
            /\ ptr' \in [Mappings -> [Slices -> Arrays \cup {NoPages}]]
            /\ ref' \in [Mappings -> [Slices -> Nat]]
            /\ pin' \in [Arrays -> [Segs -> 0 .. 1]] /\ live' \in SUBSET Arrays
            /\ Forms' /\ RefsExact' /\ Owns' /\ Sames'

\* Only the slice s of mapping m becomes r.
Becomes(m, s, r) == \A n \in Mappings, t \in Slices :
                        sl'[n][t] = IF n = m /\ t = s THEN r ELSE sl[n][t]

\* A cleared slice is freed again: nothing changes.
LEMMA FreeClear ==
    ASSUME Core, NEW m \in Mappings, NEW s \in Slices, IsClear(sl[m][s], s),
           ptr[m][0] = NoPages, NEW fl, "const" \notin fl \/ ref[m][0] = 0,
           SliceFree(m, s, fl), op.m = m, op.s = s, pin' = pin, nreq' = nreq
    PROVE  /\ sl' = sl /\ ref' = ref /\ ptr' = ptr /\ live' = live
           /\ CoreNext
<1> USE DEF Core
<1>1. sl[m][s].idx = 0 /\ sl[m][s].cfg = NoCfg /\ sl[m][s] = Cleared(sl[m][s].fixed)
  BY ClearedFacts DEF IsClear
<1>2. sl' = sl
  <2>1. sl' = [sl EXCEPT ![m][s] = Cleared(sl[m][s].fixed)]
    BY DEF SliceFree
  <2>2. sl' = [sl EXCEPT ![m][s] = sl[m][s]]
    BY <2>1, <1>1
  <2> QED
    BY <2>2 DEF Types
<1>3. ref' = ref /\ ptr' = ptr /\ live' = live
  <2>1. ref[m][0] = 0 => [ref EXCEPT ![m][0] = IF ref[m][0] > 0 THEN ref[m][0] - 1 ELSE ref[m][0]] = ref
    BY Sizes DEF Types
  <2> QED
    BY <2>1, <1>1 DEF SliceFree
<1>4. \A n \in Mappings, t \in Slices : ~(IsMapped(n, t) /\ HasPut(n, t))
  BY <1>1, NoCfgFacts DEF IsMapped, Arr, HasPut
<1>5. Owns'
  BY <1>2, <1>3, <1>4 DEF Owns, IsMapped, Arr
<1>6. Forms' /\ Sames' /\ RefsExact'
  BY <1>2, <1>3 DEF Forms, Sames, RefsExact, IsMapped, Arr, InUse
<1> QED
  BY <1>2, <1>3, <1>5, <1>6 DEF CoreNext, Types

LEMMA Becoming ==
    ASSUME Types, NEW m \in Mappings, NEW s \in Slices, NEW r \in SliceRec,
           sl' = [sl EXCEPT ![m][s] = r]
    PROVE  Becomes(m, s, r) /\ sl' \in [Mappings -> [Slices -> SliceRec]]
BY DEF Types, Becomes

\* No other slice needs the pages it unlocks or the array it frees.
FreeSafe(m, s, fl, a, f) ==
    /\ UnlocksNow(fl) => \A n \in Mappings, t \in Slices :
           Arr(n, t) = a /\ (n # m \/ t # s) => sl[n][t].pg \cap sl[m][s].pg = {}
    /\ KfreesNow(fl) /\ ref[m][f] = 1 => \A n \in Mappings, t \in Slices :
           Arr(n, t) = a => n = m /\ t = s

\* What freeing the slice s of the array a and of the field f does.
FreeDone(m, s, fl, a, f) ==
    /\ Becomes(m, s, Cleared(FALSE))
    /\ f \in Slices /\ f # 0 /\ ref[m][f] # 0
    /\ \A b \in Arrays, p \in Segs :
          pin'[b][p] = IF b = a /\ UnlocksNow(fl) /\ p \in sl[m][s].pg THEN 0 ELSE pin[b][p]
    /\ live' = IF ref[m][f] = 1 /\ KfreesNow(fl) THEN live \ {a} ELSE live
    /\ \A n \in Mappings, g \in Slices :
          /\ n # m \/ g # f => ref'[n][g] = ref[n][g] /\ ptr'[n][g] = ptr[n][g]
          /\ n = m /\ g = f => /\ ref'[n][g] = ref[m][f] - 1
                               /\ ptr'[n][g] = IF ref[m][f] = 1 THEN NoPages ELSE a

\* A slice of a user page is freed.
LEMMA FreeMapped ==
    ASSUME Core, NEW m \in Mappings, NEW s \in Slices, IsMapped(m, s), NEW fl,
           SliceFree(m, s, fl), op.m = m, op.s = s, PagesPut(m, s, fl), pin' = pin, nreq' = nreq,
           NEW a, a = Arr(m, s), NEW f, f = sl[m][s].idx, FreeSafe(m, s, fl, a, f)
    PROVE  CoreNext /\ FreeDone(m, s, fl, a, f)
<1> USE DEF Core
<1>0. /\ UnlocksNow(fl) => \A n \in Mappings, t \in Slices :
             Arr(n, t) = a /\ (n # m \/ t # s) => sl[n][t].pg \cap sl[m][s].pg = {}
      /\ KfreesNow(fl) /\ ref[m][f] = 1 => \A n \in Mappings, t \in Slices :
             Arr(n, t) = a => n = m /\ t = s
  BY DEF FreeSafe
<1>1. /\ f \in Slices /\ f # 0 /\ s \in Users(m, f) /\ ref[m][f] # 0 /\ ptr[m][f] = a
      /\ \A t \in Users(m, f) : Arr(m, t) = a
  BY MappedFacts
<1>2. /\ a \in Arrays /\ a # NoPages /\ a \in live
      /\ UnlocksNow(fl) => \A p \in sl[m][s].pg : pin[a][p] = 0
  BY Sizes DEF IsMapped, Owns, NoPages, PagesPut
<1>3. sl[m][s].fixed = FALSE /\ sl[m][s].pg \in SUBSET Segs
  BY FormFacts, SliceTypes DEF Forms, IsMapped, Arr
<1>4. sl' = [sl EXCEPT ![m][s] = Cleared(FALSE)]
  BY <1>3 DEF SliceFree
<1>5. Becomes(m, s, Cleared(FALSE)) /\ sl' \in [Mappings -> [Slices -> SliceRec]]
  BY <1>4, ClearedFacts, Becoming
<1>6. /\ ref' = [ref EXCEPT ![m][f] = ref[m][f] - 1]
      /\ ptr' = (IF ref[m][f] = 1 THEN [ptr EXCEPT ![m][f] = NoPages] ELSE ptr)
      /\ live' = (IF ref[m][f] = 1 /\ KfreesNow(fl) THEN live \ {a} ELSE live)
  BY <1>1, <1>2 DEF SliceFree
<1>7. ref[m][f] \in Nat /\ ref[m][f] - 1 \in Nat
  <2>1. ref[m][f] \in Nat
    BY <1>1 DEF Types
  <2> QED
    BY <2>1, <1>1
<1>8. /\ ref' \in [Mappings -> [Slices -> Nat]]
      /\ \A n \in Mappings, g \in Slices :
            ref'[n][g] = IF n = m /\ g = f THEN ref[m][f] - 1 ELSE ref[n][g]
  BY <1>1, <1>6, <1>7 DEF Types
<1>9. /\ ptr' \in [Mappings -> [Slices -> Arrays \cup {NoPages}]]
      /\ \A n \in Mappings, g \in Slices :
            ptr'[n][g] = IF n = m /\ g = f THEN IF ref[m][f] = 1 THEN NoPages ELSE a
                                           ELSE ptr[n][g]
  BY <1>1, <1>6 DEF Types
<1>10. \A b \in Arrays, p \in Segs :
          pin'[b][p] = IF b = a /\ UnlocksNow(fl) /\ p \in sl[m][s].pg THEN 0 ELSE pin[b][p]
  BY <1>2
<1>11. pin' \in [Arrays -> [Segs -> 0 .. 1]]
  BY DEF Types
<1>12. live' \in SUBSET Arrays
  BY <1>6 DEF Types
<1>14. \A n \in Mappings, t \in Slices :
          /\ n # m \/ t # s => sl'[n][t] = sl[n][t]
          /\ n = m /\ t = s => sl'[n][t] = Cleared(FALSE) /\ sl'[n][t].cfg = NoCfg
                                /\ sl'[n][t].cfg.arr \notin Arrays
  BY <1>5, ClearedFacts, NoCfgFacts DEF Becomes
<1>15. Forms'
  <2>1. Form(Cleared(FALSE), s)
    BY DEF Form, IsClear
  <2> QED
    BY <2>1, <1>14 DEF Forms
<1>17. \A n \in Mappings, t \in Slices :
          sl'[n][t].cfg.arr \in Arrays => (n # m \/ t # s) /\ sl'[n][t] = sl[n][t] /\ IsMapped(n, t)
  BY <1>14 DEF IsMapped, Arr
<1>18. Owns'
  <2>1. ASSUME NEW n \in Mappings, NEW t \in Slices, sl'[n][t].cfg.arr \in Arrays
        PROVE  /\ ptr'[n][sl[n][t].idx] = Arr(n, t)
               /\ Arr(n, t) \in live' /\ Arr(n, t) <= nreq
               /\ \A p \in sl[n][t].pg : pin'[Arr(n, t)][p] = 1
    <3>1. (n # m \/ t # s) /\ sl'[n][t] = sl[n][t] /\ IsMapped(n, t)
      BY <2>1, <1>17
    <3>2. /\ ptr[n][sl[n][t].idx] = Arr(n, t)
          /\ Arr(n, t) \in live /\ Arr(n, t) <= nreq
          /\ \A p \in sl[n][t].pg : pin[Arr(n, t)][p] = 1
      BY <3>1 DEF Owns, HasPut
    <3>3. sl[n][t].idx \in Slices /\ t \in Users(n, sl[n][t].idx) /\ sl[n][t].pg \in SUBSET Segs
      BY <3>1, MappedFacts, SliceTypes
    <3>4. ptr'[n][sl[n][t].idx] = Arr(n, t)
      <4>1. CASE n = m /\ sl[n][t].idx = f
        <5>1. ref[m][f] # 1
          BY <4>1, <3>1, <3>3, <1>1, RefFacts
        <5> QED
          BY <4>1, <5>1, <3>2, <3>3, <1>1, <1>9
      <4>2. CASE ~(n = m /\ sl[n][t].idx = f)
        BY <4>2, <3>2, <3>3, <1>9
      <4> QED
        BY <4>1, <4>2
    <3>5. Arr(n, t) \in live'
      BY <3>1, <3>2, <1>0, <1>6
    <3>6. \A p \in sl[n][t].pg : pin'[Arr(n, t)][p] = 1
      <4>1. ASSUME NEW p \in sl[n][t].pg PROVE pin'[Arr(n, t)][p] = pin[Arr(n, t)][p]
        <5>1. p \in Segs /\ Arr(n, t) \in Arrays
          BY <3>1, <3>3 DEF IsMapped
        <5>2. ~(Arr(n, t) = a /\ UnlocksNow(fl) /\ p \in sl[m][s].pg)
          BY <3>1, <1>0
        <5> QED
          BY <5>1, <5>2, <1>10
      <4> QED
        BY <4>1, <3>2
    <3> QED
      BY <3>2, <3>4, <3>5, <3>6
  <2> QED
    BY <2>1, <1>17 DEF Owns, IsMapped, Arr
<1>19. Sames'
  <2>1. ASSUME NEW n \in Mappings, NEW k \in Mappings, NEW t \in Slices, NEW u \in Slices,
               sl'[n][t].cfg.arr \in Arrays, sl'[n][t].cfg.arr = sl'[k][u].cfg.arr
        PROVE  Alike(n, sl'[n][t], t, k, sl'[k][u], u)
    <3>1. sl'[n][t] = sl[n][t] /\ sl'[k][u] = sl[k][u] /\ IsMapped(n, t)
      BY <2>1, <1>17
    <3>2. Arr(n, t) = Arr(k, u)
      BY <3>1, <2>1 DEF Arr
    <3>3. Alike(n, sl[n][t], t, k, sl[k][u], u)
      BY <3>1, <3>2 DEF Sames
    <3> QED
      BY <3>1, <3>3
  <2> QED
    BY <2>1 DEF Sames, IsMapped, Arr
<1>20. RefsExact'
  <2> DEFINE New(n, g) == {t \in Slices : sl'[n][t].cfg # NoCfg /\ sl'[n][t].idx = g}
  <2>1. ASSUME NEW n \in Mappings, NEW g \in Slices PROVE ref'[n][g] = Cardinality(New(n, g))
    <3>1. IsFiniteSet(Users(n, g)) /\ ref[n][g] = Cardinality(Users(n, g))
      BY RefFacts
    <3>2. CASE n = m /\ g = f
      <4>1. New(n, g) = Users(n, g) \ {s}
        BY <3>2, <1>14 DEF Users, InUse
      <4>2. Cardinality(Users(n, g) \ {s}) = Cardinality(Users(n, g)) - 1
        BY <3>1, <3>2, <1>1, FS_RemoveElement
      <4> QED
        BY <4>1, <4>2, <3>1, <3>2, <1>8
    <3>3. CASE ~(n = m /\ g = f)
      <4>1. New(n, g) = Users(n, g)
        BY <3>3, <1>14 DEF Users, InUse
      <4> QED
        BY <4>1, <3>1, <3>3, <1>8
    <3> QED
      BY <3>2, <3>3
  <2> QED
    BY <2>1 DEF RefsExact, InUse
<1>21. CoreNext
  BY <1>5, <1>8, <1>9, <1>11, <1>12, <1>15, <1>18, <1>19, <1>20 DEF CoreNext
<1>22. \A n \in Mappings, g \in Slices :
          /\ n # m \/ g # f => ref'[n][g] = ref[n][g] /\ ptr'[n][g] = ptr[n][g]
          /\ n = m /\ g = f => /\ ref'[n][g] = ref[m][f] - 1
                               /\ ptr'[n][g] = IF ref[m][f] = 1 THEN NoPages ELSE a
  BY <1>8, <1>9
<1>23. live' = IF ref[m][f] = 1 /\ KfreesNow(fl) THEN live \ {a} ELSE live
  BY <1>6
<1> HIDE DEF Core
<1> QED
  BY <1>1, <1>5, <1>10, <1>21, <1>22, <1>23 DEF FreeDone

LEMMA AlikeSelf ==
    ASSUME NEW m, NEW s, NEW r PROVE Alike(m, r, s, m, r, s)
BY DEF Alike

LEMMA AlikeBack ==
    ASSUME NEW m, NEW s, NEW r, NEW n, NEW q, NEW t, Alike(m, r, s, n, q, t)
    PROVE  Alike(n, q, t, m, r, s)
BY DEF Alike

\* The new slice r agrees with the field and with the other slices of its array.
SetSafe(m, s, r, a) ==
    \/ r = ConstSlice /\ "const" \in r.fl
    \/ /\ "const" \notin r.fl /\ r.cfg.arr = a /\ a \in Arrays /\ a \in live /\ a <= nreq
       /\ \A p \in r.pg : pin[a][p] = 1
       /\ \A t \in Users(m, r.idx) : Arr(m, t) = a
       /\ \A n \in Mappings, t \in Slices : Arr(n, t) = a => Alike(m, r, s, n, sl[n][t], t)

\* What setting up the slice s as r does; v is what the field is left with.
SetDone(m, s, r, v) ==
    /\ Becomes(m, s, r)
    /\ \A n \in Mappings, g \in Slices :
          /\ n # m \/ g # r.idx => ref'[n][g] = ref[n][g] /\ ptr'[n][g] = ptr[n][g]
          /\ n = m /\ g = r.idx => ref'[n][g] = ref[m][r.idx] + 1 /\ ptr'[n][g] = v

\* A cleared slice is set up.
LEMMA SetupEffect ==
    ASSUME Core, NEW m \in Mappings, NEW s \in Slices, IsClear(sl[m][s], s),
           NEW r \in SliceRec, Form(r, s), r.cfg # NoCfg, NEW a, SliceSetup(m, s, r, a, FALSE),
           nreq' = nreq, pin' = pin, live' = live, SetSafe(m, s, r, a)
    PROVE  CoreNext /\ SetDone(m, s, r, IF "const" \in r.fl THEN NoPages ELSE a)
<1> USE DEF Core
<1> DEFINE f == r.idx  v == IF "const" \in r.fl THEN NoPages ELSE a
<1>1. f \in Slices /\ r.cfg \in CfgSet /\ r.cfg.en \in BOOLEAN /\ r.pg \in SUBSET Segs
  BY DEF SliceRec, CfgSet
<1>2. v \in Arrays \cup {NoPages}
  BY DEF SetSafe
<1>3. /\ sl' = [sl EXCEPT ![m][s] = r]
      /\ ref' = [ref EXCEPT ![m][f] = ref[m][f] + 1]
      /\ ptr' = [ptr EXCEPT ![m][f] = v]
  BY DEF SliceSetup
<1> HIDE DEF f, v
<1>4. Becomes(m, s, r) /\ sl' \in [Mappings -> [Slices -> SliceRec]]
  BY <1>3, Becoming
<1>5. \A n \in Mappings, t \in Slices :
          /\ n # m \/ t # s => sl'[n][t] = sl[n][t]
          /\ n = m /\ t = s => sl'[n][t] = r
  BY <1>4 DEF Becomes
<1>6. ref[m][f] \in Nat /\ ref[m][f] + 1 \in Nat
  BY <1>1 DEF Types
<1>7. /\ ref' \in [Mappings -> [Slices -> Nat]]
      /\ \A n \in Mappings, g \in Slices :
            ref'[n][g] = IF n = m /\ g = f THEN ref[m][f] + 1 ELSE ref[n][g]
  BY <1>1, <1>3, <1>6 DEF Types
<1>8. /\ ptr' \in [Mappings -> [Slices -> Arrays \cup {NoPages}]]
      /\ \A n \in Mappings, g \in Slices : ptr'[n][g] = IF n = m /\ g = f THEN v ELSE ptr[n][g]
  BY <1>1, <1>2, <1>3 DEF Types
<1>9. \A n \in Mappings, t \in Slices : ~HasPut(n, t)
  BY DEF SliceSetup, HasPut, NoOp
<1>10. Forms'
  BY <1>5 DEF Forms
<1>12. sl[m][s].cfg = NoCfg /\ ~IsMapped(m, s)
  BY FormFacts DEF Forms, IsMapped, Arr
<1>13. RefsExact'
  <2> DEFINE New(n, g) == {t \in Slices : sl'[n][t].cfg # NoCfg /\ sl'[n][t].idx = g}
  <2>1. ASSUME NEW n \in Mappings, NEW g \in Slices PROVE ref'[n][g] = Cardinality(New(n, g))
    <3>1. IsFiniteSet(Users(n, g)) /\ ref[n][g] = Cardinality(Users(n, g))
      BY RefFacts
    <3>2. CASE n = m /\ g = f
      <4>1. New(n, g) = Users(n, g) \cup {s}
        BY <3>2, <1>5, <1>12 DEF Users, InUse, f
      <4>2. s \notin Users(n, g)
        BY <1>12, <3>2 DEF Users, InUse
      <4>3. Cardinality(Users(n, g) \cup {s}) = Cardinality(Users(n, g)) + 1
        BY <3>1, <4>2, FS_AddElement
      <4> QED
        BY <4>1, <4>3, <3>1, <3>2, <1>7
    <3>3. CASE ~(n = m /\ g = f)
      <4>1. New(n, g) = Users(n, g)
        BY <3>3, <1>5, <1>12 DEF Users, InUse, f
      <4> QED
        BY <4>1, <3>1, <3>3, <1>7
    <3> QED
      BY <3>2, <3>3
  <2> QED
    BY <2>1 DEF RefsExact, InUse
<1>14. ASSUME r = ConstSlice /\ "const" \in r.fl PROVE Owns' /\ Sames'
  <2>1. f = 0 /\ r.cfg.arr \notin Arrays
    BY <1>14, ConstFacts DEF f
  <2>2. \A n \in Mappings, t \in Slices : sl'[n][t].cfg.arr \in Arrays =>
            sl'[n][t] = sl[n][t] /\ IsMapped(n, t)
    BY <2>1, <1>5 DEF IsMapped, Arr
  <2>3. Owns'
    <3>1. ASSUME NEW n \in Mappings, NEW t \in Slices, sl'[n][t].cfg.arr \in Arrays
          PROVE  /\ ptr'[n][sl'[n][t].idx] = sl'[n][t].cfg.arr
                 /\ sl'[n][t].cfg.arr \in live /\ sl'[n][t].cfg.arr <= nreq
                 /\ \A p \in sl'[n][t].pg : pin[sl'[n][t].cfg.arr][p] = 1
      <4>1. sl'[n][t] = sl[n][t] /\ IsMapped(n, t)
        BY <3>1, <2>2
      <4>2. sl[n][t].idx \in Slices /\ sl[n][t].idx # f
        BY <4>1, <2>1, MappedFacts
      <4>3. ptr'[n][sl[n][t].idx] = ptr[n][sl[n][t].idx]
        BY <4>2, <1>8
      <4> QED
        BY <4>1, <4>3, <1>9 DEF Owns, Arr
    <3> QED
      BY <3>1 DEF Owns, IsMapped, Arr
  <2>4. Sames'
    <3>1. ASSUME NEW n \in Mappings, NEW k \in Mappings, NEW t \in Slices, NEW u \in Slices,
                 sl'[n][t].cfg.arr \in Arrays, sl'[n][t].cfg.arr = sl'[k][u].cfg.arr
          PROVE  Alike(n, sl'[n][t], t, k, sl'[k][u], u)
      <4>1. sl'[n][t] = sl[n][t] /\ sl'[k][u] = sl[k][u] /\ IsMapped(n, t)
        BY <3>1, <2>2
      <4>2. Arr(n, t) = Arr(k, u)
        BY <4>1, <3>1 DEF Arr
      <4>3. Alike(n, sl[n][t], t, k, sl[k][u], u)
        BY <4>1, <4>2 DEF Sames
      <4> QED
        BY <4>1, <4>3
    <3> QED
      BY <3>1 DEF Sames, IsMapped, Arr
  <2> QED
    BY <2>3, <2>4
<1>15. ASSUME "const" \notin r.fl, r.cfg.arr = a, a \in Arrays, a \in live, a <= nreq,
              \A p \in r.pg : pin[a][p] = 1,
              \A t \in Users(m, f) : Arr(m, t) = a,
              \A n \in Mappings, t \in Slices : Arr(n, t) = a => Alike(m, r, s, n, sl[n][t], t)
       PROVE  Owns' /\ Sames'
  <2>1. v = a
    BY <1>15 DEF v
  <2>2. ASSUME NEW n \in Mappings, NEW t \in Slices, n # m \/ t # s, sl'[n][t].cfg.arr \in Arrays
        PROVE  sl'[n][t] = sl[n][t] /\ IsMapped(n, t)
    BY <2>2, <1>5 DEF IsMapped, Arr
  <2>3. Owns'
    <3>1. ASSUME NEW n \in Mappings, NEW t \in Slices, sl'[n][t].cfg.arr \in Arrays
          PROVE  /\ ptr'[n][sl'[n][t].idx] = sl'[n][t].cfg.arr
                 /\ sl'[n][t].cfg.arr \in live /\ sl'[n][t].cfg.arr <= nreq
                 /\ \A p \in sl'[n][t].pg : pin[sl'[n][t].cfg.arr][p] = 1
      <4>1. CASE n = m /\ t = s
        <5>1. sl'[n][t] = r
          BY <4>1, <1>5
        <5>2. ptr'[n][f] = a
          BY <4>1, <1>1, <1>8, <2>1
        <5> QED
          BY <5>1, <5>2, <1>15 DEF f
      <4>2. CASE n # m \/ t # s
        <5>1. sl'[n][t] = sl[n][t] /\ IsMapped(n, t)
          BY <4>2, <3>1, <2>2
        <5>2. sl[n][t].idx \in Slices /\ t \in Users(n, sl[n][t].idx) /\ ptr[n][sl[n][t].idx] = Arr(n, t)
          BY <5>1, MappedFacts
        <5>3. ptr'[n][sl[n][t].idx] = ptr[n][sl[n][t].idx]
          BY <5>2, <2>1, <1>8, <1>15
        <5> QED
          BY <5>1, <5>3, <1>9 DEF Owns, Arr
      <4> QED
        BY <4>1, <4>2
    <3> QED
      BY <3>1 DEF Owns, IsMapped, Arr
  <2>4. Sames'
    <3>1. ASSUME NEW n \in Mappings, NEW k \in Mappings, NEW t \in Slices, NEW u \in Slices,
                 sl'[n][t].cfg.arr \in Arrays, sl'[n][t].cfg.arr = sl'[k][u].cfg.arr
          PROVE  Alike(n, sl'[n][t], t, k, sl'[k][u], u)
      <4>1. CASE n = m /\ t = s
        <5>1. sl'[n][t] = r
          BY <4>1, <1>5
        <5>2. CASE k = m /\ u = s
          BY <4>1, <5>1, <5>2, AlikeSelf
        <5>3. CASE k # m \/ u # s
          <6>1. sl'[k][u] = sl[k][u] /\ Arr(k, u) = a
            BY <5>1, <5>3, <3>1, <2>2, <1>15 DEF Arr
          <6> QED
            BY <6>1, <5>1, <4>1, <1>15
        <5> QED
          BY <5>2, <5>3
      <4>2. CASE n # m \/ t # s
        <5>1. sl'[n][t] = sl[n][t] /\ IsMapped(n, t)
          BY <4>2, <3>1, <2>2
        <5>2. CASE k = m /\ u = s
          <6>1. sl'[k][u] = r /\ Arr(n, t) = a
            BY <5>1, <5>2, <3>1, <1>5, <1>15 DEF Arr
          <6>2. Alike(m, r, s, n, sl[n][t], t)
            BY <6>1, <1>15
          <6> QED
            BY <6>1, <6>2, <5>1, <5>2, AlikeBack
        <5>3. CASE k # m \/ u # s
          <6>1. sl'[k][u] = sl[k][u] /\ Arr(n, t) = Arr(k, u)
            BY <5>1, <5>3, <3>1, <2>2 DEF Arr
          <6>2. Alike(n, sl[n][t], t, k, sl[k][u], u)
            BY <6>1, <5>1 DEF Sames
          <6> QED
            BY <5>1, <6>1, <6>2
        <5> QED
          BY <5>2, <5>3
      <4> QED
        BY <4>1, <4>2
    <3> QED
      BY <3>1 DEF Sames, IsMapped, Arr
  <2> QED
    BY <2>3, <2>4
<1>16. Owns' /\ Sames'
  BY <1>14, <1>15 DEF f, SetSafe
<1>17. CoreNext
  <2>1. pin' \in [Arrays -> [Segs -> 0 .. 1]] /\ live' \in SUBSET Arrays
    BY DEF Types
  <2> QED
    BY <2>1, <1>4, <1>7, <1>8, <1>10, <1>13, <1>16 DEF CoreNext
<1>18. \A n \in Mappings, g \in Slices :
                 /\ n # m \/ g # f => ref'[n][g] = ref[n][g] /\ ptr'[n][g] = ptr[n][g]
                 /\ n = m /\ g = f => ref'[n][g] = ref[m][f] + 1 /\ ptr'[n][g] = v
  BY <1>7, <1>8
<1> HIDE DEF Core
<1> QED
  BY <1>4, <1>17, <1>18 DEF f, v, SetDone

-----------------------------------------------------------------------------
(* The invariant by parts *)

\* The types of what pulp_rab_slice_free and pulp_rab_slice_setup leave alone.
Rest == /\ stripe \in [Mappings -> SUBSET Slices]
        /\ nreq \in 0 .. MaxReqs /\ nswitch \in 0 .. MaxSwitches
        /\ released \in BOOLEAN /\ lost \in SUBSET Arrays
        /\ pc \in Pcs /\ rq \in ReqRec
Book == Base /\ Kept /\ StripeOK /\ RelOK /\ LostOK
Steps == /\ IdleOK /\ SetupOK /\ DrvOK /\ UserOK /\ StrOK /\ FreeOK
         /\ FreeStrOK /\ ReinitOK /\ StripeNone

LEMMA Parts == (RabI <=> Core /\ Book /\ Steps) /\ (RabI' <=> Core' /\ Book' /\ Steps')
BY DEF RabI, Core, Book, Steps

LEMMA CoreFrom == ASSUME CoreNext, Rest' PROVE Core'
<1>1. Types'
  BY DEF CoreNext, Rest, Types
<1> QED
  BY <1>1 DEF Core, CoreNext

LEMMA IdleFacts ==
    /\ Idle \in ReqRec /\ Idle.i = 0 /\ Idle.j = 0 /\ Idle.m = 0 /\ Idle.slice = 0 /\ Idle.idx = 0
    /\ Idle.arr = NoArray /\ Idle.nseg = 0 /\ Idle.exp = 0 /\ Idle.cur = 0 /\ Idle.fl = {}
    /\ Idle.got = {} /\ Idle.by = "none" /\ Idle.arr \notin Arrays
BY Sizes, NoCfgFacts DEF Idle, ReqRec

\* Only the part about the step that comes next needs proof.
LEMMA Phase ==
    ASSUME \/ pc' = "idle" /\ rq' = Idle
           \/ pc' = "setup" /\ SetupOK' /\ StripeNone'
           \/ pc' \in ReqPcs /\ rq'.by = "setup" /\ DrvOK' /\ StripeNone'
           \/ pc' \in ReqPcs /\ rq'.by # "setup" /\ UserOK'
           \/ pc' \in StrPcs /\ rq'.by # "setup" /\ StrOK'
           \/ pc' = "free" /\ rq'.by # "setup" /\ FreeOK'
           \/ pc' = "freestr" /\ rq'.by # "setup" /\ FreeStrOK'
           \/ pc' = "reinit" /\ rq'.by # "setup" /\ ReinitOK'
    PROVE  Steps'
<1>1. CASE pc' = "idle" /\ rq' = Idle
  BY <1>1, IdleFacts DEF Steps, IdleOK, SetupOK, DrvOK, UserOK, StrOK, FreeOK, FreeStrOK,
     ReinitOK,
      StripeNone, DrvReq, UserReq, StrReq, ReqPcs, StrPcs
<1>2. CASE pc' = "setup" /\ SetupOK' /\ StripeNone'
  BY <1>2 DEF Steps, IdleOK, DrvOK, UserOK, StrOK, FreeOK, FreeStrOK, ReinitOK,
      DrvReq, UserReq, StrReq, ReqPcs, StrPcs
<1>3. CASE pc' \in ReqPcs /\ rq'.by = "setup" /\ DrvOK' /\ StripeNone'
  BY <1>3 DEF Steps, IdleOK, SetupOK, UserOK, StrOK, FreeOK, FreeStrOK, ReinitOK,
      UserReq, StrReq, ReqPcs, StrPcs
<1>4. CASE pc' \in ReqPcs /\ rq'.by # "setup" /\ UserOK'
  BY <1>4 DEF Steps, IdleOK, SetupOK, DrvOK, StrOK, FreeOK, FreeStrOK, ReinitOK,
      StripeNone, DrvReq, StrReq, ReqPcs, StrPcs
<1>5. CASE pc' \in StrPcs /\ rq'.by # "setup" /\ StrOK'
  BY <1>5 DEF Steps, IdleOK, SetupOK, DrvOK, UserOK, FreeOK, FreeStrOK, ReinitOK,
      StripeNone, DrvReq, UserReq, ReqPcs, StrPcs
<1>6. CASE pc' = "free" /\ rq'.by # "setup" /\ FreeOK'
  BY <1>6 DEF Steps, IdleOK, SetupOK, DrvOK, UserOK, StrOK, FreeStrOK, ReinitOK,
      StripeNone, DrvReq, UserReq, StrReq, ReqPcs, StrPcs
<1>7. CASE pc' = "freestr" /\ rq'.by # "setup" /\ FreeStrOK'
  BY <1>7 DEF Steps, IdleOK, SetupOK, DrvOK, UserOK, StrOK, FreeOK, ReinitOK,
      StripeNone, DrvReq, UserReq, StrReq, ReqPcs, StrPcs
<1>8. CASE pc' = "reinit" /\ rq'.by # "setup" /\ ReinitOK'
  BY <1>8 DEF Steps, IdleOK, SetupOK, DrvOK, UserOK, StrOK, FreeOK, FreeStrOK,
      StripeNone, DrvReq, UserReq, StrReq, ReqPcs, StrPcs
<1> QED
  BY <1>1, <1>2, <1>3, <1>4, <1>5, <1>6, <1>7, <1>8

\* A step that changes neither slices nor page arrays nor their counters.
LEMMA QuietCore ==
    ASSUME Core, sl' = sl, ptr' = ptr, ref' = ref, op' = op, pin' = pin, live' = live,
           nreq' = nreq
    PROVE  CoreNext
<1>1. Forms' /\ Owns' /\ Sames' /\ RefsExact'
  BY DEF Core, Forms, Owns, Sames, RefsExact, IsMapped, Arr, InUse, HasPut
<1> QED
  BY <1>1 DEF Core, CoreNext, Types

LEMMA QuietBook ==
    ASSUME Core, Book, sl' = sl, ptr' = ptr, ref' = ref, stripe' = stripe, live' = live,
           pin' = pin \/ \A a \in Arrays, p \in Segs : pin'[a][p] # 0 => pin[a][p] # 0,
           nreq' = nreq, released' = released, \A m \in Mappings : Up(m)' <=> Up(m),
           \/ lost' = lost /\ (rq'.arr = rq.arr \/ (rq'.arr \notin Arrays /\ rq.arr \notin Arrays))
           \/ lost' = lost \cup ({rq.arr} \cap Arrays) /\ rq'.arr \notin Arrays
    PROVE  Book'
<1> USE DEF Book
<1>1. Base'
  <2>1. ASSUME NEW m \in Mappings
        PROVE  /\ Up(m)' => sl'[m][0] = ConstSlice /\ ref'[m][0] = 1 /\ ptr'[m][0] = NoPages
               /\ ~Up(m)' => \A s \in Slices : IsClear(sl'[m][s], s) /\ ref'[m][s] = 0
                                               /\ ptr'[m][s] = NoPages
    BY <2>1 DEF Base
  <2> QED
    BY <2>1 DEF Base
<1>2. \A a \in Arrays : a \notin lost' /\ a # rq'.arr => a \notin lost /\ a # rq.arr
  OBVIOUS
<1>3. lost \subseteq lost' /\ (rq'.arr \in Arrays => rq.arr \in Arrays /\ rq'.arr = rq.arr /\ lost' = lost)
  OBVIOUS
<1>4. Kept'
  <2>1. \A a \in Arrays, p \in Segs : pin'[a][p] # 0 => pin[a][p] # 0
    OBVIOUS
  <2> QED
    BY <2>1, <1>2 DEF Kept, Holds, Arr
<1>5. RelOK'
  BY <1>3 DEF RelOK, OnlyLost, IsMapped, Arr
<1>6. LostOK'
  <2>1. \A a \in lost' : a <= nreq
    <3>1. rq.arr \in Arrays => rq.arr <= nreq
      <4>1. rq.arr \in Arrays => rq.arr = nreq /\ nreq \in Nat
        BY Sizes DEF LostOK
      <4> QED
        BY <4>1
    <3> QED
      BY <3>1 DEF LostOK
  <2> QED
    BY <2>1, <1>3 DEF LostOK
<1>7. StripeOK'
  <2>1. ASSUME NEW m \in Mappings, NEW s \in Slices, s \in stripe[m]
        PROVE  /\ IsStriped(sl[m][s]) /\ Arr(m, s) \notin lost' /\ Arr(m, s) # rq'.arr
               /\ \A t \in Slices : t \in stripe[m] <=> Arr(m, t) = Arr(m, s)
    <3>1. /\ IsStriped(sl[m][s]) /\ Arr(m, s) \notin lost /\ Arr(m, s) # rq.arr
          /\ \A t \in Slices : t \in stripe[m] <=> Arr(m, t) = Arr(m, s)
      BY <2>1 DEF StripeOK
    <3>2. Arr(m, s) \in Arrays
      BY <3>1 DEF IsStriped, Arr
    <3> QED
      BY <3>1, <3>2
  <2>2. ASSUME NEW m \in Mappings, NEW s \in Slices, IsStriped(sl[m][s]), s \notin stripe[m]
        PROVE  Arr(m, s) \in lost' \/ Arr(m, s) = rq'.arr
    <3>1. Arr(m, s) \in lost \/ Arr(m, s) = rq.arr
      BY <2>2 DEF StripeOK
    <3>2. Arr(m, s) \in Arrays
      BY <2>2 DEF IsStriped, Arr
    <3> QED
      BY <3>1, <3>2
  <2> QED
    BY <2>1, <2>2 DEF StripeOK, Arr
<1> QED
  BY <1>1, <1>4, <1>5, <1>6, <1>7

-----------------------------------------------------------------------------
(* The initial state, and the steps that only move on *)

LEMMA InitI == ASSUME Plain, RabInit PROVE RabI
<1> USE DEF RabInit
<1>1. \A m \in Mappings, s \in Slices : sl[m][s] = Cleared(FALSE) /\ ref[m][s] = 0 /\ ptr[m][s] = NoPages
  BY DEF L1Cleared, NoRefs, NoPtrs
<1>2. \A m \in Mappings, s \in Slices : Arr(m, s) \notin Arrays /\ ~IsMapped(m, s) /\ ~InUse(m, s)
                                        /\ ~IsStriped(sl[m][s]) /\ IsClear(sl[m][s], s)
  BY <1>1, ClearedFacts, NoCfgFacts DEF Arr, IsMapped, InUse, IsStriped, IsClear
<1>3. Types
  <2>1. sl \in [Mappings -> [Slices -> SliceRec]]
    <3>1. \A m \in Mappings, s \in Slices :
              Cleared([n \in Mappings |-> [t \in Slices |-> FALSE]][m][s]) = Cleared(FALSE)
      OBVIOUS
    <3> QED
      BY <3>1, ClearedFacts DEF L1Cleared
  <2>2. ptr \in [Mappings -> [Slices -> Arrays \cup {NoPages}]] /\ ref \in [Mappings -> [Slices -> Nat]]
    BY DEF NoPtrs, NoRefs
  <2>3. stripe \in [Mappings -> SUBSET Slices]
    OBVIOUS
  <2>4. pin \in [Arrays -> [Segs -> 0 .. 1]] /\ live \in SUBSET Arrays /\ lost \in SUBSET Arrays
    OBVIOUS
  <2>5. nreq \in 0 .. MaxReqs /\ nswitch \in 0 .. MaxSwitches
    BY RabAssumption
  <2>6. pc \in Pcs /\ rq \in ReqRec
    BY IdleFacts DEF Pcs
  <2> QED
    BY <2>1, <2>2, <2>3, <2>4, <2>5, <2>6 DEF Types
<1>4. Forms /\ Owns /\ Sames
  BY <1>2 DEF Forms, Form, Owns, Sames
<1>5. RefsExact
  <2>1. ASSUME NEW m \in Mappings, NEW f \in Slices
        PROVE  ref[m][f] = Cardinality({s \in Slices : InUse(m, s) /\ sl[m][s].idx = f})
    <3>1. {s \in Slices : InUse(m, s) /\ sl[m][s].idx = f} = {}
      BY <1>2
    <3> QED
      BY <3>1, <1>1, FS_EmptySet
  <2> QED
    BY <2>1 DEF RefsExact
<1>6. \A m \in Mappings : ~Up(m)
  BY IdleFacts DEF Up
<1>7. Base
  BY <1>1, <1>2, <1>6 DEF Base
<1>8. Kept /\ RelOK /\ LostOK
  BY IdleFacts DEF Kept, RelOK, LostOK
<1>9. StripeOK
  BY <1>2 DEF StripeOK
<1>10. Steps
  BY IdleFacts DEF Steps, IdleOK, SetupOK, DrvOK, UserOK, StrOK, FreeOK, FreeStrOK, ReinitOK,
      StripeNone, DrvReq, UserReq, StrReq, ReqPcs, StrPcs, Settled
<1> QED
  BY <1>3, <1>4, <1>5, <1>7, <1>8, <1>9, <1>10, Parts DEF Core, Book

LEMMA SetupCallI == ASSUME Plain, RabI, SetupCall PROVE RabI'
<1>1. Core /\ Book /\ Steps
  BY Parts
<1>2. rq.m = 0 /\ rq.arr = NoArray /\ rq.by = "none" /\ pc = "setup"
  BY <1>1 DEF SetupCall, Steps, SetupOK, Settled, Plain
<1>3. /\ rq' \in ReqRec /\ rq'.m = 1 /\ rq'.arr = DrvMem /\ rq'.nseg = 1 /\ rq'.by = "setup"
      /\ rq'.exp = MaxDate /\ rq'.cur = MaxDate /\ rq'.fl = {"const", "every", "fixed"}
      /\ rq'.i = 0 /\ rq'.j = 0 /\ rq'.slice = 0 /\ rq'.idx = 0 /\ rq'.got = {}
  <2>1. rq' = [Idle EXCEPT !.m = 1, !.arr = DrvMem, !.nseg = 1, !.by = "setup",
                          !.exp = MaxDate, !.cur = MaxDate,
                          !.fl = {"const", "every", "fixed"}]
    BY <1>2 DEF SetupCall
  <2>2. {"const", "every", "fixed"} \in SUBSET DrvFlags
    BY DEF DrvFlags
  <2> QED
    BY <2>1, <2>2, Sizes DEF Idle, ReqRec
<1>4. pc' = "reqget" /\ UNCHANGED <<sl, ptr, ref, op, stripe, pin, live, nreq, nswitch, released, lost>>
  BY DEF SetupCall, l1Vars, memVars, portVars
<1>5. Core'
  <2>1. Rest'
    BY <1>1, <1>3, <1>4 DEF Rest, Core, Types, Pcs
  <2> QED
    BY <2>1, <1>1, <1>4, QuietCore, CoreFrom
<1>6. Book'
  <2>1. \A m \in Mappings : ~Up(m) /\ ~Up(m)'
    BY <1>2, <1>3, <1>4 DEF Up, Mappings
  <2>2. rq.arr \notin Arrays /\ rq'.arr \notin Arrays
    BY <1>2, <1>3, NoCfgFacts
  <2> QED
    BY <2>1, <2>2, <1>1, <1>4, QuietBook
<1>7. Steps'
  <2>1. DrvOK'
    BY <1>3 DEF DrvOK, Mappings
  <2>2. StripeNone'
    BY <1>1, <1>2, <1>4 DEF Steps, StripeNone
  <2>3. pc' \in ReqPcs
    BY <1>4 DEF ReqPcs
  <2> QED
    BY <2>1, <2>2, <2>3, <1>3, Phase
<1> QED
  BY <1>5, <1>6, <1>7, Parts

LEMMA SetupDoneI == ASSUME Plain, RabI, SetupDone PROVE RabI'
<1>1. Core /\ Book /\ Steps
  BY Parts
<1>2. rq.m = 1 /\ rq.arr = NoArray /\ rq.by = "none" /\ pc = "setup"
  BY <1>1 DEF SetupDone, Steps, SetupOK, Settled, Plain
<1>3. /\ pc' = "idle" /\ rq' = Idle
      /\ UNCHANGED <<sl, ptr, ref, op, stripe, pin, live, nreq, nswitch, released, lost>>
  BY DEF SetupDone, l1Vars, memVars, portVars
<1>4. Core'
  <2>1. Rest'
    BY <1>1, <1>3, IdleFacts DEF Rest, Core, Types, Pcs
  <2> QED
    BY <2>1, <1>1, <1>3, QuietCore, CoreFrom
<1>5. Book'
  <2>1. \A m \in Mappings : Up(m) /\ Up(m)'
    BY <1>2, <1>3, IdleFacts DEF Up, Mappings
  <2>2. rq.arr \notin Arrays /\ rq'.arr \notin Arrays
    BY <1>2, <1>3, NoCfgFacts, IdleFacts
  <2> QED
    BY <2>1, <2>2, <1>1, <1>3, QuietBook
<1> QED
  BY <1>3, <1>4, <1>5, Parts, Phase

\* The ioctls that free start from an idle driver.
LEMMA StartI ==
    ASSUME Plain, RabI, pc = "idle", rq' \in ReqRec, rq'.arr = NoArray, rq'.got = {}, rq'.slice = 0,
           rq'.by \in {"free", "release", "reset"}, rq'.m \in Mappings,
           rq'.by # "free" => rq'.m = 0,
           \/ pc' = "free" /\ rq'.by = "free" /\ rq'.m = 0
           \/ pc' = "freestr",
           UNCHANGED <<l1Vars, op, stripe, memVars, nreq, nswitch, released, lost>>
    PROVE  RabI'
<1>1. Core /\ Book /\ Steps
  BY Parts
<1>2. rq = Idle
  BY <1>1 DEF Steps, IdleOK
<1>3. UNCHANGED <<sl, ptr, ref, op, stripe, pin, live, nreq, nswitch, released, lost>>
  BY DEF l1Vars, memVars
<1>4. Core'
  <2>1. Rest'
    BY <1>1, <1>3 DEF Rest, Core, Types, Pcs
  <2> QED
    BY <2>1, <1>1, <1>3, QuietCore, CoreFrom
<1>5. Book'
  <2>1. \A m \in Mappings : Up(m) /\ Up(m)'
    BY <1>2, <1>3, IdleFacts DEF Up
  <2>2. rq.arr \notin Arrays /\ rq'.arr \notin Arrays
    BY <1>2, <1>3, NoCfgFacts, IdleFacts
  <2> QED
    BY <2>1, <2>2, <1>1, <1>3, QuietBook
<1>6. Settled' /\ rq'.by # "setup"
  BY DEF Settled
<1>7. CASE pc' = "free" /\ rq'.by = "free" /\ rq'.m = 0
  <2>1. \A m \in Mappings, s \in Slices : ~(m < rq'.m \/ (m = rq'.m /\ s < rq'.slice))
    BY <1>7, Sizes DEF Mappings, Slices
  <2>2. FreeOK'
    BY <2>1, <1>6, <1>7 DEF FreeOK
  <2> QED
    BY <1>4, <1>5, <1>6, <1>7, <2>2, Parts, Phase
<1>8. CASE pc' = "freestr"
  <2>1. FreeStrOK'
    BY <1>6, <1>8 DEF FreeStrOK
  <2> QED
    BY <1>4, <1>5, <1>6, <1>8, <2>1, Parts, Phase
<1> QED
  BY <1>7, <1>8

LEMMA FreeCallsI ==
    ASSUME Plain, RabI,
           \/ \E date \in Dates : FreeCall(date)
           \/ \E m \in Mappings : FreeStripedCall(m)
           \/ \E by \in {"release", "reset"} : ReleaseCall(by)
    PROVE  RabI'
<1>1. ASSUME NEW date \in Dates, FreeCall(date) PROVE RabI'
  <2>1. /\ rq' \in ReqRec /\ rq'.arr = NoArray /\ rq'.got = {} /\ rq'.slice = 0
        /\ rq'.by = "free" /\ rq'.m = 0
    BY <1>1, IdleFacts DEF FreeCall, Idle, ReqRec
  <2> QED
    BY <1>1, <2>1, StartI DEF FreeCall, Mappings, portVars
<1>2. ASSUME NEW m \in Mappings, FreeStripedCall(m) PROVE RabI'
  <2>1. rq' = [Idle EXCEPT !.m = m, !.by = "free"] /\ m \in Nat
    BY <1>2 DEF FreeStripedCall, Mappings
  <2>2. rq'.arr = NoArray /\ rq'.got = {} /\ rq'.slice = 0 /\ rq'.by = "free" /\ rq'.m = m
    BY <2>1 DEF Idle
  <2>3. rq' \in ReqRec
    BY <2>1, Sizes DEF Idle, ReqRec
  <2> QED
    BY <1>2, <2>2, <2>3, StartI DEF FreeStripedCall, portVars
<1>3. ASSUME NEW by \in {"release", "reset"}, ReleaseCall(by) PROVE RabI'
  <2>1. rq' = [Idle EXCEPT !.by = by]
    BY <1>3 DEF ReleaseCall
  <2>2. rq'.arr = NoArray /\ rq'.got = {} /\ rq'.slice = 0 /\ rq'.by = by /\ rq'.m = 0
    BY <2>1 DEF Idle
  <2>3. rq' \in ReqRec
    BY <2>1, Sizes DEF Idle, ReqRec
  <2> QED
    BY <1>3, <2>2, <2>3, StartI DEF ReleaseCall, Mappings, portVars
<1> QED
  BY <1>1, <1>2, <1>3

LEMMA FreeStripedDoneI == ASSUME Plain, RabI, FreeStripedDone PROVE RabI'
<1>1. Core /\ Book /\ Steps
  BY Parts
<1>2. /\ pc = "freestr" /\ stripe[rq.m] = {} /\ rq.arr = NoArray /\ rq.got = {} /\ rq.slice = 0
      /\ rq.by \in {"free", "release", "reset"} /\ rq.m \in Mappings /\ rq \in ReqRec
      /\ rq.by # "free" /\ rq.m = 1 => stripe[0] = {}
  BY <1>1 DEF FreeStripedDone, Steps, FreeStrOK, Settled, Core, Types
<1>3. UNCHANGED <<sl, ptr, ref, op, stripe, pin, live, nreq, nswitch, released, lost>>
  BY DEF FreeStripedDone, l1Vars, memVars, portVars
<1>4. \/ rq.by = "free" /\ pc' = "idle" /\ rq' = Idle
      \/ rq.by # "free" /\ rq.m = 0 /\ rq' = [rq EXCEPT !.m = 1] /\ pc' = pc
      \/ rq.by # "free" /\ rq.m = 1 /\ rq' = [rq EXCEPT !.m = 0, !.cur = MaxDate - 1] /\ pc' = "free"
  BY <1>2 DEF FreeStripedDone, Return
<1>5. ASSUME rq' \in ReqRec, pc' \in Pcs, rq'.arr \notin Arrays, rq'.by # "setup", pc' # "setup", Steps'
      PROVE  RabI'
  <2>1. Rest'
    BY <1>1, <1>3, <1>5 DEF Rest, Core, Types
  <2>2. Core'
    BY <2>1, <1>1, <1>3, QuietCore, CoreFrom
  <2>3. \A m \in Mappings : Up(m) /\ Up(m)'
    BY <1>2, <1>5 DEF Up
  <2>4. rq.arr \notin Arrays
    BY <1>2, NoCfgFacts
  <2>5. Book'
    BY <2>3, <2>4, <1>1, <1>3, <1>5, QuietBook
  <2> QED
    BY <2>2, <2>5, <1>5, Parts
<1>6. CASE rq.by = "free" /\ pc' = "idle" /\ rq' = Idle
  BY <1>5, <1>6, IdleFacts, Phase DEF Pcs
<1>7. CASE rq.by # "free" /\ rq.m = 0 /\ rq' = [rq EXCEPT !.m = 1] /\ pc' = pc
  <2>1. rq' \in ReqRec /\ rq'.arr = NoArray /\ rq'.by = rq.by /\ rq'.m = 1 /\ rq'.slice = 0 /\ rq'.got = {}
    BY <1>2, <1>7 DEF ReqRec
  <2>2. FreeStrOK'
    BY <2>1, <1>2, <1>3, <1>7 DEF FreeStrOK, Settled, Mappings
  <2>3. Steps'
    BY <2>1, <2>2, <1>2, <1>7, Phase
  <2> QED
    BY <2>1, <2>3, <1>2, <1>5, <1>7, NoCfgFacts DEF Pcs
<1>8. CASE rq.by # "free" /\ rq.m = 1 /\ rq' = [rq EXCEPT !.m = 0, !.cur = MaxDate - 1] /\ pc' = "free"
  <2>1. MaxDate - 1 \in Dates
    BY Sizes DEF Dates
  <2>2. /\ rq' \in ReqRec /\ rq'.arr = NoArray /\ rq'.by = rq.by /\ rq'.m = 0 /\ rq'.slice = 0 /\ rq'.got = {}
        /\ rq'.cur = MaxDate - 1
    BY <1>2, <1>8, <2>1 DEF ReqRec
  <2>3. \A m \in Mappings, s \in Slices : ~(m < rq'.m \/ (m = rq'.m /\ s < rq'.slice))
    BY <2>2, Sizes DEF Mappings, Slices
  <2>4. \A m \in Mappings : stripe'[m] = {}
    BY <1>2, <1>3, <1>8 DEF Mappings
  <2>5. FreeOK'
    BY <2>2, <2>3, <2>4, <1>2 DEF FreeOK, Settled, Mappings
  <2>6. Steps'
    BY <2>2, <2>5, <1>2, <1>8, Phase
  <2> QED
    BY <2>2, <2>6, <1>2, <1>5, <1>8, NoCfgFacts DEF Pcs
<1> QED
  BY <1>4, <1>6, <1>7, <1>8

LEMMA StepsSame ==
    ASSUME Steps, UNCHANGED <<sl, ptr, ref, stripe, pin, live, lost, pc, rq>>
    PROVE  Steps'
<1>1. IdleOK' /\ SetupOK' /\ DrvOK' /\ FreeStrOK' /\ StripeNone'
  BY DEF Steps, IdleOK, SetupOK, DrvOK, FreeStrOK, StripeNone, Settled, DrvReq
<1>2. UserOK'
  <2>1. (UserReq' <=> UserReq) /\ (Pinned' <=> Pinned)
    BY DEF UserReq, Pinned
  <2>2. \A m, s : (OwnSlice(m, s)' <=> OwnSlice(m, s)) /\ Arr(m, s)' = Arr(m, s)
    BY DEF OwnSlice, Arr
  <2>3. \A m : FreeFields(m)' = FreeFields(m)
    BY DEF FreeFields
  <2>4. IsLeast(rq.idx, FreeFields(1))' <=> IsLeast(rq.idx, FreeFields(1))
    BY <2>3 DEF IsLeast
  <2> QED
    BY <2>1, <2>2, <2>3, <2>4 DEF Steps, UserOK
<1>3. StrOK'
  BY DEF Steps, StrOK, StrReq, Pinned, Arr
<1>4. FreeOK' /\ ReinitOK'
  BY DEF Steps, FreeOK, ReinitOK, Settled, OnlyLost, IsMapped, Arr
<1> QED
  BY <1>1, <1>2, <1>3, <1>4 DEF Steps

\* A step of another one, or of the slice operation in progress, that leaves alone what
\* only the ioctls use.
LEMMA SameI ==
    ASSUME RabI, UNCHANGED <<sl, ptr, ref, stripe, pin, live, pc, rq, nreq, released, lost>>,
           nswitch' \in 0 .. MaxSwitches,
           \A m \in Mappings, s \in Slices : HasPut(m, s) => HasPut(m, s)'
    PROVE  RabI'
<1>1. Core /\ Book /\ Steps
  BY Parts
<1>2. Rest'
  BY <1>1 DEF Rest, Core, Types
<1>3. Forms' /\ Sames' /\ RefsExact'
  BY <1>1 DEF Core, Forms, Sames, RefsExact, IsMapped, Arr, InUse
<1>4. Owns'
  BY <1>1 DEF Core, Owns, IsMapped, Arr
<1>5. Core'
  BY <1>1, <1>2, <1>3, <1>4, CoreFrom DEF Core, CoreNext, Types
<1>6. Book'
  <2>1. \A m \in Mappings : Up(m)' <=> Up(m)
    BY DEF Up
  <2> QED
    BY <2>1, <1>1, QuietBook
<1>7. Steps'
  BY <1>1, StepsSame
<1> QED
  BY <1>5, <1>6, <1>7, Parts

LEMMA ReinitI == ASSUME Plain, RabI, Reinit PROVE RabI'
<1>1. Core /\ Book /\ Steps
  BY Parts
<1>2. pc = "reinit" /\ OnlyLost /\ rq.arr = NoArray /\ \A m \in Mappings : stripe[m] = {}
  BY <1>1 DEF Reinit, Steps, ReinitOK, Settled
<1>3. /\ UNCHANGED <<stripe, pin, live, nreq, nswitch, lost>>
      /\ ptr' = NoPtrs /\ ref' = NoRefs
      /\ released' = TRUE /\ pc' = "setup" /\ rq' = Idle
  BY DEF Reinit, memVars
<1>4. \A m \in Mappings, s \in Slices : sl[m][s].fixed \in BOOLEAN /\ (s # 0 => sl[m][s].fixed = FALSE)
  <2>1. ASSUME NEW m \in Mappings, NEW s \in Slices, s # 0 PROVE sl[m][s].fixed = FALSE
    <3>1. Form(sl[m][s], s) /\ sl[m][s].fixed \in BOOLEAN
      BY <1>1, SliceTypes DEF Core, Forms
    <3> QED
      BY <2>1, <3>1, ClearedFacts DEF Form, IsClear, IsUser, IsStriped
  <2> QED
    BY <2>1, <1>1, SliceTypes DEF Core
<1>5. \A m \in Mappings, s \in Slices : sl'[m][s] = Cleared(sl[m][s].fixed)
  BY DEF Reinit, L1Cleared
<1>6. \A m \in Mappings, s \in Slices :
         /\ IsClear(sl'[m][s], s) /\ sl'[m][s].cfg = NoCfg /\ sl'[m][s].cfg.arr \notin Arrays
         /\ sl'[m][s] \in SliceRec
  BY <1>4, <1>5, ClearedFacts, NoCfgFacts DEF IsClear
<1>7. sl' \in [Mappings -> [Slices -> SliceRec]]
  <2>1. sl' = [m \in Mappings |-> [s \in Slices |-> sl'[m][s]]]
    BY DEF Reinit, L1Cleared
  <2> QED
    BY <2>1, <1>6
<1>8. ptr' \in [Mappings -> [Slices -> Arrays \cup {NoPages}]] /\ ref' \in [Mappings -> [Slices -> Nat]]
      /\ \A m \in Mappings, f \in Slices : ref'[m][f] = 0 /\ ptr'[m][f] = NoPages
  BY <1>3 DEF NoPtrs, NoRefs
<1>10. Forms' /\ Owns' /\ Sames'
  BY <1>6 DEF Forms, Form, Owns, Sames, IsMapped, Arr
<1>11. RefsExact'
  <2>1. ASSUME NEW m \in Mappings, NEW f \in Slices
        PROVE  ref'[m][f] = Cardinality({s \in Slices : sl'[m][s].cfg # NoCfg /\ sl'[m][s].idx = f})
    <3>1. {s \in Slices : sl'[m][s].cfg # NoCfg /\ sl'[m][s].idx = f} = {}
      BY <1>6
    <3> QED
      BY <3>1, <1>8, FS_EmptySet
  <2> QED
    BY <2>1 DEF RefsExact, InUse
<1>12. CoreNext
  BY <1>1, <1>3, <1>7, <1>8, <1>10, <1>11 DEF Core, CoreNext, Types
<1>13. Rest'
  BY <1>1, <1>3, IdleFacts DEF Rest, Core, Types, Pcs, Mappings
<1>14. Base'
  <2>1. \A m \in Mappings : ~Up(m)'
    BY <1>3, IdleFacts DEF Up
  <2> QED
    BY <2>1, <1>6, <1>8 DEF Base
<1>15. Kept'
  <2>1. ASSUME NEW a \in Arrays, a \notin lost
        PROVE  a \notin live /\ \A p \in Segs : pin[a][p] = 0
    <3>1. \A m \in Mappings, s \in Slices : ~Holds(m, s, a)
      BY <2>1, <1>2 DEF Holds, OnlyLost, IsMapped
    <3>2. a # rq.arr
      BY <1>2, NoCfgFacts
    <3> QED
      BY <3>1, <3>2, <2>1, <1>1 DEF Book, Kept
  <2> QED
    BY <2>1, <1>3 DEF Kept
<1>16. StripeOK'
  BY <1>2, <1>3, <1>6 DEF StripeOK, IsStriped
<1>17. RelOK' /\ LostOK'
  BY <1>1, <1>3, <1>6, IdleFacts DEF Book, RelOK, LostOK, OnlyLost, IsMapped, Arr
<1>18. Steps'
  <2>1. SetupOK' /\ StripeNone'
    BY <1>2, <1>3, IdleFacts DEF SetupOK, StripeNone, Settled
  <2> QED
    BY <2>1, <1>3, Phase
<1> QED
  BY <1>12, <1>13, <1>14, <1>15, <1>16, <1>17, <1>18, CoreFrom, Parts DEF Book

-----------------------------------------------------------------------------
(* RAB_REQ *)

\* A request of the user that fails leaves everything as it is.
LEMMA FailI ==
    ASSUME Plain, RabI, Fail, rq.by # "setup", pc # "setup",
           UNCHANGED <<sl, ptr, ref, op, stripe, pin, live, nreq, nswitch, released>>
    PROVE  RabI'
<1>1. Core /\ Book /\ Steps
  BY Parts
<1>2. pc' = "idle" /\ rq' = Idle /\ lost' = lost \cup ({rq.arr} \cap Arrays)
  BY DEF Fail, Return, Loses
<1>3. Rest'
  BY <1>1, <1>2, IdleFacts DEF Rest, Core, Types, Pcs
<1>4. Core'
  BY <1>1, <1>3, QuietCore, CoreFrom
<1>5. \A m \in Mappings : Up(m) /\ Up(m)'
  BY <1>2, IdleFacts DEF Up
<1>6. Book'
  BY <1>1, <1>2, <1>5, IdleFacts, QuietBook
<1> QED
  BY <1>2, <1>4, <1>6, Phase, Parts

\* The body of UserOK, DrvOK and StrOK.
LEMMA UserNow ==
    ASSUME RabI, UserReq
    PROVE  /\ UserOK /\ Core /\ Book /\ \A m \in Mappings : Up(m)
           /\ rq.by = "none" /\ rq.arr \in live /\ rq.nseg \in 1 .. MaxSeg /\ rq.i < rq.nseg
           /\ rq.j \in Mappings /\ rq.fl = {"every"} /\ rq.got = {}
           /\ 0 < rq.cur /\ rq.cur <= rq.exp /\ rq.exp < MaxDate - 1
           /\ rq.i \in Nat /\ rq.nseg \in Nat /\ rq.cur \in Nat /\ rq.exp \in Nat /\ rq.idx \in Slices
           /\ rq.slice \in Slices /\ rq.arr \in Arrays /\ rq \in ReqRec
           /\ rq.arr = nreq /\ rq.arr \notin lost /\ ~released
<1>1. Core /\ Book /\ Steps
  BY Parts
<1>2. UserOK /\ rq \in ReqRec
  BY <1>1 DEF Steps, Core, Types
<1>3. /\ rq.by = "none" /\ rq.arr \in live /\ rq.nseg \in 1 .. MaxSeg /\ rq.i < rq.nseg
      /\ rq.j \in Mappings /\ rq.fl = {"every"} /\ rq.got = {}
      /\ 0 < rq.cur /\ rq.cur <= rq.exp /\ rq.exp < MaxDate - 1
  BY <1>2 DEF UserOK
<1>4. /\ rq.i \in Nat /\ rq.nseg \in Nat /\ rq.cur \in Nat /\ rq.exp \in Nat /\ rq.idx \in Slices
      /\ rq.slice \in Slices
  BY <1>2, Sizes DEF ReqRec
<1>5. rq.arr \in Arrays
  BY <1>1, <1>3 DEF Core, Types
<1>6. rq.arr = nreq /\ rq.arr \notin lost /\ ~released
  BY <1>1, <1>5 DEF Book, LostOK, RelOK
<1>7. \A m \in Mappings : Up(m)
  BY <1>3 DEF UserReq, ReqPcs, Up
<1> QED
  BY <1>1, <1>2, <1>3, <1>4, <1>5, <1>6, <1>7

LEMMA DrvNow ==
    ASSUME RabI, DrvReq
    PROVE  /\ Core /\ Book /\ StripeNone
           /\ rq.m = 1 /\ rq.j \in Mappings /\ rq.i = 0 /\ rq.nseg = 1 /\ rq.slice = 0 /\ rq.idx = 0
           /\ rq.arr = DrvMem /\ rq.exp = MaxDate /\ rq.cur = MaxDate /\ rq.got = {}
           /\ rq.fl = {"const", "every", "fixed"} /\ rq.by = "setup" /\ rq \in ReqRec /\ rq.arr \notin Arrays
           /\ ~Up(rq.j) /\ \A m \in Mappings : Up(m) <=> rq.j > m
           /\ \A s \in Slices : IsClear(sl[rq.j][s], s) /\ ref[rq.j][s] = 0 /\ ptr[rq.j][s] = NoPages
<1>1. Core /\ Book /\ Steps
  BY Parts
<1>2. /\ rq.m = 1 /\ rq.j \in Mappings /\ rq.i = 0 /\ rq.nseg = 1 /\ rq.slice = 0 /\ rq.idx = 0
      /\ rq.arr = DrvMem /\ rq.exp = MaxDate /\ rq.cur = MaxDate /\ rq.got = {}
      /\ rq.fl = {"const", "every", "fixed"} /\ rq.by = "setup" /\ rq \in ReqRec
      /\ StripeNone
  BY <1>1 DEF Steps, DrvOK, DrvReq, Core, Types
<1>3. pc # "setup"
  BY DEF DrvReq, ReqPcs
<1>4. \A m \in Mappings : Up(m) <=> rq.j > m
  BY <1>2, <1>3 DEF Up
<1>5. ~Up(rq.j)
  BY <1>2, <1>4 DEF Mappings
<1>6. \A s \in Slices : IsClear(sl[rq.j][s], s) /\ ref[rq.j][s] = 0 /\ ptr[rq.j][s] = NoPages
  BY <1>1, <1>2, <1>5 DEF Book, Base
<1> QED
  BY <1>1, <1>2, <1>4, <1>5, <1>6, NoCfgFacts

\* The slice a request of the user finds: cleared, or with an older expiry date.
LEMMA UserFinds ==
    ASSUME RabI, UserReq, NEW s \in Slices, SliceCheck(rq.j, s, rq.fl, rq.cur)
    PROVE  /\ s # 0
           /\ \/ sl[rq.j][s] = Cleared(FALSE)
              \/ IsUser(sl[rq.j][s]) /\ sl[rq.j][s].exp < rq.cur
<1>1. Core /\ Book /\ Up(rq.j) /\ rq.j \in Mappings /\ rq.fl = {"every"} /\ rq.cur \in Nat /\ 0 < rq.cur
      /\ rq.cur < MaxDate /\ MaxDate \in Nat
  <2>1. /\ Core /\ Book /\ Up(rq.j) /\ rq.j \in Mappings /\ rq.fl = {"every"} /\ rq.cur \in Nat /\ 0 < rq.cur
        /\ rq.cur <= rq.exp /\ rq.exp < MaxDate - 1 /\ rq.exp \in Nat
    BY UserNow
  <2> QED
    BY <2>1, Sizes
<1>2. sl[rq.j][0] = ConstSlice
  BY <1>1 DEF Book, Base
<1>3. sl[rq.j][s].fixed = FALSE /\ sl[rq.j][s].exp \in Nat
  BY <1>1, SliceTypes DEF SliceCheck, Core
<1>4. rq.cur > sl[rq.j][s].exp
  BY <1>1 DEF SliceCheck
<1>5. s # 0
  BY <1>2, <1>3, ConstFacts
<1>6. Form(sl[rq.j][s], s)
  BY <1>1 DEF Core, Forms
<1>7. ~IsStriped(sl[rq.j][s])
  BY <1>1, <1>3, <1>4 DEF IsStriped
<1> QED
  BY <1>3, <1>4, <1>5, <1>6, <1>7 DEF Form, IsClear

LEMMA ReqGetI == ASSUME Plain, RabI, ReqGet PROVE RabI'
<1>1. Core /\ Book /\ Steps
  BY Parts
<1>2. /\ pc = "reqget"
      /\ UNCHANGED <<sl, ptr, ref, op, stripe, pin, live, nreq, nswitch, released>>
  BY DEF ReqGet, l1Vars, memVars, portVars
<1>3. \A m, s : Arr(m, s)' = Arr(m, s)
  BY <1>2 DEF Arr
<1>4. ASSUME NEW s \in Slices, NEW f \in Slices, rq' = [rq EXCEPT !.slice = s, !.idx = f],
             pc' = "reqfree", lost' = lost
      PROVE  /\ Core' /\ Book'
             /\ rq'.i = rq.i /\ rq'.j = rq.j /\ rq'.m = rq.m /\ rq'.arr = rq.arr /\ rq'.nseg = rq.nseg
             /\ rq'.exp = rq.exp /\ rq'.cur = rq.cur /\ rq'.fl = rq.fl /\ rq'.got = rq.got
             /\ rq'.by = rq.by /\ rq'.slice = s /\ rq'.idx = f
  <2>1. rq \in ReqRec
    BY <1>1 DEF Core, Types
  <2>2. /\ rq' \in ReqRec
        /\ rq'.i = rq.i /\ rq'.j = rq.j /\ rq'.m = rq.m /\ rq'.arr = rq.arr /\ rq'.nseg = rq.nseg
        /\ rq'.exp = rq.exp /\ rq'.cur = rq.cur /\ rq'.fl = rq.fl /\ rq'.got = rq.got
        /\ rq'.by = rq.by /\ rq'.slice = s /\ rq'.idx = f
    BY <1>4, <2>1 DEF ReqRec
  <2>3. Rest'
    BY <1>1, <1>2, <1>4, <2>2 DEF Rest, Core, Types, Pcs
  <2>4. Core'
    BY <1>1, <1>2, <2>3, QuietCore, CoreFrom
  <2>5. \A m \in Mappings : Up(m)' <=> Up(m)
    BY <1>2, <1>4, <2>2 DEF Up
  <2>6. Book'
    BY <1>1, <1>2, <1>4, <2>2, <2>5, QuietBook
  <2> QED
    BY <2>2, <2>4, <2>6
<1>5. CASE rq.by = "setup"
  <2>1. DrvReq
    BY <1>2, <1>5 DEF DrvReq, ReqPcs
  <2>2. /\ rq.m = 1 /\ rq.j \in Mappings /\ rq.i = 0 /\ rq.nseg = 1 /\ rq.slice = 0 /\ rq.idx = 0
        /\ rq.arr = DrvMem /\ rq.exp = MaxDate /\ rq.cur = MaxDate /\ rq.got = {}
        /\ rq.fl = {"const", "every", "fixed"} /\ rq.by = "setup"
        /\ \A s \in Slices : IsClear(sl[rq.j][s], s) /\ ref[rq.j][s] = 0
        /\ StripeNone
    BY <2>1, DrvNow
  <2>3. 0 \in FreeFields(rq.j)
    BY <2>2, Sizes DEF FreeFields
  <2>4. 0 \in FreeSlices(rq.j, rq.fl, rq.cur)
    <3>1. sl[rq.j][0].exp = 0
      BY <2>2, Sizes, ClearedFacts DEF IsClear
    <3>2. SliceCheck(rq.j, 0, rq.fl, rq.cur)
      BY <3>1, <2>2, Sizes DEF SliceCheck
    <3> QED
      BY <3>2, Sizes DEF FreeSlices
  <2>5. PICK s \in Slices, f \in Slices :
            /\ IsLeast(s, FreeSlices(rq.j, rq.fl, rq.cur)) /\ IsLeast(f, FreeFields(rq.j))
            /\ rq' = [rq EXCEPT !.slice = s, !.idx = f] /\ pc' = "reqfree" /\ lost' = lost
    BY <2>2, <2>3, <2>4 DEF ReqGet
  <2>6. s = 0 /\ f = 0
    <3>1. s <= 0 /\ f <= 0 /\ s \in Nat /\ f \in Nat
      BY <2>3, <2>4, <2>5, Sizes DEF IsLeast
    <3> QED
      BY <3>1
  <2>7. /\ Core' /\ Book'
        /\ rq'.i = rq.i /\ rq'.j = rq.j /\ rq'.m = rq.m /\ rq'.arr = rq.arr /\ rq'.nseg = rq.nseg
        /\ rq'.exp = rq.exp /\ rq'.cur = rq.cur /\ rq'.fl = rq.fl /\ rq'.got = rq.got
        /\ rq'.by = rq.by /\ rq'.slice = 0 /\ rq'.idx = 0
    BY <2>5, <2>6, <1>4
  <2>8. DrvOK' /\ StripeNone' /\ pc' \in ReqPcs
    BY <2>2, <2>5, <2>7, <1>2 DEF DrvOK, StripeNone, ReqPcs
  <2> QED
    BY <2>2, <2>7, <2>8, Phase, Parts
<1>6. CASE rq.by # "setup" /\ Fail
  BY <1>2, <1>6, FailI
<1>7. CASE rq.by # "setup" /\ ~Fail
  <2>1. UserReq
    BY <1>2, <1>7 DEF UserReq, ReqPcs
  <2>2. /\ UserOK /\ rq.i \in Nat /\ rq.nseg \in Nat /\ rq.j \in Mappings /\ rq.idx \in Slices /\ Book
        /\ Up(rq.j) /\ rq.by = "none"
    BY <2>1, UserNow
  <2>3. PICK s \in Slices, f \in Slices :
            /\ IsLeast(s, FreeSlices(rq.j, rq.fl, rq.cur))
            /\ IF rq.i = 0 THEN IsLeast(f, FreeFields(rq.j)) ELSE f = rq.idx
            /\ rq' = [rq EXCEPT !.slice = s, !.idx = f] /\ pc' = "reqfree" /\ lost' = lost
    BY <1>7 DEF ReqGet
  <2>4. /\ Core' /\ Book'
        /\ rq'.i = rq.i /\ rq'.j = rq.j /\ rq'.m = rq.m /\ rq'.arr = rq.arr /\ rq'.nseg = rq.nseg
        /\ rq'.exp = rq.exp /\ rq'.cur = rq.cur /\ rq'.fl = rq.fl /\ rq'.got = rq.got
        /\ rq'.by = rq.by /\ rq'.slice = s /\ rq'.idx = f
    BY <2>3, <1>4
  <2>5. /\ s # 0
        /\ \/ sl[rq.j][s] = Cleared(FALSE)
           \/ IsUser(sl[rq.j][s]) /\ sl[rq.j][s].exp < rq.cur
    BY <2>1, <2>3, UserFinds DEF IsLeast, FreeSlices
  <2>6. rq.i = 0 => f # 0 /\ ref[rq.j][f] = 0
    <3>1. ref[rq.j][0] = 1
      BY <2>2 DEF Book, Base
    <3> QED
      BY <3>1, <2>3 DEF IsLeast, FreeFields
  <2>7. rq.i > 0 => f = rq.idx
    BY <2>2, <2>3
  <2>8. rq.i = 0 /\ rq.j = 1 /\ rq.nseg > 1 => f = rq.idx
    <3>1. rq.i = 0 /\ rq.j = 1 /\ rq.nseg > 1 => IsLeast(rq.idx, FreeFields(1)) /\ IsLeast(f, FreeFields(1))
      BY <2>1, <2>2, <2>3, <1>2 DEF UserOK
    <3>2. f \in Nat /\ rq.idx \in Nat
      BY <2>2, <2>3, Sizes
    <3> QED
      BY <3>1, <3>2 DEF IsLeast
  <2>9. rq.nseg > 1 /\ rq.i = 0 /\ rq.j = 0 => IsLeast(f, FreeFields(1))
    BY <2>1, <2>2, <2>3, <1>2 DEF UserOK
  <2>10. \A m : FreeFields(m)' = FreeFields(m)
    BY <1>2 DEF FreeFields
  <2>11. \A m \in Mappings, t \in Slices : Arr(m, t) = rq.arr => OwnSlice(m, t)'
    <3>1. ASSUME NEW m \in Mappings, NEW t \in Slices, Arr(m, t) = rq.arr
          PROVE  m = 1 \/ rq.nseg > 1 => sl[m][t].idx = f
      <4>1. OwnSlice(m, t)
        BY <2>1, <2>2, <3>1 DEF UserOK
      <4>2. m = 1 \/ rq.nseg > 1 => sl[m][t].idx = rq.idx
        BY <4>1 DEF OwnSlice
      <4>3. PICK p \in Segs : p < rq.i \/ (p = rq.i /\ m = 0 /\ rq.j = 1)
        BY <4>1 DEF OwnSlice
      <4>4. p \in Nat
        BY Sizes
      <4>5. rq.i = 0 => m = 0 /\ rq.j = 1
        BY <4>3, <4>4
      <4>6. rq.i > 0 \/ rq.i = 0
        BY <2>2
      <4> QED
        BY <4>2, <4>5, <4>6, <2>7, <2>8
    <3>2. ASSUME NEW m \in Mappings, NEW t \in Slices, Arr(m, t) = rq.arr
          PROVE  OwnSlice(m, t)'
      <4>1. OwnSlice(m, t)
        BY <2>1, <2>2, <3>2 DEF UserOK
      <4> QED
        BY <3>1, <3>2, <4>1, <2>4, <1>2 DEF OwnSlice
    <3> QED
      BY <3>2
  <2>12. pc' \in ReqPcs /\ pc' # "reqget" /\ pc' # "reqsetup"
    BY <2>3 DEF ReqPcs
  <2>13. /\ rq.arr \in live /\ rq.nseg \in 1 .. MaxSeg /\ rq.i < rq.nseg
         /\ rq.j \in Mappings /\ rq.fl = {"every"} /\ rq.got = {}
         /\ 0 < rq.cur /\ rq.cur <= rq.exp /\ rq.exp < MaxDate - 1
         /\ Pinned
         /\ \A p \in Segs : p < rq.i => \E t \in Slices : Arr(1, t) = rq.arr /\ sl[1][t].pg = {p}
         /\ rq.i > 0 => \A m \in Mappings : ptr[m][rq.idx] = rq.arr
         /\ rq.j = 1 /\ rq.nseg > 1 => ptr[0][rq.idx] = rq.arr
         /\ rq.i > 0 => rq.idx # 0
    BY <2>1, <2>2 DEF UserOK
  <2>14. rq.i > 0 \/ rq.i = 0
    BY <2>2
  <2>15. /\ rq.i > 0 => \A m \in Mappings : ptr[m][f] = rq.arr
         /\ rq.j = 1 /\ rq.nseg > 1 => ptr[0][f] = rq.arr
         /\ f # 0
    BY <2>6, <2>7, <2>8, <2>13, <2>14
  <2>16. Pinned'
    BY <2>4, <2>13, <1>2 DEF Pinned
  <2>17. /\ (\A m \in Mappings, t \in Slices : Arr(m, t) = rq.arr => OwnSlice(m, t))'
         /\ (\A p \in Segs : p < rq.i => \E t \in Slices : Arr(1, t) = rq.arr /\ sl[1][t].pg = {p})'
    BY <2>4, <2>11, <2>13, <1>2, <1>3
  <2>18. rq.nseg > 1 /\ rq.i = 0 /\ (rq.j = 0 <=> pc' # "reqget") => IsLeast(f, FreeFields(1))'
    BY <2>9, <2>10, <2>12 DEF IsLeast
  <2>19. UserOK'
    BY <2>2, <2>4, <2>5, <2>6, <2>12, <2>13, <2>15, <2>16, <2>17, <2>18, <1>2 DEF UserOK
  <2> QED
    BY <2>2, <2>4, <2>12, <2>19, Phase, Parts
<1> QED
  BY <1>5, <1>6, <1>7

\* What a request needs is not touched when the slice it has found is freed.
\* What pulp_rab_slice_free is at, when it returns.
LEMMA AtFree ==
    ASSUME RabI, HwI, op.at = "free", NEW m, NEW s, NEW fl, FreeFor(m, s, fl)
    PROVE  /\ op.m = m /\ op.s = s
           /\ op.put => UnlocksNow(fl) /\ Pages(m, s) # NoPages
           /\ ~op.put => PagesPut(m, s, fl)
<1>1. PICK g \in SUBSET DrvFlags :
         /\ FreeFor(op.m, op.s, g)
         /\ op.put => UnlocksNow(g) /\ Pages(op.m, op.s) # NoPages
         /\ ~op.put => PagesPut(op.m, op.s, g)
  BY DEF HwI, FreeOpOK
<1>2. ASSUME NEW x, NEW y, NEW n, IsLeast(x, stripe[n]), IsLeast(y, stripe[n]), n = rq.m, pc = "freestr"
      PROVE  x = y
  <2>1. stripe[n] \subseteq Slices
    BY <1>2 DEF RabI, Types, FreeStrOK
  <2>2. x \in Nat /\ y \in Nat /\ x <= y /\ y <= x
    BY <2>1, <1>2, Sizes DEF IsLeast
  <2> QED
    BY <2>2
<1>3. op.m = m /\ op.s = s
  BY <1>1, <1>2 DEF FreeFor
<1>4. g = fl
  BY <1>1, <1>3 DEF FreeFor
<1> QED
  BY <1>1, <1>3, <1>4

LEMMA UserVictim ==
    ASSUME RabI, UserReq, pc = "reqfree", pc' = "reqsetup", rq' = rq, live' = live,
           \A b \in Arrays, p \in Segs : pin'[b][p] = pin[b][p],
           Becomes(rq.j, rq.slice, Cleared(FALSE)), Arr(rq.j, rq.slice) # rq.arr,
           \A n \in Mappings, g \in Slices :
               n # rq.j \/ g = rq.idx => ref'[n][g] = ref[n][g] /\ ptr'[n][g] = ptr[n][g]
    PROVE  UserOK' /\ UserReq'
<1>1. /\ UserOK /\ rq.i \in Nat /\ rq.nseg \in Nat /\ rq.j \in Mappings /\ rq.idx \in Slices /\ Book
      /\ rq.by = "none" /\ rq.slice \in Slices /\ rq.arr \in Arrays
  BY UserNow
<1>2. /\ rq.arr \in live /\ rq.nseg \in 1 .. MaxSeg /\ rq.i < rq.nseg
      /\ rq.j \in Mappings /\ rq.fl = {"every"} /\ rq.got = {}
      /\ 0 < rq.cur /\ rq.cur <= rq.exp /\ rq.exp < MaxDate - 1
      /\ Pinned
      /\ \A m \in Mappings, s \in Slices : Arr(m, s) = rq.arr => OwnSlice(m, s)
      /\ \A p \in Segs : p < rq.i => \E s \in Slices : Arr(1, s) = rq.arr /\ sl[1][s].pg = {p}
      /\ rq.i > 0 => \A m \in Mappings : ptr[m][rq.idx] = rq.arr
      /\ rq.j = 1 /\ rq.nseg > 1 => ptr[0][rq.idx] = rq.arr
      /\ rq.idx # 0
      /\ rq.i = 0 => ref[rq.j][rq.idx] = 0
      /\ rq.nseg > 1 /\ rq.i = 0 /\ rq.j = 0 => IsLeast(rq.idx, FreeFields(1))
      /\ rq.slice # 0
  BY <1>1 DEF UserOK
<1>3. Pinned'
  BY <1>1, <1>2 DEF Pinned
<1>4. \A m \in Mappings, s \in Slices :
          /\ m # rq.j \/ s # rq.slice => sl'[m][s] = sl[m][s]
          /\ m = rq.j /\ s = rq.slice => sl'[m][s] = Cleared(FALSE) /\ sl'[m][s].cfg.arr # rq.arr
  <2>1. Cleared(FALSE).cfg.arr # rq.arr
    BY <1>1, ClearedFacts, NoCfgFacts
  <2> QED
    BY <2>1 DEF Becomes
<1>5. ASSUME NEW m \in Mappings, NEW s \in Slices, Arr(m, s) = rq.arr PROVE sl'[m][s] = sl[m][s]
  <2>1. m # rq.j \/ s # rq.slice
    BY <1>5
  <2> QED
    BY <2>1, <1>4
<1>6. \A m \in Mappings, s \in Slices : Arr(m, s)' = rq.arr => sl'[m][s] = sl[m][s] /\ Arr(m, s) = rq.arr
  BY <1>4 DEF Arr
<1>7. \A m \in Mappings, s \in Slices : Arr(m, s)' = rq.arr => OwnSlice(m, s)'
  <2>1. ASSUME NEW m \in Mappings, NEW s \in Slices, Arr(m, s)' = rq.arr
        PROVE  OwnSlice(m, s)'
    <3>1. sl'[m][s] = sl[m][s] /\ OwnSlice(m, s)
      BY <1>2, <1>6, <2>1
    <3> QED
      BY <3>1 DEF OwnSlice
  <2> QED
    BY <2>1
<1>8. \A p \in Segs : p < rq.i => \E s \in Slices : Arr(1, s)' = rq.arr /\ sl'[1][s].pg = {p}
  <2>1. 1 \in Mappings
    BY DEF Mappings
  <2>2. \A s \in Slices : Arr(1, s) = rq.arr => Arr(1, s)' = rq.arr /\ sl'[1][s].pg = sl[1][s].pg
    BY <1>5, <2>1 DEF Arr
  <2> QED
    BY <1>2, <2>2
<1>9. /\ rq.i > 0 => \A m \in Mappings : ptr'[m][rq.idx] = rq.arr
      /\ rq.j = 1 /\ rq.nseg > 1 => ptr'[0][rq.idx] = rq.arr
      /\ rq.i = 0 => ref'[rq.j][rq.idx] = 0
  BY <1>1, <1>2 DEF Mappings
<1>10. rq.nseg > 1 /\ rq.i = 0 /\ rq.j = 0 => IsLeast(rq.idx, FreeFields(1))'
  <2>1. rq.j = 0 => FreeFields(1)' = FreeFields(1)
    BY DEF FreeFields, Mappings
  <2> QED
    BY <1>2, <2>1 DEF IsLeast
<1>11. UserReq' /\ pc' # "reqget" /\ pc' # "reqfree"
  BY <1>1 DEF UserReq, ReqPcs
<1>12. sl'[rq.j][rq.slice] = Cleared(FALSE)
  BY <1>1, <1>4
<1>13. UserOK'
  BY <1>1, <1>2, <1>3, <1>7, <1>8, <1>9, <1>10, <1>11, <1>12 DEF UserOK
<1> QED
  BY <1>11, <1>13

LEMMA ReqFreeI == ASSUME Plain, RabI, HwI, ReqFree PROVE RabI'
<1>1. Core /\ Book /\ Steps
  BY Parts
<1>2. /\ pc = "reqfree" /\ pc' = "reqsetup" /\ SliceFree(rq.j, rq.slice, rq.fl)
      /\ lost' = lost \cup ({Arr(rq.j, rq.slice)} \cap Arrays)
      /\ UNCHANGED <<pin, stripe, rq, nreq, nswitch, released>>
  BY DEF ReqFree, Loses, Arr
<1>op. op.m = rq.j /\ op.s = rq.slice /\ PagesPut(rq.j, rq.slice, rq.fl)
  <2>1. FreeFor(rq.j, rq.slice, rq.fl)
    BY <1>2 DEF FreeFor
  <2>2. op.at = "free" /\ ~op.put
    BY <1>2 DEF SliceFree
  <2> QED
    BY <2>1, <2>2, AtFree
<1>3. Rest'
  BY <1>1, <1>2 DEF Rest, Core, Types, Pcs
<1>4. \A m \in Mappings : Up(m)' <=> Up(m)
  BY <1>2 DEF Up
<1>5. CASE rq.by = "setup"
  <2>1. DrvReq
    BY <1>2, <1>5 DEF DrvReq, ReqPcs
  <2>2. /\ rq.j \in Mappings /\ rq.slice = 0 /\ StripeNone
        /\ \A s \in Slices : IsClear(sl[rq.j][s], s) /\ ref[rq.j][s] = 0 /\ ptr[rq.j][s] = NoPages
    BY <2>1, DrvNow
  <2>3. sl' = sl /\ ref' = ref /\ ptr' = ptr /\ live' = live /\ CoreNext
    BY <2>2, <1>1, <1>2, <1>op, Sizes, FreeClear
  <2>4. lost' = lost
    <3>1. Arr(rq.j, rq.slice) \notin Arrays
      BY <2>2, Sizes, ClearedFacts, NoCfgFacts DEF IsClear, Arr
    <3> QED
      BY <3>1, <1>2
  <2>5. Book'
    BY <2>3, <2>4, <1>1, <1>2, <1>4, QuietBook
  <2>6. DrvOK' /\ StripeNone' /\ pc' \in ReqPcs
    BY <2>1, <2>2, <1>1, <1>2, <1>5 DEF DrvOK, DrvReq, StripeNone, ReqPcs, Steps
  <2> QED
    BY <2>3, <2>5, <2>6, <1>2, <1>3, <1>5, CoreFrom, Phase, Parts
<1>6. CASE rq.by # "setup"
  <2>1. UserReq
    BY <1>2, <1>6 DEF UserReq, ReqPcs
  <2>2. /\ UserOK /\ Core /\ Book /\ \A m \in Mappings : Up(m)
        /\ rq.j \in Mappings /\ rq.fl = {"every"} /\ rq.cur <= rq.exp
        /\ rq.cur \in Nat /\ rq.exp \in Nat /\ rq.idx \in Slices
        /\ rq.slice \in Slices /\ rq.arr \in Arrays /\ rq.by = "none"
        /\ rq.arr = nreq /\ rq.arr \notin lost /\ ~released /\ rq.i \in Nat
    BY <2>1, UserNow
  <2>3. /\ rq.slice # 0
        /\ \/ sl[rq.j][rq.slice] = Cleared(FALSE)
           \/ IsUser(sl[rq.j][rq.slice]) /\ sl[rq.j][rq.slice].exp < rq.cur
    BY <2>1, <2>2, <1>2 DEF UserOK
  <2>4. ASSUME CoreNext, Book', UserOK', UserReq' PROVE RabI'
    <3>1. pc' \in ReqPcs /\ rq'.by # "setup"
      BY <1>2, <2>2 DEF ReqPcs
    <3> QED
      BY <2>4, <3>1, <1>3, CoreFrom, Phase, Parts
  <2>5. CASE sl[rq.j][rq.slice] = Cleared(FALSE)
    <3>1. IsClear(sl[rq.j][rq.slice], rq.slice) /\ Arr(rq.j, rq.slice) \notin Arrays
      BY <2>5, ClearedFacts, NoCfgFacts DEF IsClear, Arr
    <3>2. ptr[rq.j][0] = NoPages /\ "const" \notin rq.fl
      BY <2>2 DEF Book, Base
    <3>3. sl' = sl /\ ref' = ref /\ ptr' = ptr /\ live' = live /\ CoreNext
      BY <3>1, <3>2, <2>2, <1>2, <1>op, FreeClear
    <3>4. lost' = lost
      BY <3>1, <1>2
    <3>5. Book'
      BY <3>3, <3>4, <1>1, <1>2, <1>4, QuietBook
    <3>6. Becomes(rq.j, rq.slice, Cleared(FALSE))
      BY <3>3, <2>5 DEF Becomes
    <3>7. UserOK' /\ UserReq'
      BY <3>1, <3>3, <3>6, <2>1, <2>2, <1>2, UserVictim
    <3> QED
      BY <3>3, <3>5, <3>7, <2>4
  <2>6. CASE IsUser(sl[rq.j][rq.slice]) /\ sl[rq.j][rq.slice].exp < rq.cur
    <3>ms. PICK m \in Mappings, s \in Slices : m = rq.j /\ s = rq.slice
      BY <2>2
    <3>1. PICK a, f : m = rq.j /\ s = rq.slice /\ a = Arr(m, s) /\ f = sl[m][s].idx
      BY <3>ms
    <3>2. a \in Arrays /\ IsMapped(m, s)
      BY <2>6, <3>1 DEF IsUser, IsMapped, Arr
    <3>3. ~UnlocksNow(rq.fl) /\ ~KfreesNow(rq.fl)
      BY <2>2 DEF UnlocksNow, KfreesNow
    <3>4. /\ Becomes(m, s, Cleared(FALSE)) /\ CoreNext
          /\ f \in Slices /\ f # 0 /\ ref[m][f] # 0
          /\ \A b \in Arrays, p \in Segs :
                pin'[b][p] = IF b = a /\ UnlocksNow(rq.fl) /\ p \in sl[m][s].pg THEN 0 ELSE pin[b][p]
          /\ live' = IF ref[m][f] = 1 /\ KfreesNow(rq.fl) THEN live \ {a} ELSE live
          /\ \A n \in Mappings, g \in Slices :
                n # m \/ g # f => ref'[n][g] = ref[n][g] /\ ptr'[n][g] = ptr[n][g]
      <4>1. /\ SliceFree(m, s, rq.fl) /\ op.m = m /\ op.s = s /\ PagesPut(m, s, rq.fl)
            /\ pin' = pin /\ nreq' = nreq
        BY <3>1, <1>2, <1>op
      <4>2. a = Arr(m, s) /\ f = sl[m][s].idx
        BY <3>1
      <4>3. FreeSafe(m, s, rq.fl, a, f)
        BY <3>3 DEF FreeSafe
      <4>4. CoreNext /\ FreeDone(m, s, rq.fl, a, f)
        BY <4>1, <4>2, <4>3, <3>2, <1>1, FreeMapped
      <4> QED
        BY <4>4 DEF FreeDone
    <3>5. live' = live /\ \A b \in Arrays, p \in Segs : pin'[b][p] = pin[b][p]
      BY <3>3, <3>4
    <3>6. a # rq.arr
      <4>1. a = rq.arr => OwnSlice(m, s)
        BY <2>1, <2>2, <3>1 DEF UserOK
      <4>2. a = rq.arr => sl[m][s].exp = rq.exp
        BY <4>1 DEF OwnSlice
      <4> QED
        BY <4>2, <2>2, <2>6, <3>1
    <3>7. f # rq.idx
      <4>1. ptr[m][f] = a
        BY <3>1, <3>2, <1>1 DEF Core, Owns
      <4>2. rq.i = 0 => ref[m][rq.idx] = 0
        BY <2>1, <2>2, <3>1, <1>2 DEF UserOK
      <4>3. rq.i > 0 => ptr[m][rq.idx] = rq.arr
        BY <2>1, <2>2, <3>1, <1>2 DEF UserOK
      <4>4. rq.i > 0 \/ rq.i = 0
        BY <2>2
      <4> QED
        BY <4>1, <4>2, <4>3, <4>4, <3>4, <3>6
    <3>8. UserOK' /\ UserReq'
      BY <3>1, <3>4, <3>5, <3>6, <3>7, <2>1, <2>2, <1>2, UserVictim
    <3>9. lost' = lost \cup {a}
      BY <1>2, <3>1, <3>2
    <3>10. \A n \in Mappings, t \in Slices :
              /\ n # m \/ t # s => sl'[n][t] = sl[n][t]
              /\ n = m /\ t = s => sl'[n][t] = Cleared(FALSE) /\ sl'[n][t].cfg.arr \notin Arrays
      BY <3>4, ClearedFacts, NoCfgFacts DEF Becomes
    <3>11. Base'
      <4>1. \A n \in Mappings : sl'[n][0] = sl[n][0] /\ ref'[n][0] = ref[n][0] /\ ptr'[n][0] = ptr[n][0]
        <5>1. s # 0 /\ f # 0 /\ 0 \in Slices
          BY <3>1, <3>4, <2>3, Sizes
        <5> QED
          BY <5>1, <3>4, <3>10
      <4> QED
        BY <4>1, <2>2, <1>4 DEF Book, Base
    <3>12. Kept'
      <4>1. ASSUME NEW b \in Arrays, b \notin lost', b # rq.arr
            PROVE  /\ b \in live => \E n \in Mappings, t \in Slices : Holds(n, t, b)'
                   /\ \A p \in Segs : pin'[b][p] # 0 =>
                         \E n \in Mappings, t \in Slices : Holds(n, t, b)' /\ p \in sl'[n][t].pg
        <5>1. b # a /\ b \notin lost
          BY <4>1, <3>9
        <5>2. \A n \in Mappings, t \in Slices : Holds(n, t, b) => Holds(n, t, b)' /\ sl'[n][t] = sl[n][t]
          BY <5>1, <3>1, <3>10 DEF Holds, Arr
        <5>3. /\ b \in live => \E n \in Mappings, t \in Slices : Holds(n, t, b)
              /\ \A p \in Segs : pin[b][p] # 0 =>
                     \E n \in Mappings, t \in Slices : Holds(n, t, b) /\ p \in sl[n][t].pg
          BY <5>1, <4>1, <2>2 DEF Book, Kept
        <5>4. b \in live => \E n \in Mappings, t \in Slices : Holds(n, t, b)'
          BY <5>2, <5>3
        <5>5. ASSUME NEW p \in Segs, pin'[b][p] # 0
              PROVE  \E n \in Mappings, t \in Slices : Holds(n, t, b)' /\ p \in sl'[n][t].pg
          <6>1. PICK n \in Mappings, t \in Slices : Holds(n, t, b) /\ p \in sl[n][t].pg
            BY <5>3, <5>5, <3>5
          <6> QED
            BY <6>1, <5>2
        <5> QED
          BY <5>4, <5>5
      <4> QED
        BY <4>1, <3>5, <1>2 DEF Kept
    <3>13. StripeOK'
      <4>1. s \notin stripe[m] /\ ~IsStriped(Cleared(FALSE))
        <5>1. ~IsStriped(sl[m][s])
          <6>1. MaxDate \notin 1 .. MaxDate - 2
            BY Sizes
          <6> QED
            BY <6>1, <2>6, <3>1 DEF IsUser, IsStriped
        <5>2. ~IsStriped(Cleared(FALSE))
          BY ClearedFacts, NoCfgFacts DEF IsStriped
        <5> QED
          BY <5>1, <5>2, <1>1 DEF Book, StripeOK
      <4>2. ASSUME NEW n \in Mappings, NEW t \in Slices, t \in stripe[n]
            PROVE  /\ IsStriped(sl'[n][t]) /\ Arr(n, t)' \notin lost' /\ Arr(n, t)' # rq.arr
                   /\ \A u \in Slices : u \in stripe[n] <=> Arr(n, u)' = Arr(n, t)'
        <5>1. /\ IsStriped(sl[n][t]) /\ Arr(n, t) \notin lost /\ Arr(n, t) # rq.arr
              /\ \A u \in Slices : u \in stripe[n] <=> Arr(n, u) = Arr(n, t)
          BY <4>2, <1>1 DEF Book, StripeOK
        <5>2. sl'[n][t] = sl[n][t] /\ Arr(n, t) \in Arrays
          BY <4>1, <4>2, <5>1, <3>10 DEF IsStriped, Arr
        <5>3. Arr(n, t) # a
          <6>1. Arr(n, t) = a => sl[n][t].exp = sl[m][s].exp
            BY <3>1, <3>2, <1>1 DEF Core, Sames, Alike
          <6>2. sl[n][t].exp = MaxDate /\ sl[m][s].exp # MaxDate
            <7>1. MaxDate \notin 1 .. MaxDate - 2
              BY Sizes
            <7> QED
              BY <7>1, <5>1, <2>6, <3>1 DEF IsUser, IsStriped
          <6> QED
            BY <6>1, <6>2
        <5>4. ASSUME NEW u \in Slices PROVE u \in stripe[n] <=> Arr(n, u)' = Arr(n, t)'
          <6>1. Arr(n, t)' = Arr(n, t)
            BY <5>2 DEF Arr
          <6>2. CASE n = m /\ u = s
            <7>1. u \notin stripe[n] /\ Arr(n, u)' \notin Arrays
              BY <6>2, <4>1, <3>10 DEF Arr
            <7> QED
              BY <7>1, <6>1, <5>2
          <6>3. CASE n # m \/ u # s
            <7>1. Arr(n, u)' = Arr(n, u)
              BY <6>3, <3>10 DEF Arr
            <7> QED
              BY <7>1, <6>1, <5>1
          <6> QED
            BY <6>2, <6>3
        <5> QED
          BY <5>1, <5>2, <5>3, <5>4, <3>9 DEF Arr
      <4>3. ASSUME NEW n \in Mappings, NEW t \in Slices, IsStriped(sl'[n][t]), t \notin stripe[n]
            PROVE  Arr(n, t)' \in lost' \/ Arr(n, t)' = rq.arr
        <5>1. sl'[n][t] = sl[n][t]
          BY <4>1, <4>3, <3>10
        <5> QED
          BY <5>1, <4>3, <1>1, <3>9 DEF Book, StripeOK, Arr
      <4> QED
        BY <4>2, <4>3, <1>2 DEF StripeOK
    <3>14. RelOK' /\ LostOK'
      <4>1. a <= nreq
        BY <3>1, <3>2, <1>1 DEF Core, Owns
      <4> QED
        BY <4>1, <2>2, <3>6, <3>9, <1>1, <1>2 DEF Book, LostOK, RelOK
    <3>15. Book'
      BY <3>11, <3>12, <3>13, <3>14 DEF Book
    <3> QED
      BY <3>4, <3>8, <3>15, <2>4
  <2> QED
    BY <2>3, <2>5, <2>6
<1> QED
  BY <1>5, <1>6

\* A cleared slice becomes one of the array of the request.
LEMMA SetupBook ==
    ASSUME Core, Book, NEW m \in Mappings, NEW s \in Slices, NEW r, Becomes(m, s, r),
           s # 0, IsClear(sl[m][s], s), r.cfg.arr = rq.arr, rq.arr \in Arrays, r.idx # 0,
           \A n \in Mappings, g \in Slices :
               n # m \/ g # r.idx => ref'[n][g] = ref[n][g] /\ ptr'[n][g] = ptr[n][g],
           pin' = pin, live' = live, \A n \in Mappings : Up(n) /\ Up(n)'
    PROVE  /\ Base'
           /\ \A a \in Arrays \ lost : a # rq.arr =>
                 /\ a \in live' => \E n \in Mappings, t \in Slices : Holds(n, t, a)'
                 /\ \A p \in Segs : pin'[a][p] # 0 =>
                        \E n \in Mappings, t \in Slices : Holds(n, t, a)' /\ p \in sl'[n][t].pg
           /\ s \notin stripe[m]
           /\ \A n \in Mappings, t \in Slices : t \in stripe[n] =>
                 /\ IsStriped(sl'[n][t]) /\ Arr(n, t)' \notin lost /\ Arr(n, t)' # rq.arr
                 /\ sl'[n][t] = sl[n][t]
                 /\ \A u \in Slices : u \in stripe[n] <=> Arr(n, u)' = Arr(n, t)'
           /\ \A n \in Mappings, t \in Slices :
                 IsStriped(sl'[n][t]) /\ t \notin stripe[n] => Arr(n, t)' \in lost \/ Arr(n, t)' = rq.arr
           /\ \A n \in Mappings, t \in Slices :
                 n # m \/ t # s => sl'[n][t] = sl[n][t] /\ Arr(n, t)' = Arr(n, t)
           /\ sl'[m][s] = r /\ Arr(m, s)' = rq.arr /\ Arr(m, s) \notin Arrays
<1>1. \A n \in Mappings, t \in Slices : n # m \/ t # s => sl'[n][t] = sl[n][t] /\ Arr(n, t)' = Arr(n, t)
  BY DEF Becomes, Arr
<1>2. sl'[m][s] = r /\ Arr(m, s)' = rq.arr
  BY DEF Becomes, Arr
<1>3. Arr(m, s) \notin Arrays /\ ~IsStriped(sl[m][s])
  BY ClearedFacts, NoCfgFacts DEF IsClear, Arr, IsStriped
<1>4. s \notin stripe[m]
  BY <1>3 DEF Book, StripeOK
<1>5. Base'
  <2>1. \A n \in Mappings : sl'[n][0] = sl[n][0] /\ ref'[n][0] = ref[n][0] /\ ptr'[n][0] = ptr[n][0]
    BY <1>1, Sizes
  <2> QED
    BY <2>1 DEF Book, Base
<1>6. ASSUME NEW a \in Arrays \ lost, a # rq.arr
      PROVE  /\ a \in live' => \E n \in Mappings, t \in Slices : Holds(n, t, a)'
             /\ \A p \in Segs : pin'[a][p] # 0 =>
                    \E n \in Mappings, t \in Slices : Holds(n, t, a)' /\ p \in sl'[n][t].pg
  <2>1. /\ a \in live => \E n \in Mappings, t \in Slices : Holds(n, t, a)
        /\ \A p \in Segs : pin[a][p] # 0 =>
               \E n \in Mappings, t \in Slices : Holds(n, t, a) /\ p \in sl[n][t].pg
    BY <1>6 DEF Book, Kept
  <2>2. ASSUME NEW n \in Mappings, NEW t \in Slices, Holds(n, t, a)
        PROVE  Holds(n, t, a)' /\ sl'[n][t] = sl[n][t]
    <3>1. n # m \/ t # s
      BY <2>2, <1>3 DEF Holds
    <3> QED
      BY <3>1, <2>2, <1>1 DEF Holds
  <2>3. a \in live' => \E n \in Mappings, t \in Slices : Holds(n, t, a)'
    BY <2>1, <2>2
  <2>4. ASSUME NEW p \in Segs, pin'[a][p] # 0
        PROVE  \E n \in Mappings, t \in Slices : Holds(n, t, a)' /\ p \in sl'[n][t].pg
    <3>1. PICK n \in Mappings, t \in Slices : Holds(n, t, a) /\ p \in sl[n][t].pg
      BY <2>1, <2>4
    <3> QED
      BY <3>1, <2>2
  <2> QED
    BY <2>3, <2>4
<1>7. ASSUME NEW n \in Mappings, NEW t \in Slices, t \in stripe[n]
      PROVE  /\ IsStriped(sl'[n][t]) /\ Arr(n, t)' \notin lost /\ Arr(n, t)' # rq.arr
             /\ sl'[n][t] = sl[n][t]
             /\ \A u \in Slices : u \in stripe[n] <=> Arr(n, u)' = Arr(n, t)'
  <2>1. /\ IsStriped(sl[n][t]) /\ Arr(n, t) \notin lost /\ Arr(n, t) # rq.arr
        /\ \A u \in Slices : u \in stripe[n] <=> Arr(n, u) = Arr(n, t)
    BY <1>7 DEF Book, StripeOK
  <2>2. sl'[n][t] = sl[n][t] /\ Arr(n, t)' = Arr(n, t)
    BY <1>1, <1>4, <1>7
  <2>3. ASSUME NEW u \in Slices PROVE u \in stripe[n] <=> Arr(n, u)' = Arr(n, t)'
    <3>1. CASE n = m /\ u = s
      BY <3>1, <1>2, <1>4, <2>1, <2>2
    <3>2. CASE n # m \/ u # s
      BY <3>2, <1>1, <2>1, <2>2
    <3> QED
      BY <3>1, <3>2
  <2> QED
    BY <2>1, <2>2, <2>3
<1>8. ASSUME NEW n \in Mappings, NEW t \in Slices, IsStriped(sl'[n][t]), t \notin stripe[n]
      PROVE  Arr(n, t)' \in lost \/ Arr(n, t)' = rq.arr
  <2>1. CASE n = m /\ t = s
    BY <2>1, <1>2
  <2>2. CASE n # m \/ t # s
    BY <2>2, <1>1, <1>8 DEF Book, StripeOK
  <2> QED
    BY <2>1, <2>2
<1> QED
  BY <1>1, <1>2, <1>3, <1>4, <1>5, <1>6, <1>7, <1>8

\* pulp_rab_setup
LEMMA DrvSetupI == ASSUME Plain, RabI, ReqSetup, rq.by = "setup" PROVE RabI'
<1>1. Core /\ Book /\ Steps
  BY Parts
<1>2. /\ pc = "reqsetup" /\ UNCHANGED <<stripe, pin, live, nreq, nswitch, released>>
  BY DEF ReqSetup, memVars
<1>3. DrvReq
  BY <1>2 DEF DrvReq, ReqPcs
<1>4. /\ StripeNone
      /\ rq.m = 1 /\ rq.j \in Mappings /\ rq.i = 0 /\ rq.nseg = 1 /\ rq.slice = 0 /\ rq.idx = 0
      /\ rq.arr = DrvMem /\ rq.exp = MaxDate /\ rq.cur = MaxDate /\ rq.got = {}
      /\ rq.fl = {"const", "every", "fixed"} /\ rq \in ReqRec /\ rq.arr \notin Arrays
      /\ \A m \in Mappings : Up(m) <=> rq.j > m
      /\ \A s \in Slices : IsClear(sl[rq.j][s], s) /\ ref[rq.j][s] = 0 /\ ptr[rq.j][s] = NoPages
  BY <1>3, DrvNow
<1>5. ~SetupRefused(rq.j, rq.i, rq.fl)
  <2>1. ref[rq.j][rq.idx] = 0
    BY <1>4, Sizes
  <2> QED
    BY <2>1 DEF SetupRefused
<1>6. SliceSetup(rq.j, 0, ConstSlice, rq.arr, FALSE)
  <2>1. [exp |-> rq.exp, fixed |-> "fixed" \in rq.fl, idx |-> rq.idx,
                   pg |-> {rq.i}, fl |-> rq.fl, cfg |-> Cfg(rq.arr, {rq.i}, TRUE)] = ConstSlice
    BY <1>4 DEF ConstSlice
  <2> QED
    BY <2>1, <1>4, <1>5 DEF ReqSetup, SliceSetup
<1>7. /\ Becomes(rq.j, 0, ConstSlice) /\ CoreNext
      /\ \A n \in Mappings, g \in Slices :
            /\ n # rq.j \/ g # 0 => ref'[n][g] = ref[n][g] /\ ptr'[n][g] = ptr[n][g]
            /\ n = rq.j /\ g = 0 => ref'[n][g] = ref[rq.j][0] + 1 /\ ptr'[n][g] = NoPages
  <2>1. /\ ConstSlice \in SliceRec /\ Form(ConstSlice, 0) /\ ConstSlice.cfg # NoCfg
        /\ ConstSlice.idx = 0 /\ "const" \in ConstSlice.fl
    BY ConstFacts DEF Form, ConstSlice
  <2>2. IsClear(sl[rq.j][0], 0) /\ 0 \in Slices
    BY <1>4, Sizes
  <2>3. SetSafe(rq.j, 0, ConstSlice, rq.arr)
    BY <2>1 DEF SetSafe
  <2>4. CoreNext /\ SetDone(rq.j, 0, ConstSlice, IF "const" \in ConstSlice.fl THEN NoPages ELSE rq.arr)
    BY <2>1, <2>2, <2>3, <1>1, <1>2, <1>4, <1>6, SetupEffect
  <2> QED
    BY <2>1, <2>4 DEF SetDone
<1>8. \A n \in Mappings, t \in Slices :
         /\ n # rq.j \/ t # 0 => sl'[n][t] = sl[n][t]
         /\ n = rq.j /\ t = 0 => sl'[n][t] = ConstSlice
  BY <1>7 DEF Becomes
<1>9. \A n \in Mappings, t \in Slices :
         /\ Arr(n, t) \in Arrays => sl'[n][t] = sl[n][t]
         /\ Arr(n, t)' \in Arrays => sl'[n][t] = sl[n][t]
         /\ IsStriped(sl'[n][t]) => sl'[n][t] = sl[n][t]
  <2>1. Arr(rq.j, 0) \notin Arrays
    BY <1>4, Sizes, ClearedFacts, NoCfgFacts DEF IsClear, Arr
  <2>2. ConstSlice.cfg.arr \notin Arrays /\ ~IsStriped(ConstSlice)
    BY ConstFacts DEF IsStriped
  <2>3. ASSUME NEW n \in Mappings, NEW t \in Slices, sl'[n][t] # sl[n][t]
        PROVE  Arr(n, t) \notin Arrays /\ Arr(n, t)' \notin Arrays /\ ~IsStriped(sl'[n][t])
    <3>1. n = rq.j /\ t = 0 /\ sl'[n][t] = ConstSlice
      BY <2>3, <1>8
    <3> QED
      BY <3>1, <2>1, <2>2 DEF Arr
  <2> QED
    BY <2>3
<1>10. lost' = lost
  BY <1>5 DEF ReqSetup
<1>11. ASSUME rq'.arr \notin Arrays, rq' \in ReqRec, pc' \in Pcs,
              \A n \in Mappings : Up(n)' <=> Up(n) \/ n = rq.j, Steps'
       PROVE  RabI'
  <2>1. Rest'
    BY <1>1, <1>2, <1>10, <1>11 DEF Rest, Core, Types
  <2>2. Base'
    <3>1. ASSUME NEW n \in Mappings, Up(n)'
          PROVE  sl'[n][0] = ConstSlice /\ ref'[n][0] = 1 /\ ptr'[n][0] = NoPages
      <4>1. CASE n = rq.j
        <5>1. ref[rq.j][0] + 1 = 1
          BY <1>4, Sizes
        <5> QED
          BY <4>1, <5>1, <1>7, <1>8, Sizes
      <4>2. CASE n # rq.j
        BY <4>2, <3>1, <1>1, <1>7, <1>8, <1>11, Sizes DEF Book, Base
      <4> QED
        BY <4>1, <4>2
    <3>2. ASSUME NEW n \in Mappings, ~Up(n)'
          PROVE  \A s \in Slices : IsClear(sl'[n][s], s) /\ ref'[n][s] = 0 /\ ptr'[n][s] = NoPages
      <4>1. n # rq.j /\ ~Up(n)
        BY <3>2, <1>11
      <4> QED
        BY <4>1, <1>1, <1>7, <1>8 DEF Book, Base
    <3> QED
      BY <3>1, <3>2 DEF Base
  <2>3. Kept'
    <3>1. ASSUME NEW a \in Arrays \ lost
          PROVE  /\ a \in live' => \E n \in Mappings, t \in Slices : Holds(n, t, a)'
                 /\ \A p \in Segs : pin'[a][p] # 0 =>
                        \E n \in Mappings, t \in Slices : Holds(n, t, a)' /\ p \in sl'[n][t].pg
      <4>1. /\ a \in live => \E n \in Mappings, t \in Slices : Holds(n, t, a)
            /\ \A p \in Segs : pin[a][p] # 0 =>
                   \E n \in Mappings, t \in Slices : Holds(n, t, a) /\ p \in sl[n][t].pg
        BY <3>1, <1>1, <1>4 DEF Book, Kept
      <4>2. \A n \in Mappings, t \in Slices : Holds(n, t, a) => Holds(n, t, a)' /\ sl'[n][t] = sl[n][t]
        BY <1>9 DEF Holds, Arr
      <4>3. a \in live' => \E n \in Mappings, t \in Slices : Holds(n, t, a)'
        BY <4>1, <4>2, <1>2
      <4>4. ASSUME NEW p \in Segs, pin'[a][p] # 0
            PROVE  \E n \in Mappings, t \in Slices : Holds(n, t, a)' /\ p \in sl'[n][t].pg
        <5>1. PICK n \in Mappings, t \in Slices : Holds(n, t, a) /\ p \in sl[n][t].pg
          BY <4>1, <4>4, <1>2
        <5> QED
          BY <5>1, <4>2
      <4> QED
        BY <4>3, <4>4
    <3> QED
      BY <3>1, <1>10 DEF Kept
  <2>4. StripeOK'
    <3>1. \A n \in Mappings : stripe'[n] = {}
      BY <1>2, <1>4 DEF StripeNone
    <3>2. ASSUME NEW n \in Mappings, NEW t \in Slices, IsStriped(sl'[n][t])
          PROVE  Arr(n, t)' \in lost'
      <4>1. sl'[n][t] = sl[n][t] /\ Arr(n, t) \in Arrays
        BY <3>2, <1>9 DEF IsStriped, Arr
      <4>2. Arr(n, t) \in lost \/ Arr(n, t) = rq.arr
        BY <3>1, <3>2, <4>1, <1>1, <1>2 DEF Book, StripeOK
      <4> QED
        BY <4>1, <4>2, <1>4, <1>10 DEF Arr
    <3> QED
      BY <3>1, <3>2 DEF StripeOK
  <2>5. RelOK' /\ LostOK'
    BY <1>1, <1>2, <1>9, <1>10, <1>11 DEF Book, RelOK, LostOK, OnlyLost, IsMapped, Arr
  <2> QED
    BY <2>1, <2>2, <2>3, <2>4, <2>5, <1>7, <1>11, CoreFrom, Parts DEF Book
<1>12. CASE rq.j = 0
  <2>1. rq' = [rq EXCEPT !.j = 1] /\ pc' = "reqget"
    BY <1>4, <1>5, <1>12 DEF ReqSetup
  <2>2. /\ rq' \in ReqRec /\ rq'.m = 1 /\ rq'.j = 1 /\ rq'.i = 0 /\ rq'.nseg = 1 /\ rq'.slice = 0
        /\ rq'.idx = 0 /\ rq'.arr = DrvMem /\ rq'.exp = MaxDate /\ rq'.cur = MaxDate /\ rq'.got = {}
        /\ rq'.fl = {"const", "every", "fixed"} /\ rq'.by = "setup" /\ rq'.arr \notin Arrays
    BY <2>1, <1>4 DEF ReqRec
  <2>3. \A n \in Mappings : Up(n)' <=> Up(n) \/ n = rq.j
    BY <2>1, <2>2, <1>4, <1>12 DEF Up, Mappings
  <2>4. DrvOK' /\ StripeNone' /\ pc' \in ReqPcs /\ pc' \in Pcs
    BY <2>1, <2>2, <1>2, <1>4 DEF DrvOK, StripeNone, ReqPcs, Pcs, Mappings
  <2> QED
    BY <2>2, <2>3, <2>4, <1>11, Phase
<1>13. CASE rq.j = 1
  <2>1. rq' = [Idle EXCEPT !.m = 1] /\ pc' = "setup"
    BY <1>4, <1>5, <1>13 DEF ReqSetup, Return
  <2>2. rq' \in ReqRec /\ rq'.m = 1 /\ rq'.arr = NoArray /\ rq'.got = {} /\ rq'.by = "none"
    BY <2>1, IdleFacts DEF ReqRec
  <2>3. \A n \in Mappings : Up(n)' <=> Up(n) \/ n = rq.j
    BY <2>1, <2>2, <1>4, <1>13 DEF Up, Mappings
  <2>4. SetupOK' /\ StripeNone' /\ pc' \in Pcs
    BY <2>1, <2>2, <1>2, <1>4 DEF SetupOK, StripeNone, Settled, Pcs
  <2> QED
    BY <2>1, <2>2, <2>3, <2>4, <1>11, Phase, NoCfgFacts
<1> QED
  BY <1>4, <1>12, <1>13 DEF Mappings

\* pulp_rab_slice_setup for a request of the user: its slice is new in each mapping.
LEMMA UserSets ==
    ASSUME Plain, RabI, ReqSetup, rq.by # "setup", NEW m, m = rq.j, NEW s, s = rq.slice,
           NEW r, r = [exp |-> rq.exp, fixed |-> FALSE, idx |-> rq.idx, pg |-> {rq.i},
                       fl |-> rq.fl, cfg |-> Cfg(rq.arr, {rq.i}, TRUE)]
    PROVE  /\ CoreNext /\ SetDone(m, s, r, rq.arr) /\ IsUser(r)
           /\ r.exp = rq.exp /\ r.idx = rq.idx /\ r.pg = {rq.i} /\ r.cfg.arr = rq.arr
           /\ s \in Slices /\ s # 0 /\ IsClear(sl[m][s], s) /\ ~SetupRefused(m, rq.i, rq.fl) /\ UserReq
           /\ rq.i \in Segs
           /\ r \in SliceRec /\ SliceSetup(m, s, r, rq.arr, FALSE)
<1>1. Core /\ Book /\ Steps
  BY Parts
<1>2. /\ pc = "reqsetup" /\ UNCHANGED <<stripe, pin, live, nreq, nswitch, released>>
  BY DEF ReqSetup, memVars
<1>3. UserReq
  BY <1>2 DEF UserReq, ReqPcs
<1>4. /\ UserOK
      /\ rq.by = "none" /\ rq.arr \in live /\ rq.nseg \in 1 .. MaxSeg /\ rq.i < rq.nseg
      /\ rq.j \in Mappings /\ rq.fl = {"every"} /\ rq.got = {}
      /\ 0 < rq.cur /\ rq.cur <= rq.exp /\ rq.exp < MaxDate - 1
      /\ rq.i \in Nat /\ rq.nseg \in Nat /\ rq.cur \in Nat /\ rq.exp \in Nat /\ rq.idx \in Slices
      /\ rq.slice \in Slices /\ rq.arr \in Arrays /\ rq.arr = nreq /\ rq \in ReqRec
  BY <1>3, UserNow
<1>5. /\ Pinned
      /\ \A n \in Mappings, t \in Slices : Arr(n, t) = rq.arr => OwnSlice(n, t)
      /\ rq.i > 0 => \A n \in Mappings : ptr[n][rq.idx] = rq.arr
      /\ rq.idx # 0
      /\ rq.i = 0 => ref[rq.j][rq.idx] = 0
      /\ s # 0 /\ sl[m][s] = Cleared(FALSE)
  BY <1>2, <1>3, <1>4 DEF UserOK
<1>6. rq.i \in Segs /\ pin[rq.arr][rq.i] = 1
  <2>1. rq.i \in Segs
    <3>1. MaxSeg \in Nat /\ rq.nseg <= MaxSeg
      BY <1>4, Sizes
    <3> QED
      BY <3>1, <1>4 DEF Segs
  <2> QED
    BY <2>1, <1>4, <1>5 DEF Pinned
<1>7. /\ r.exp = rq.exp /\ r.fixed = FALSE /\ r.idx = rq.idx /\ r.pg = {rq.i} /\ r.fl = {"every"}
      /\ r.cfg.arr = rq.arr /\ r.cfg.en = TRUE /\ r.cfg.pages = {rq.i} /\ r.cfg = Cfg(rq.arr, {rq.i}, TRUE)
  BY <1>4 DEF Cfg
<1>8. r \in SliceRec
  <2>1. r.cfg \in CfgSet
    BY <1>4, <1>6, <1>7 DEF Cfg, CfgSet
  <2>2. rq.exp \in Dates /\ {"every"} \in SUBSET DrvFlags
    BY <1>4 DEF ReqRec, DrvFlags
  <2> QED
    BY <2>1, <2>2, <1>4, <1>6, <1>7 DEF SliceRec
<1>9. IsUser(r)
  <2>1. rq.exp \in 1 .. MaxDate - 2
    BY <1>4, Sizes
  <2> QED
    BY <2>1, <1>4, <1>5, <1>6, <1>7 DEF IsUser
<1>10. ~SetupRefused(m, rq.i, rq.fl)
  <2>1. rq.i = 0 => ref[m][rq.idx] % 2 = 0
    BY <1>5
  <2> QED
    BY <2>1 DEF SetupRefused
<1>11. SliceSetup(m, s, r, rq.arr, FALSE)
  <2>1. ("fixed" \in rq.fl) = FALSE
    BY <1>4
  <2> QED
    BY <2>1, <1>10 DEF ReqSetup, SliceSetup
<1>12. \A t \in Users(m, r.idx) : Arr(m, t) = rq.arr
  <2>1. rq.i = 0 => Users(m, r.idx) = {}
    BY <1>1, <1>4, <1>5, <1>7, RefFacts DEF Core
  <2>2. ASSUME rq.i > 0, NEW t \in Users(m, r.idx) PROVE Arr(m, t) = rq.arr
    <3>1. t \in Slices /\ InUse(m, t) /\ sl[m][t].idx = rq.idx
      BY <2>2, <1>7 DEF Users
    <3>2. Form(sl[m][t], t)
      BY <3>1, <1>1, <1>4 DEF Core, Forms
    <3>3. IsMapped(m, t)
      BY <3>1, <3>2, <1>5, FormFacts DEF InUse, IsMapped, Arr
    <3>4. ptr[m][rq.idx] = Arr(m, t)
      BY <3>1, <3>3, <1>1, <1>4 DEF Core, Owns
    <3> QED
      BY <3>4, <2>2, <1>4, <1>5
  <2>3. rq.i = 0 \/ rq.i > 0
    BY <1>4
  <2> QED
    BY <2>1, <2>2, <2>3
<1>13. ASSUME NEW n \in Mappings, NEW t \in Slices, Arr(n, t) = rq.arr
       PROVE  Alike(m, r, s, n, sl[n][t], t)
  <2>1. OwnSlice(n, t)
    BY <1>5, <1>13
  <2>2. sl[n][t].exp = rq.exp /\ (n = 1 \/ rq.nseg > 1 => sl[n][t].idx = rq.idx)
    BY <2>1 DEF OwnSlice
  <2>3. PICK p \in Segs : /\ sl[n][t].pg = {p}
                          /\ p < rq.i \/ (p = rq.i /\ n = 0 /\ rq.j = 1)
    BY <2>1 DEF OwnSlice
  <2>4. p \in Nat
    BY Sizes
  <2>5. m = n => p < rq.i
    BY <2>3
  <2>6. m = n => sl[n][t].idx = rq.idx /\ sl[n][t].pg # {rq.i}
    <3>1. m = n => rq.nseg > 1 /\ p # rq.i
      BY <2>4, <2>5, <1>4
    <3> QED
      BY <3>1, <2>2, <2>3
  <2>7. rq.exp # MaxDate
    BY <1>4, Sizes
  <2> QED
    BY <2>2, <2>6, <2>7, <1>7 DEF Alike
<1>14. SetSafe(m, s, r, rq.arr)
  <2>1. rq.arr <= nreq
    <3>1. rq.arr = nreq /\ nreq \in Nat
      BY <1>4, Sizes
    <3> QED
      BY <3>1
  <2>2. \A p \in r.pg : pin[rq.arr][p] = 1
    BY <1>6, <1>7
  <2>3. "const" \notin r.fl
    BY <1>7
  <2> QED
    BY <2>1, <2>2, <2>3, <1>4, <1>7, <1>12, <1>13 DEF SetSafe
<1>15. IsClear(sl[m][s], s) /\ Form(r, s) /\ r.cfg # NoCfg
  BY <1>4, <1>5, <1>7, <1>9, NoCfgFacts DEF IsClear, Form
<1>16. CoreNext /\ SetDone(m, s, r, IF "const" \in r.fl THEN NoPages ELSE rq.arr)
  BY <1>1, <1>2, <1>4, <1>8, <1>11, <1>14, <1>15, SetupEffect
<1>17. (IF "const" \in r.fl THEN NoPages ELSE rq.arr) = rq.arr
  BY <1>7
<1> QED
  BY <1>3, <1>4, <1>5, <1>6, <1>7, <1>8, <1>9, <1>10, <1>11, <1>15, <1>16, <1>17

LEMMA UserSetupI == ASSUME Plain, RabI, ReqSetup, rq.by # "setup" PROVE RabI'
<1>1. Core /\ Book /\ Steps
  BY Parts
<1>2. /\ pc = "reqsetup" /\ UNCHANGED <<stripe, pin, live, nreq, nswitch, released>>
  BY DEF ReqSetup, memVars
<1>3. UserReq
  BY <1>2 DEF UserReq, ReqPcs
<1>4. /\ UserOK
      /\ rq.by = "none" /\ rq.arr \in live /\ rq.nseg \in 1 .. MaxSeg /\ rq.i < rq.nseg
      /\ rq.j \in Mappings /\ rq.fl = {"every"} /\ rq.got = {}
      /\ 0 < rq.cur /\ rq.cur <= rq.exp /\ rq.exp < MaxDate - 1
      /\ rq.i \in Nat /\ rq.nseg \in Nat /\ rq.cur \in Nat /\ rq.exp \in Nat /\ rq.idx \in Slices
      /\ rq.slice \in Slices /\ rq.arr \in Arrays /\ rq.arr = nreq /\ rq.arr \notin lost /\ ~released
      /\ rq \in ReqRec /\ \A n \in Mappings : Up(n)
  BY <1>3, UserNow
<1>ms. PICK m \in Mappings, s \in Slices : m = rq.j /\ s = rq.slice
  BY <1>4
<1>5. PICK r :
         /\ m = rq.j /\ s = rq.slice
         /\ r = [exp |-> rq.exp, fixed |-> FALSE, idx |-> rq.idx, pg |-> {rq.i},
                       fl |-> rq.fl, cfg |-> Cfg(rq.arr, {rq.i}, TRUE)]
  BY <1>ms
<1>6. /\ CoreNext /\ SetDone(m, s, r, rq.arr) /\ IsUser(r)
      /\ r.exp = rq.exp /\ r.idx = rq.idx /\ r.pg = {rq.i} /\ r.cfg.arr = rq.arr
      /\ s \in Slices /\ s # 0 /\ IsClear(sl[m][s], s) /\ ~SetupRefused(rq.j, rq.i, rq.fl) /\ rq.i \in Segs
  BY <1>5, UserSets
<1>7. /\ Becomes(m, s, r)
      /\ \A n \in Mappings, g \in Slices :
            /\ n # m \/ g # rq.idx => ref'[n][g] = ref[n][g] /\ ptr'[n][g] = ptr[n][g]
            /\ n = m /\ g = rq.idx => ptr'[n][g] = rq.arr
  BY <1>6 DEF SetDone
<1>8. /\ Pinned
      /\ \A n \in Mappings, t \in Slices : Arr(n, t) = rq.arr => OwnSlice(n, t)
      /\ \A p \in Segs : p < rq.i => \E t \in Slices : Arr(1, t) = rq.arr /\ sl[1][t].pg = {p}
      /\ rq.i > 0 => \A n \in Mappings : ptr[n][rq.idx] = rq.arr
      /\ rq.j = 1 /\ rq.nseg > 1 => ptr[0][rq.idx] = rq.arr
      /\ rq.idx # 0
      /\ rq.nseg > 1 /\ rq.i = 0 /\ rq.j = 0 => IsLeast(rq.idx, FreeFields(1))
  BY <1>2, <1>3, <1>4 DEF UserOK
<1>9. lost' = lost
  BY <1>6 DEF ReqSetup
<1>10. ASSUME rq'.by = "none", pc' # "setup"
       PROVE  /\ Base'
              /\ \A a \in Arrays \ lost : a # rq.arr =>
                    /\ a \in live' => \E n \in Mappings, t \in Slices : Holds(n, t, a)'
                    /\ \A p \in Segs : pin'[a][p] # 0 =>
                           \E n \in Mappings, t \in Slices : Holds(n, t, a)' /\ p \in sl'[n][t].pg
              /\ \A n \in Mappings, t \in Slices : t \in stripe[n] =>
                    /\ IsStriped(sl'[n][t]) /\ Arr(n, t)' \notin lost /\ Arr(n, t)' # rq.arr
                    /\ \A u \in Slices : u \in stripe[n] <=> Arr(n, u)' = Arr(n, t)'
              /\ \A n \in Mappings, t \in Slices :
                    IsStriped(sl'[n][t]) /\ t \notin stripe[n] => Arr(n, t)' \in lost \/ Arr(n, t)' = rq.arr
  <2>1. \A n \in Mappings : Up(n) /\ Up(n)'
    BY <1>4, <1>10 DEF Up
  <2>2. r.idx # 0 /\ \A n \in Mappings, g \in Slices :
               n # m \/ g # r.idx => ref'[n][g] = ref[n][g] /\ ptr'[n][g] = ptr[n][g]
    BY <1>6, <1>7, <1>8
  <2> QED
    BY <2>1, <2>2, <1>1, <1>2, <1>4, <1>6, <1>7, SetupBook
<1>11. /\ \A n \in Mappings, t \in Slices :
              n # m \/ t # s => sl'[n][t] = sl[n][t] /\ Arr(n, t)' = Arr(n, t)
       /\ sl'[m][s] = r /\ Arr(m, s)' = rq.arr /\ Arr(m, s) \notin Arrays
  <2>1. \A n \in Mappings, t \in Slices : n # m \/ t # s => sl'[n][t] = sl[n][t] /\ Arr(n, t)' = Arr(n, t)
    BY <1>7 DEF Becomes, Arr
  <2>2. sl'[m][s] = r /\ Arr(m, s)' = rq.arr
    BY <1>6, <1>7 DEF Becomes, Arr
  <2>3. Arr(m, s) \notin Arrays
    BY <1>6, ClearedFacts, NoCfgFacts DEF IsClear, Arr
  <2> QED
    BY <2>1, <2>2, <2>3
<1>12. \A t \in Slices : Arr(1, t) = rq.arr => Arr(1, t)' = rq.arr /\ sl'[1][t].pg = sl[1][t].pg
  <2>1. 1 \in Mappings
    BY DEF Mappings
  <2>2. ASSUME NEW t \in Slices, Arr(1, t) = rq.arr
        PROVE  Arr(1, t)' = rq.arr /\ sl'[1][t].pg = sl[1][t].pg
    <3>1. 1 # m \/ t # s
      BY <2>2, <1>4, <1>11
    <3> QED
      BY <3>1, <2>1, <2>2, <1>11
  <2> QED
    BY <2>2
<1>13. CASE ~(rq.j = 1 /\ rq.i = rq.nseg - 1)
  <2>1. pc' = "reqget" /\ rq' = (IF rq.j = 0 THEN [rq EXCEPT !.j = 1]
                                             ELSE [rq EXCEPT !.j = 0, !.i = rq.i + 1])
    BY <1>6, <1>13 DEF ReqSetup
  <2>2. /\ rq' \in ReqRec /\ rq'.arr = rq.arr /\ rq'.by = "none" /\ rq'.fl = rq.fl /\ rq'.got = rq.got
        /\ rq'.nseg = rq.nseg /\ rq'.exp = rq.exp /\ rq'.cur = rq.cur /\ rq'.idx = rq.idx
    <3>1. rq.i + 1 \in Nat
      BY <1>4
    <3>2. CASE rq.j = 0
      <4>1. rq' = [rq EXCEPT !.j = 1]
        BY <2>1, <3>2
      <4> QED
        BY <4>1, <1>4 DEF ReqRec
    <3>3. CASE rq.j # 0
      <4>1. rq' = [rq EXCEPT !.j = 0, !.i = rq.i + 1]
        BY <2>1, <3>3
      <4> QED
        BY <4>1, <3>1, <1>4 DEF ReqRec
    <3> QED
      BY <3>2, <3>3
  <2>3. pc' \in Pcs /\ pc' \in ReqPcs /\ pc' # "reqfree" /\ pc' # "reqsetup"
    BY <2>1 DEF Pcs, ReqPcs
  <2>4. Core'
    <3>1. Rest'
      BY <1>1, <1>2, <1>9, <2>2, <2>3 DEF Rest, Core, Types
    <3> QED
      BY <3>1, <1>6, CoreFrom
  <2>5. Book'
    <3>1. Base' /\ Kept' /\ StripeOK'
      BY <2>1, <2>2, <1>2, <1>9, <1>10 DEF Kept, StripeOK
    <3>2. RelOK' /\ LostOK'
      BY <1>1, <1>2, <1>4, <1>9, <2>2 DEF Book, RelOK, LostOK
    <3> QED
      BY <3>1, <3>2 DEF Book
  <2>6. Pinned'
    BY <1>2, <1>8, <2>2 DEF Pinned
  <2>7. ASSUME NEW n \in Mappings, NEW t \in Slices, Arr(n, t)' = rq.arr, n # m \/ t # s
        PROVE  Arr(n, t) = rq.arr /\ OwnSlice(n, t) /\ sl'[n][t] = sl[n][t]
    BY <2>7, <1>8, <1>11
  <2>8. CASE rq.j = 0
    <3>1. rq'.j = 1 /\ rq'.i = rq.i
      BY <2>1, <2>8, <1>4 DEF ReqRec
    <3>2. ASSUME NEW n \in Mappings, NEW t \in Slices, Arr(n, t)' = rq.arr PROVE OwnSlice(n, t)'
      <4>1. CASE n = m /\ t = s
        <5>1. sl'[n][t] = r /\ n = 0
          BY <4>1, <1>5, <1>11, <2>8
        <5>2. \E p \in Segs : r.pg = {p} /\ (p < rq.i \/ (p = rq.i /\ n = 0 /\ rq'.j = 1))
          BY <5>1, <3>1, <1>6
        <5> QED
          BY <5>1, <5>2, <3>1, <2>2, <1>6 DEF OwnSlice
      <4>2. CASE n # m \/ t # s
        <5>1. OwnSlice(n, t) /\ sl'[n][t] = sl[n][t]
          BY <4>2, <3>2, <2>7
        <5>2. PICK p \in Segs : sl[n][t].pg = {p} /\ p < rq.i
          BY <5>1, <2>8 DEF OwnSlice
        <5> QED
          BY <5>1, <5>2, <3>1, <2>2 DEF OwnSlice
      <4> QED
        BY <4>1, <4>2
    <3>3. \A p \in Segs : p < rq.i => \E t \in Slices : Arr(1, t)' = rq.arr /\ sl'[1][t].pg = {p}
      BY <1>8, <1>12
    <3>4. rq.i > 0 => \A n \in Mappings : ptr'[n][rq.idx] = rq.arr
      BY <1>4, <1>7, <1>8
    <3>5. ptr'[0][rq.idx] = rq.arr
      BY <1>4, <1>5, <1>7, <2>8
    <3>6. rq.nseg > 1 /\ rq.i = 0 => IsLeast(rq.idx, FreeFields(1))'
      <4>1. FreeFields(1)' = FreeFields(1)
        BY <1>5, <1>7, <2>8 DEF FreeFields, Mappings
      <4> QED
        BY <4>1, <2>2, <2>8, <1>8 DEF IsLeast
    <3>7. /\ (\A n \in Mappings, t \in Slices : Arr(n, t) = rq.arr => OwnSlice(n, t))'
          /\ (\A p \in Segs : p < rq.i => \E t \in Slices : Arr(1, t) = rq.arr /\ sl[1][t].pg = {p})'
          /\ (rq.i > 0 => \A n \in Mappings : ptr[n][rq.idx] = rq.arr)'
      BY <3>1, <3>2, <3>3, <3>4, <2>2
    <3>8. rq'.j \in Mappings /\ rq'.j # 0 /\ rq'.i < rq'.nseg
      BY <3>1, <2>2, <1>4 DEF Mappings
    <3>10. /\ (rq.j = 1 /\ rq.nseg > 1 => ptr[0][rq.idx] = rq.arr)'
           /\ (rq.i > 0 \/ pc # "reqget" => rq.idx # 0)'
           /\ (rq.nseg > 1 /\ rq.i = 0 /\ (rq.j = 0 <=> pc # "reqget") => IsLeast(rq.idx, FreeFields(1)))'
      BY <3>1, <3>5, <3>6, <2>2, <1>8
    <3>11. (/\ rq.by = "none" /\ rq.arr \in live /\ rq.nseg \in 1 .. MaxSeg /\ rq.i < rq.nseg
            /\ rq.j \in Mappings /\ rq.fl = {"every"} /\ rq.got = {}
            /\ 0 < rq.cur /\ rq.cur <= rq.exp /\ rq.exp < MaxDate - 1)'
      BY <1>2, <1>4, <2>2, <3>8
    <3>12. (/\ rq.i = 0 /\ pc # "reqget" => ref[rq.j][rq.idx] = 0
            /\ rq.nseg > 1 /\ rq.i = 0 /\ rq.j = 0 /\ pc = "reqget" => FreeFields(0) = FreeFields(1))'
      BY <2>1, <3>8
    <3>9. UserOK'
      BY <2>3, <2>6, <3>7, <3>10, <3>11, <3>12 DEF UserOK
    <3> QED
      BY <3>9, <2>2, <2>3, <2>4, <2>5, Phase, Parts
  <2>9. CASE rq.j = 1
    <3>1. rq'.j = 0 /\ rq'.i = rq.i + 1
      BY <2>1, <2>9, <1>4 DEF ReqRec
    <3>2. rq.nseg > 1 /\ rq.i + 1 < rq.nseg /\ rq.i + 1 > 0 /\ \A p \in Segs : p < rq.i + 1 <=> p < rq.i \/ p = rq.i
      <4>1. \A p \in Segs : p \in Nat
        BY Sizes
      <4> QED
        BY <4>1, <2>9, <1>4, <1>13
    <3>3. ASSUME NEW n \in Mappings, NEW t \in Slices, Arr(n, t)' = rq.arr PROVE OwnSlice(n, t)'
      <4>1. CASE n = m /\ t = s
        <5>1. sl'[n][t] = r
          BY <4>1, <1>11
        <5>2. \E p \in Segs : r.pg = {p} /\ p < rq.i + 1
          BY <3>2, <1>6
        <5> QED
          BY <5>1, <5>2, <3>1, <2>2, <1>6 DEF OwnSlice
      <4>2. CASE n # m \/ t # s
        <5>1. OwnSlice(n, t) /\ sl'[n][t] = sl[n][t]
          BY <4>2, <3>3, <2>7
        <5>2. PICK p \in Segs : sl[n][t].pg = {p} /\ p < rq.i + 1
          BY <5>1, <3>2 DEF OwnSlice
        <5> QED
          BY <5>1, <5>2, <3>1, <2>2 DEF OwnSlice
      <4> QED
        BY <4>1, <4>2
    <3>4. ASSUME NEW p \in Segs, p < rq.i + 1
          PROVE  \E t \in Slices : Arr(1, t)' = rq.arr /\ sl'[1][t].pg = {p}
      <4>1. CASE p < rq.i
        BY <4>1, <1>8, <1>12
      <4>2. CASE p = rq.i
        BY <4>2, <1>5, <1>6, <1>11, <2>9
      <4> QED
        BY <4>1, <4>2, <3>2, <3>4
    <3>5. \A n \in Mappings : ptr'[n][rq.idx] = rq.arr
      <4>1. ptr'[1][rq.idx] = rq.arr
        BY <1>4, <1>5, <1>7, <2>9
      <4>2. ptr'[0][rq.idx] = rq.arr
        BY <1>4, <1>5, <1>7, <1>8, <2>9, <3>2 DEF Mappings
      <4> QED
        BY <4>1, <4>2 DEF Mappings
    <3>6. rq'.i # 0
      BY <3>1, <3>2
    <3>7. /\ (\A n \in Mappings, t \in Slices : Arr(n, t) = rq.arr => OwnSlice(n, t))'
          /\ (\A p \in Segs : p < rq.i => \E t \in Slices : Arr(1, t) = rq.arr /\ sl[1][t].pg = {p})'
          /\ (rq.i > 0 => \A n \in Mappings : ptr[n][rq.idx] = rq.arr)'
      BY <3>1, <3>3, <3>4, <3>5, <2>2
    <3>8. rq'.j \in Mappings /\ rq'.j # 1 /\ rq'.i < rq'.nseg
      BY <3>1, <3>2, <2>2 DEF Mappings
    <3>10. (/\ rq.by = "none" /\ rq.arr \in live /\ rq.nseg \in 1 .. MaxSeg /\ rq.i < rq.nseg
            /\ rq.j \in Mappings /\ rq.fl = {"every"} /\ rq.got = {}
            /\ 0 < rq.cur /\ rq.cur <= rq.exp /\ rq.exp < MaxDate - 1)'
      BY <1>2, <1>4, <2>2, <3>8
    <3>11. (/\ rq.j = 1 /\ rq.nseg > 1 => ptr[0][rq.idx] = rq.arr
            /\ rq.i > 0 \/ pc # "reqget" => rq.idx # 0
            /\ rq.i = 0 /\ pc # "reqget" => ref[rq.j][rq.idx] = 0
            /\ rq.nseg > 1 /\ rq.i = 0 /\ rq.j = 0 /\ pc = "reqget" => FreeFields(0) = FreeFields(1)
            /\ rq.nseg > 1 /\ rq.i = 0 /\ (rq.j = 0 <=> pc # "reqget") =>
                   IsLeast(rq.idx, FreeFields(1)))'
      BY <1>8, <2>2, <3>6, <3>8
    <3>9. UserOK'
      BY <2>3, <2>6, <3>7, <3>10, <3>11 DEF UserOK
    <3> QED
      BY <3>9, <2>2, <2>3, <2>4, <2>5, Phase, Parts
  <2> QED
    BY <2>8, <2>9, <1>4 DEF Mappings
<1>14. CASE rq.j = 1 /\ rq.i = rq.nseg - 1
  <2>1. pc' = "idle" /\ rq' = Idle
    BY <1>4, <1>6, <1>14 DEF ReqSetup, Return
  <2>2. Rest'
    BY <1>1, <1>2, <1>9, <2>1, IdleFacts DEF Rest, Core, Types, Pcs
  <2>3. /\ Base'
        /\ \A a \in Arrays \ lost : a # rq.arr =>
              /\ a \in live' => \E n \in Mappings, t \in Slices : Holds(n, t, a)'
              /\ \A p \in Segs : pin'[a][p] # 0 =>
                     \E n \in Mappings, t \in Slices : Holds(n, t, a)' /\ p \in sl'[n][t].pg
        /\ \A n \in Mappings, t \in Slices : t \in stripe[n] =>
              /\ IsStriped(sl'[n][t]) /\ Arr(n, t)' \notin lost /\ Arr(n, t)' # rq.arr
              /\ \A u \in Slices : u \in stripe[n] <=> Arr(n, u)' = Arr(n, t)'
        /\ \A n \in Mappings, t \in Slices :
              IsStriped(sl'[n][t]) /\ t \notin stripe[n] => Arr(n, t)' \in lost \/ Arr(n, t)' = rq.arr
    BY <2>1, <1>10, IdleFacts
  <2>6. PICK x : x = rq.arr
    OBVIOUS
  <2>4. m = 1 /\ Holds(m, s, x)'
    BY <2>6, <1>5, <1>11, <1>14 DEF Holds
  <2>5. ASSUME NEW p \in Segs, pin'[x][p] # 0
        PROVE  \E n \in Mappings, t \in Slices : Holds(n, t, x)' /\ p \in sl'[n][t].pg
    <3>1. p < rq.nseg
      BY <2>5, <2>6, <1>2, <1>8 DEF Pinned
    <3>2. p < rq.i \/ p = rq.i
      <4>1. p \in Nat
        BY Sizes
      <4> QED
        BY <3>1, <4>1, <1>4, <1>14
    <3>3. CASE p < rq.i
      <4>1. PICK t \in Slices : Arr(1, t)' = rq.arr /\ sl'[1][t].pg = {p}
        BY <3>3, <1>8, <1>12
      <4> QED
        BY <4>1, <2>6 DEF Holds, Mappings
    <3>4. CASE p = rq.i
      BY <3>4, <2>4, <1>6, <1>11
    <3> QED
      BY <3>2, <3>3, <3>4
  <2>7. /\ x \in live' => \E n \in Mappings, t \in Slices : Holds(n, t, x)'
        /\ \A p \in Segs : pin'[x][p] # 0 =>
               \E n \in Mappings, t \in Slices : Holds(n, t, x)' /\ p \in sl'[n][t].pg
    BY <2>4, <2>5
  <2>8. Kept'
    <3>1. ASSUME NEW a \in Arrays \ lost'
          PROVE  /\ a \in live' => \E n \in Mappings, t \in Slices : Holds(n, t, a)'
                 /\ \A p \in Segs : pin'[a][p] # 0 =>
                        \E n \in Mappings, t \in Slices : Holds(n, t, a)' /\ p \in sl'[n][t].pg
      <4>1. CASE a = rq.arr
        <5>1. a = x
          BY <4>1, <2>6
        <5> QED
          BY <5>1, <2>7
      <4>2. CASE a # rq.arr
        BY <4>2, <2>3, <1>9
      <4> QED
        BY <4>1, <4>2
    <3> QED
      BY <3>1 DEF Kept
  <2>9. StripeOK'
    <3>1. ASSUME NEW n \in Mappings, NEW t \in Slices, IsStriped(sl'[n][t]), t \notin stripe[n]
          PROVE  Arr(n, t)' \in lost
      <4>1. Arr(n, t)' # rq.arr
        <5>1. CASE n = m /\ t = s
          <6>1. ~IsStriped(r)
            <7>1. MaxDate \notin 1 .. MaxDate - 2
              BY Sizes
            <7> QED
              BY <7>1, <1>6 DEF IsUser, IsStriped
          <6> QED
            BY <5>1, <6>1, <3>1, <1>11
        <5>2. CASE n # m \/ t # s
          <6>1. Arr(n, t) = rq.arr => IsUser(sl[n][t])
            BY <1>8 DEF OwnSlice
          <6>2. IsUser(sl[n][t]) => ~IsStriped(sl[n][t])
            <7>1. MaxDate \notin 1 .. MaxDate - 2
              BY Sizes
            <7> QED
              BY <7>1 DEF IsUser, IsStriped
          <6> QED
            BY <5>2, <6>1, <6>2, <3>1, <1>11
        <5> QED
          BY <5>1, <5>2
      <4> QED
        BY <4>1, <3>1, <2>3
    <3>2. \A n \in Mappings, t \in Slices : IsStriped(sl'[n][t]) => Arr(n, t)' \in Arrays
      BY DEF IsStriped, Arr
    <3> QED
      BY <3>1, <3>2, <2>1, <2>3, <1>2, <1>9, IdleFacts DEF StripeOK
  <2>10. RelOK' /\ LostOK'
    BY <1>1, <1>2, <1>4, <1>9, <2>1, IdleFacts DEF Book, RelOK, LostOK
  <2>11. Book'
    BY <2>3, <2>8, <2>9, <2>10 DEF Book
  <2> QED
    BY <2>1, <2>2, <2>11, <1>6, CoreFrom, Phase, Parts
<1> QED
  BY <1>13, <1>14

-----------------------------------------------------------------------------
(* A request pins its pages *)

LEMMA NewArray ==
    ASSUME RabI, pc = "idle", nreq < MaxReqs, nreq' = nreq + 1, NEW n \in 1 .. MaxSeg, NEW x, x = nreq + 1,
           pin' = [pin EXCEPT ![x] = [p \in Segs |-> IF p < n THEN 1 ELSE 0]], live' = live \cup {x},
           UNCHANGED <<sl, ptr, ref, op, stripe, nswitch>>, released' = FALSE,
           pc' \in Pcs, pc' # "setup", rq' \in ReqRec, rq'.by = "none",
           \/ rq'.arr = x /\ lost' = lost
           \/ rq'.arr = NoArray /\ lost' = lost \cup ({x} \cap Arrays)
    PROVE  /\ Core' /\ Book' /\ x \in Arrays
           /\ \A p \in Segs : pin'[x][p] = IF p < n THEN 1 ELSE 0
           /\ \A m \in Mappings, s \in Slices : Arr(m, s) # x
           /\ Core /\ Book /\ \A m \in Mappings : Up(m)
<1>1. Core /\ Book /\ Steps
  BY Parts
<1>2. rq = Idle
  BY <1>1 DEF Steps, IdleOK
<1>3. nreq \in Nat /\ nreq + 1 \in 0 .. MaxReqs /\ x \in Arrays /\ x \in Nat
  <2>1. nreq \in 0 .. MaxReqs /\ MaxReqs \in Nat
    BY <1>1, Sizes DEF Core, Types
  <2> QED
    BY <2>1 DEF Arrays
<1>4. \A m \in Mappings, s \in Slices : Arr(m, s) # x
  <2>1. ASSUME NEW m \in Mappings, NEW s \in Slices, Arr(m, s) = x PROVE FALSE
    <3>1. x <= nreq
      BY <1>1, <1>3, <2>1 DEF Core, Owns, IsMapped
    <3> QED
      BY <3>1, <1>3
  <2> QED
    BY <2>1
<1>5. x \notin lost
  <2>1. x \in lost => x <= nreq
    BY <1>1 DEF Book, LostOK
  <2> QED
    BY <2>1, <1>3
<1>6. \A p \in Segs : pin'[x][p] = IF p < n THEN 1 ELSE 0
  BY <1>1, <1>3 DEF Core, Types
<1>7. \A b \in Arrays : b # x => pin'[b] = pin[b]
  BY <1>1, <1>3 DEF Core, Types
<1>8. pin' \in [Arrays -> [Segs -> 0 .. 1]]
  <2> DEFINE row == [p \in Segs |-> IF p < n THEN 1 ELSE 0]
  <2>1. row \in [Segs -> 0 .. 1]
    OBVIOUS
  <2>2. pin' = [pin EXCEPT ![x] = row]
    OBVIOUS
  <2> HIDE DEF row
  <2> QED
    BY <2>1, <2>2, <1>1 DEF Core, Types
<1>9. live' \in SUBSET Arrays
  BY <1>1, <1>3 DEF Core, Types
<1>10. Owns'
  <2>1. ASSUME NEW m \in Mappings, NEW s \in Slices, IsMapped(m, s)
        PROVE  /\ ptr[m][sl[m][s].idx] = Arr(m, s)
               /\ Arr(m, s) \in live' /\ Arr(m, s) <= nreq + 1
               /\ ~HasPut(m, s) => \A p \in sl[m][s].pg : pin'[Arr(m, s)][p] = 1
    <3>1. /\ ptr[m][sl[m][s].idx] = Arr(m, s)
          /\ Arr(m, s) \in live /\ Arr(m, s) <= nreq
          /\ ~HasPut(m, s) => \A p \in sl[m][s].pg : pin[Arr(m, s)][p] = 1
      BY <1>1, <2>1 DEF Core, Owns
    <3>2. Arr(m, s) \in Arrays /\ Arr(m, s) # x
      BY <1>4, <2>1 DEF IsMapped
    <3>3. Arr(m, s) <= nreq + 1
      <4>1. PICK b \in Nat : b = Arr(m, s)
        BY <3>2, Sizes
      <4> QED
        BY <4>1, <3>1, <1>3
    <3> QED
      BY <3>1, <3>2, <3>3, <1>7
  <2> QED
    BY <2>1 DEF Owns, IsMapped, Arr, HasPut
<1>11. Forms' /\ Sames' /\ RefsExact'
  BY <1>1 DEF Core, Forms, Sames, RefsExact, IsMapped, Arr, InUse
<1>12. CoreNext
  BY <1>1, <1>8, <1>9, <1>10, <1>11 DEF Core, CoreNext, Types
<1>13. Rest'
  <2>1. lost' \in SUBSET Arrays
    BY <1>1 DEF Core, Types
  <2> QED
    BY <2>1, <1>1, <1>3 DEF Rest, Core, Types
<1>14. \A m \in Mappings : Up(m) /\ Up(m)'
  BY <1>2, IdleFacts DEF Up
<1>15. Base'
  BY <1>1, <1>14 DEF Book, Base
<1>16. \A a \in Arrays : a \notin lost' /\ a # rq'.arr => a # x /\ a \notin lost
  BY <1>3
<1>17. Kept'
  <2>1. ASSUME NEW a \in Arrays, a # x, a \notin lost
        PROVE  /\ a \in live' => \E m \in Mappings, s \in Slices : Holds(m, s, a)
               /\ \A p \in Segs : pin'[a][p] # 0 =>
                      \E m \in Mappings, s \in Slices : Holds(m, s, a) /\ p \in sl[m][s].pg
    <3>1. a # rq.arr
      BY <1>2, IdleFacts
    <3> QED
      BY <3>1, <2>1, <1>1, <1>7 DEF Book, Kept
  <2> QED
    BY <2>1, <1>16 DEF Kept, Holds, Arr
<1>18. RelOK' /\ LostOK'
  <2>1. \A a \in lost : a <= nreq + 1
    <3>1. ASSUME NEW a \in lost PROVE a <= nreq + 1
      <4>1. a \in Nat /\ a <= nreq
        BY <1>1, Sizes DEF Book, LostOK, Core, Types
      <4> QED
        BY <4>1, <1>3
    <3> QED
      BY <3>1
  <2>2. x <= nreq + 1 /\ NoArray \notin Arrays
    BY <1>3, NoCfgFacts
  <2> QED
    BY <2>1, <2>2, <1>3, <1>5 DEF RelOK, LostOK
<1>19. StripeOK'
  <2>1. ASSUME NEW m \in Mappings, NEW s \in Slices, s \in stripe[m]
        PROVE  /\ IsStriped(sl[m][s]) /\ Arr(m, s) \notin lost' /\ Arr(m, s) # rq'.arr
               /\ \A t \in Slices : t \in stripe[m] <=> Arr(m, t) = Arr(m, s)
    <3>1. /\ IsStriped(sl[m][s]) /\ Arr(m, s) \notin lost
          /\ \A t \in Slices : t \in stripe[m] <=> Arr(m, t) = Arr(m, s)
      BY <2>1, <1>1 DEF Book, StripeOK
    <3>2. Arr(m, s) \in Arrays /\ Arr(m, s) # x
      BY <3>1, <1>4 DEF IsStriped, Arr
    <3> QED
      BY <3>1, <3>2, NoCfgFacts
  <2>2. ASSUME NEW m \in Mappings, NEW s \in Slices, IsStriped(sl[m][s]), s \notin stripe[m]
        PROVE  Arr(m, s) \in lost' \/ Arr(m, s) = rq'.arr
    <3>1. Arr(m, s) \in lost \/ Arr(m, s) = rq.arr
      BY <2>2, <1>1 DEF Book, StripeOK
    <3>2. Arr(m, s) # rq.arr
      BY <2>2, <1>2, IdleFacts DEF IsStriped, Arr
    <3> QED
      BY <3>1, <3>2
  <2> QED
    BY <2>1, <2>2 DEF StripeOK, Arr
<1> QED
  BY <1>1, <1>3, <1>4, <1>6, <1>12, <1>13, <1>14, <1>15, <1>17, <1>18, <1>19, CoreFrom DEF Book

LEMMA ReqCallI ==
    ASSUME Plain, RabI, NEW n \in 1 .. MaxSeg, NEW d \in Dating, NEW stray \in StrayFlags,
           ReqCall(n, d[2], d[1], stray)
    PROVE  RabI'
<1>1. stray = {}
  BY DEF Plain
<1>2. PICK x, e, c : x = nreq + 1 /\ e = d[2] /\ c = d[1]
  OBVIOUS
<1>3. e \in Dates /\ c \in Dates /\ 0 < c /\ c <= e /\ e < MaxDate - 1
  BY <1>2, RabAssumption DEF Plain
<1>4. /\ pc = "idle" /\ nreq < MaxReqs /\ (n = 1 \/ FreeFields(0) = FreeFields(1))
      /\ nreq' = nreq + 1 /\ released' = FALSE
      /\ pin' = [pin EXCEPT ![x] = [p \in Segs |-> IF p < n THEN 1 ELSE 0]]
      /\ live' = live \cup {x} /\ pc' = "reqget" /\ lost' = lost
      /\ UNCHANGED <<sl, ptr, ref, op, stripe, nswitch>>
  BY <1>1, <1>2 DEF ReqCall, Plain, l1Vars, portVars
<1>5. rq' = [Idle EXCEPT !.arr = x, !.exp = e, !.cur = c, !.nseg = n, !.fl = {"every"}]
  BY <1>1, <1>2 DEF ReqCall
<1>6. /\ rq'.arr = x /\ rq'.exp = e /\ rq'.cur = c /\ rq'.nseg = n /\ rq'.fl = {"every"} /\ rq'.i = 0
      /\ rq'.j = 0 /\ rq'.got = {} /\ rq'.by = "none"
  BY <1>5 DEF Idle
<1>7. x \in Arrays
  <2>1. nreq \in 0 .. MaxReqs /\ MaxReqs \in Nat
    BY Sizes, Parts DEF Core, Types
  <2> QED
    BY <2>1, <1>2, <1>4 DEF Arrays
<1>8. rq' \in ReqRec
  <2>1. n \in Nat /\ {"every"} \in SUBSET DrvFlags
    BY Sizes DEF DrvFlags
  <2> QED
    BY <2>1, <1>3, <1>5, <1>7, Sizes DEF Idle, ReqRec
<1>9. /\ Core' /\ Book'
      /\ \A p \in Segs : pin'[x][p] = IF p < n THEN 1 ELSE 0
      /\ \A m \in Mappings, s \in Slices : Arr(m, s) # x
  <2>1. pc' \in Pcs /\ pc' # "setup"
    BY <1>4 DEF Pcs
  <2> QED
    BY <2>1, <1>2, <1>4, <1>6, <1>8, NewArray
<1>10. Pinned'
  BY <1>6, <1>9 DEF Pinned
<1>11. /\ (\A m \in Mappings, s \in Slices : Arr(m, s) = rq.arr => OwnSlice(m, s))'
       /\ (\A p \in Segs : p < rq.i => \E s \in Slices : Arr(1, s) = rq.arr /\ sl[1][s].pg = {p})'
  <2>1. \A m \in Mappings, s \in Slices : Arr(m, s)' # x
    BY <1>4, <1>9 DEF Arr
  <2>2. \A p \in Segs : ~(p < 0)
    BY DEF Segs
  <2> QED
    BY <2>1, <2>2, <1>6
<1>12. n > 1 => FreeFields(0)' = FreeFields(1)'
  BY <1>4 DEF FreeFields
<1>13. (/\ rq.by = "none" /\ rq.arr \in live /\ rq.nseg \in 1 .. MaxSeg /\ rq.i < rq.nseg
        /\ rq.j \in Mappings /\ rq.fl = {"every"} /\ rq.got = {}
        /\ 0 < rq.cur /\ rq.cur <= rq.exp /\ rq.exp < MaxDate - 1)'
  BY <1>3, <1>4, <1>6 DEF Mappings
<1>14. (/\ rq.i > 0 => \A m \in Mappings : ptr[m][rq.idx] = rq.arr
        /\ rq.j = 1 /\ rq.nseg > 1 => ptr[0][rq.idx] = rq.arr
        /\ rq.i > 0 \/ pc # "reqget" => rq.idx # 0
        /\ rq.i = 0 /\ pc # "reqget" => ref[rq.j][rq.idx] = 0
        /\ rq.nseg > 1 /\ rq.i = 0 /\ rq.j = 0 /\ pc = "reqget" => FreeFields(0) = FreeFields(1)
        /\ rq.nseg > 1 /\ rq.i = 0 /\ (rq.j = 0 <=> pc # "reqget") => IsLeast(rq.idx, FreeFields(1)))'
  BY <1>4, <1>6, <1>12
<1>15. pc' # "reqfree" /\ pc' # "reqsetup" /\ pc' \in ReqPcs
  BY <1>4 DEF ReqPcs
<1>16. UserOK'
  BY <1>10, <1>11, <1>13, <1>14, <1>15 DEF UserOK
<1> QED
  BY <1>6, <1>9, <1>15, <1>16, Phase, Parts

-----------------------------------------------------------------------------
(* RAB_REQ_STRIPED *)

LEMMA StripedCallI ==
    ASSUME Plain, RabI, NEW m \in Mappings, NEW n \in 1 .. MaxSeg, StripedCall(m, n)
    PROVE  RabI'
<1>1. PICK x : x = nreq + 1
  OBVIOUS
<1>2. /\ pc = "idle" /\ nreq < MaxReqs /\ stripe[m] = {}
      /\ nreq' = nreq + 1 /\ released' = FALSE
      /\ pin' = [pin EXCEPT ![x] = [p \in Segs |-> IF p < n THEN 1 ELSE 0]]
      /\ live' = live \cup {x}
      /\ UNCHANGED <<sl, ptr, ref, op, stripe, nswitch>>
  BY <1>1 DEF StripedCall, l1Vars, portVars
<1>3. rq = Idle
  BY <1>2, Parts DEF Steps, IdleOK
<1>4. CASE FreeFields(m) = {} /\ Return /\ Loses(nreq + 1)
  <2>1. pc' = "idle" /\ rq' = Idle /\ lost' = lost \cup ({x} \cap Arrays)
    BY <1>1, <1>3, <1>4, IdleFacts DEF Return, Loses
  <2>2. rq' \in ReqRec /\ rq'.by = "none" /\ rq'.arr = NoArray /\ pc' \in Pcs /\ pc' # "setup"
    BY <2>1, IdleFacts DEF Pcs
  <2>3. Core' /\ Book'
    BY <2>1, <2>2, <1>1, <1>2, NewArray
  <2> QED
    BY <2>1, <2>3, Phase, Parts
<1>5. ASSUME NEW f \in Slices, IsLeast(f, FreeFields(m)),
             rq' = [Idle EXCEPT !.m = m, !.idx = f, !.arr = nreq + 1, !.nseg = n,
                                !.exp = MaxDate, !.cur = 1],
             pc' = "strget", lost' = lost
      PROVE  RabI'
  <2>1. rq' = [Idle EXCEPT !.m = m, !.idx = f, !.arr = x, !.nseg = n, !.exp = MaxDate, !.cur = 1]
    BY <1>1, <1>5
  <2>2. /\ rq'.m = m /\ rq'.idx = f /\ rq'.arr = x /\ rq'.nseg = n /\ rq'.exp = MaxDate /\ rq'.cur = 1
        /\ rq'.j = 0 /\ rq'.got = {} /\ rq'.by = "none"
    BY <2>1 DEF Idle
  <2>3. x \in Arrays
    <3>1. nreq \in 0 .. MaxReqs /\ MaxReqs \in Nat
      BY Sizes, Parts DEF Core, Types
    <3> QED
      BY <3>1, <1>1, <1>2 DEF Arrays
  <2>4. rq' \in ReqRec
    <3>1. n \in Nat /\ m \in Nat /\ 1 \in Dates
      BY Sizes DEF Mappings, Dates
    <3> QED
      BY <3>1, <2>1, <2>3, Sizes DEF Idle, ReqRec
  <2>5. /\ Core' /\ Book' /\ Book /\ Up(m)
        /\ \A p \in Segs : pin'[x][p] = IF p < n THEN 1 ELSE 0
        /\ \A k \in Mappings, s \in Slices : Arr(k, s) # x
    <3>1. pc' \in Pcs /\ pc' # "setup"
      BY <1>5 DEF Pcs
    <3> QED
      BY <3>1, <1>1, <1>2, <1>5, <2>2, <2>4, NewArray
  <2>6. Pinned'
    BY <2>2, <2>5 DEF Pinned
  <2>7. ref'[m][f] = 0 /\ f # 0
    <3>1. ref[m][0] = 1
      BY <2>5 DEF Book, Base
    <3> QED
      BY <3>1, <1>2, <1>5 DEF IsLeast, FreeFields
  <2>8. \A k \in Mappings, s \in Slices : Arr(k, s)' # x
    BY <2>5, <1>2 DEF Arr
  <2>9. (/\ rq.by = "none" /\ rq.arr \in live /\ rq.nseg \in 1 .. MaxSeg /\ rq.m \in Mappings
         /\ rq.exp = MaxDate /\ rq.cur = 1 /\ rq.idx # 0 /\ rq.j < NStriped /\ stripe[rq.m] = {})'
    BY <1>2, <2>2, <2>7, Sizes
  <2>10. (/\ \A k \in Mappings, s \in Slices : Arr(k, s) = rq.arr <=> k = rq.m /\ s \in rq.got
          /\ \A s \in rq.got : /\ IsStriped(sl[rq.m][s]) /\ sl[rq.m][s].idx = rq.idx
                               /\ sl[rq.m][s].pg = 0 .. rq.nseg - 1
          /\ rq.j = 0 => rq.got = {} /\ ref[rq.m][rq.idx] = 0
          /\ rq.j > 0 => rq.got # {} /\ ptr[rq.m][rq.idx] = rq.arr
          /\ pc # "strget" => rq.slice # 0 /\ sl[rq.m][rq.slice] = Cleared(FALSE))'
    BY <2>2, <2>7, <2>8, <1>5
  <2>11. StrOK'
    BY <2>6, <2>9, <2>10 DEF StrOK
  <2> QED
    BY <2>2, <2>5, <2>11, <1>5, Phase, Parts DEF StrPcs
<1> QED
  BY <1>4, <1>5 DEF StripedCall

LEMMA StrNow ==
    ASSUME RabI, StrReq
    PROVE  /\ Core /\ Book /\ \A m \in Mappings : Up(m)
           /\ rq.by = "none" /\ rq.arr \in live /\ rq.nseg \in 1 .. MaxSeg /\ rq.m \in Mappings
           /\ rq.exp = MaxDate /\ rq.cur = 1 /\ rq.idx # 0 /\ rq.j < NStriped /\ stripe[rq.m] = {}
           /\ Pinned
           /\ \A m \in Mappings, s \in Slices : Arr(m, s) = rq.arr <=> m = rq.m /\ s \in rq.got
           /\ \A s \in rq.got : /\ IsStriped(sl[rq.m][s]) /\ sl[rq.m][s].idx = rq.idx
                                /\ sl[rq.m][s].pg = 0 .. rq.nseg - 1
           /\ rq.j = 0 => rq.got = {} /\ ref[rq.m][rq.idx] = 0
           /\ rq.j > 0 => rq.got # {} /\ ptr[rq.m][rq.idx] = rq.arr
           /\ pc # "strget" => rq.slice # 0 /\ sl[rq.m][rq.slice] = Cleared(FALSE)
           /\ rq.j \in Nat /\ rq.nseg \in Nat /\ rq.idx \in Slices /\ rq.slice \in Slices
           /\ rq.got \in SUBSET Slices
           /\ rq.arr \in Arrays /\ rq \in ReqRec /\ rq.arr = nreq /\ rq.arr \notin lost /\ ~released
<1>1. Core /\ Book /\ Steps
  BY Parts
<1>2. StrOK /\ rq \in ReqRec
  BY <1>1 DEF Steps, Core, Types
<1>3. rq.j \in Nat /\ rq.nseg \in Nat /\ rq.idx \in Slices /\ rq.slice \in Slices /\ rq.got \in SUBSET Slices
  BY <1>2 DEF ReqRec
<1>4. rq.by = "none" /\ rq.arr \in Arrays
  BY <1>1, <1>2 DEF StrOK, Core, Types
<1>5. rq.arr = nreq /\ rq.arr \notin lost /\ ~released
  BY <1>1, <1>4 DEF Book, LostOK, RelOK
<1>6. \A m \in Mappings : Up(m)
  BY <1>4 DEF StrReq, StrPcs, Up
<1> QED
  BY <1>1, <1>2, <1>3, <1>4, <1>5, <1>6 DEF StrOK

LEMMA StripedGetI == ASSUME Plain, RabI, StripedGet PROVE RabI'
<1>1. pc = "strget" /\ UNCHANGED <<sl, ptr, ref, op, stripe, pin, live, nreq, nswitch, released>>
  BY DEF StripedGet, l1Vars, memVars, portVars
<1>2. StrReq
  BY <1>1 DEF StrReq, StrPcs
<1>3. /\ Core /\ Book /\ \A m \in Mappings : Up(m)
      /\ rq.by = "none" /\ rq.arr \in live /\ rq.nseg \in 1 .. MaxSeg /\ rq.m \in Mappings
      /\ rq.exp = MaxDate /\ rq.cur = 1 /\ rq.idx # 0 /\ rq.j < NStriped /\ stripe[rq.m] = {}
      /\ Pinned
      /\ \A m \in Mappings, s \in Slices : Arr(m, s) = rq.arr <=> m = rq.m /\ s \in rq.got
      /\ \A s \in rq.got : /\ IsStriped(sl[rq.m][s]) /\ sl[rq.m][s].idx = rq.idx
                           /\ sl[rq.m][s].pg = 0 .. rq.nseg - 1
      /\ rq.j = 0 => rq.got = {} /\ ref[rq.m][rq.idx] = 0
      /\ rq.j > 0 => rq.got # {} /\ ptr[rq.m][rq.idx] = rq.arr
      /\ rq \in ReqRec
  BY <1>2, StrNow
<1>4. CASE Fail
  BY <1>1, <1>3, <1>4, FailI
<1>5. CASE ~Fail
  <2>1. PICK s \in Slices : /\ IsLeast(s, FreeSlices(rq.m, StripedFlags, rq.cur))
                            /\ rq' = [rq EXCEPT !.slice = s] /\ pc' = "strfree" /\ lost' = lost
    BY <1>5 DEF StripedGet
  <2>2. SliceCheck(rq.m, s, StripedFlags, 1)
    BY <2>1, <1>3 DEF IsLeast, FreeSlices
  <2>3. sl[rq.m][s].fixed = FALSE /\ sl[rq.m][s].exp = 0
    <3>1. "fixed" \notin StripedFlags
      BY DEF StripedFlags
    <3>2. sl[rq.m][s].exp \in Nat /\ sl[rq.m][s].fixed \in BOOLEAN
      BY <1>3, SliceTypes DEF Core
    <3>3. 1 > sl[rq.m][s].exp
      BY <2>2 DEF SliceCheck
    <3> QED
      BY <2>2, <3>1, <3>2, <3>3 DEF SliceCheck
  <2>4. s # 0
    <3>1. sl[rq.m][0] = ConstSlice
      BY <1>3 DEF Book, Base
    <3> QED
      BY <2>3, <3>1, ConstFacts
  <2>5. sl[rq.m][s] = Cleared(FALSE)
    <3>1. Form(sl[rq.m][s], s)
      BY <1>3 DEF Core, Forms
    <3>2. 0 \notin 1 .. MaxDate - 2 /\ MaxDate # 0
      BY Sizes
    <3> QED
      BY <2>3, <2>4, <3>1, <3>2 DEF Form, IsClear, IsUser, IsStriped
  <2>6. /\ rq' \in ReqRec
        /\ rq'.i = rq.i /\ rq'.j = rq.j /\ rq'.m = rq.m /\ rq'.arr = rq.arr /\ rq'.nseg = rq.nseg
        /\ rq'.exp = rq.exp /\ rq'.cur = rq.cur /\ rq'.fl = rq.fl /\ rq'.got = rq.got
        /\ rq'.by = rq.by /\ rq'.slice = s /\ rq'.idx = rq.idx
    BY <2>1, <1>3 DEF ReqRec
  <2>7. Core'
    <3>1. Rest'
      BY <1>1, <1>3, <2>1, <2>6 DEF Rest, Core, Types, Pcs
    <3> QED
      BY <3>1, <1>1, <1>3, QuietCore, CoreFrom
  <2>8. Book'
    <3>1. \A m \in Mappings : Up(m)' <=> Up(m)
      BY <1>1, <2>1, <2>6 DEF Up
    <3> QED
      BY <3>1, <1>1, <1>3, <2>1, <2>6, QuietBook
  <2>9. Pinned' /\ \A m, t : Arr(m, t)' = Arr(m, t)
    BY <1>1, <1>3, <2>6 DEF Pinned, Arr
  <2>10. (/\ rq.by = "none" /\ rq.arr \in live /\ rq.nseg \in 1 .. MaxSeg /\ rq.m \in Mappings
          /\ rq.exp = MaxDate /\ rq.cur = 1 /\ rq.idx # 0 /\ rq.j < NStriped /\ stripe[rq.m] = {})'
    BY <1>1, <1>3, <2>6
  <2>11. (/\ \A k \in Mappings, t \in Slices : Arr(k, t) = rq.arr <=> k = rq.m /\ t \in rq.got
          /\ \A t \in rq.got : /\ IsStriped(sl[rq.m][t]) /\ sl[rq.m][t].idx = rq.idx
                               /\ sl[rq.m][t].pg = 0 .. rq.nseg - 1
          /\ rq.j = 0 => rq.got = {} /\ ref[rq.m][rq.idx] = 0
          /\ rq.j > 0 => rq.got # {} /\ ptr[rq.m][rq.idx] = rq.arr
          /\ pc # "strget" => rq.slice # 0 /\ sl[rq.m][rq.slice] = Cleared(FALSE))'
    BY <1>1, <1>3, <2>4, <2>5, <2>6, <2>9
  <2>12. StrOK' /\ pc' \in StrPcs
    BY <2>1, <2>9, <2>10, <2>11 DEF StrOK, StrPcs
  <2> QED
    BY <1>3, <2>6, <2>7, <2>8, <2>12, Phase, Parts
<1> QED
  BY <1>4, <1>5

LEMMA StripedFreeI == ASSUME Plain, RabI, HwI, StripedFree PROVE RabI'
<1>1. /\ pc = "strfree" /\ pc' = "strsetup" /\ SliceFree(rq.m, rq.slice, StripedFlags)
      /\ lost' = lost \cup ({Arr(rq.m, rq.slice)} \cap Arrays)
      /\ UNCHANGED <<pin, stripe, rq, nreq, nswitch, released>>
  BY DEF StripedFree, Loses, Arr
<1>op. op.m = rq.m /\ op.s = rq.slice
  BY <1>1, AtFree DEF FreeFor, SliceFree
<1>2. StrReq
  BY <1>1 DEF StrReq, StrPcs
<1>3. /\ Core /\ Book /\ \A m \in Mappings : Up(m)
      /\ rq.by = "none" /\ rq.m \in Mappings /\ rq.slice \in Slices
      /\ sl[rq.m][rq.slice] = Cleared(FALSE) /\ rq \in ReqRec
  BY <1>1, <1>2, StrNow
<1>4. IsClear(sl[rq.m][rq.slice], rq.slice) /\ Arr(rq.m, rq.slice) \notin Arrays
  BY <1>3, ClearedFacts, NoCfgFacts DEF IsClear, Arr
<1>5. ptr[rq.m][0] = NoPages /\ "const" \notin StripedFlags
  BY <1>3 DEF Book, Base, StripedFlags
<1>6. sl' = sl /\ ref' = ref /\ ptr' = ptr /\ live' = live /\ CoreNext
  BY <1>1, <1>3, <1>4, <1>5, <1>op, FreeClear
<1>7. lost' = lost
  BY <1>1, <1>4
<1>8. Core'
  <2>1. Rest'
    BY <1>1, <1>3, <1>7 DEF Rest, Core, Types, Pcs
  <2> QED
    BY <2>1, <1>6, CoreFrom
<1>9. Book'
  <2>1. \A m \in Mappings : Up(m)' <=> Up(m)
    BY <1>1 DEF Up
  <2> QED
    BY <2>1, <1>1, <1>3, <1>6, <1>7, QuietBook
<1>10. StrOK' /\ pc' \in StrPcs
  <2>1. Steps
    BY Parts
  <2>2. Pinned' <=> Pinned
    BY <1>1, <1>6 DEF Pinned
  <2>3. \A m, t : Arr(m, t)' = Arr(m, t)
    BY <1>6 DEF Arr
  <2> QED
    BY <2>1, <2>2, <2>3, <1>1, <1>2, <1>6 DEF Steps, StrOK, StrPcs, StrReq
<1> QED
  BY <1>1, <1>3, <1>8, <1>9, <1>10, Phase, Parts

LEMMA StripedSets ==
    ASSUME Plain, RabI, StripedSetup, NEW m, m = rq.m, NEW s, s = rq.slice,
           NEW r, r = [exp |-> rq.exp, fixed |-> FALSE, idx |-> rq.idx, pg |-> 0 .. rq.nseg - 1,
                       fl |-> StripedFlags, cfg |-> Cfg(rq.arr, 0 .. rq.nseg - 1, rq.j = 0)]
    PROVE  /\ CoreNext /\ SetDone(m, s, r, rq.arr) /\ IsStriped(r)
           /\ r.exp = MaxDate /\ r.idx = rq.idx /\ r.pg = 0 .. rq.nseg - 1 /\ r.cfg.arr = rq.arr
           /\ m \in Mappings /\ s \in Slices /\ s # 0 /\ IsClear(sl[m][s], s)
           /\ ~SetupRefused(rq.m, rq.j, StripedFlags)
           /\ r \in SliceRec /\ SliceSetup(m, s, r, rq.arr, FALSE)
<1>1. /\ pc = "strsetup" /\ UNCHANGED <<pin, live, nreq, nswitch, released>>
  BY DEF StripedSetup, memVars
<1>2. StrReq
  BY <1>1 DEF StrReq, StrPcs
<1>3. /\ Core /\ Book
      /\ rq.arr \in live /\ rq.nseg \in 1 .. MaxSeg /\ rq.m \in Mappings
      /\ rq.exp = MaxDate /\ rq.idx # 0
      /\ Pinned
      /\ \A n \in Mappings, t \in Slices : Arr(n, t) = rq.arr <=> n = rq.m /\ t \in rq.got
      /\ \A t \in rq.got : /\ IsStriped(sl[rq.m][t]) /\ sl[rq.m][t].idx = rq.idx
                           /\ sl[rq.m][t].pg = 0 .. rq.nseg - 1
      /\ rq.j = 0 => rq.got = {} /\ ref[rq.m][rq.idx] = 0
      /\ rq.j > 0 => rq.got # {} /\ ptr[rq.m][rq.idx] = rq.arr
      /\ rq.slice # 0 /\ sl[rq.m][rq.slice] = Cleared(FALSE)
      /\ rq.j \in Nat /\ rq.nseg \in Nat /\ rq.idx \in Slices /\ rq.slice \in Slices
      /\ rq.arr \in Arrays /\ rq.arr = nreq
  BY <1>1, <1>2, StrNow
<1>4. PICK pages : pages = 0 .. rq.nseg - 1
  OBVIOUS
<1>5. pages \in SUBSET Segs /\ \A p \in pages : pin[rq.arr][p] = 1
  <2>1. pages \subseteq Segs
    <3>1. MaxSeg \in Nat /\ rq.nseg <= MaxSeg /\ rq.nseg \in Nat
      BY <1>3, Sizes
    <3> QED
      BY <3>1, <1>4 DEF Segs
  <2>2. \A p \in pages : p < rq.nseg
    BY <1>3, <1>4
  <2> QED
    BY <2>1, <2>2, <1>3 DEF Pinned
<1>6. StripedFlags \in SUBSET DrvFlags /\ "const" \notin StripedFlags /\ "every" \notin StripedFlags
  BY DEF StripedFlags, DrvFlags
<1>7. /\ r.exp = MaxDate /\ r.fixed = FALSE /\ r.idx = rq.idx /\ r.pg = pages /\ r.fl = StripedFlags
      /\ r.cfg = Cfg(rq.arr, pages, rq.j = 0)
  BY <1>3, <1>4
<1>8. r.cfg \in CfgSet /\ r.cfg.arr = rq.arr /\ r.cfg.pages = pages
  <2>1. PICK en \in BOOLEAN : en = (rq.j = 0)
    OBVIOUS
  <2>2. r.cfg = Cfg(rq.arr, pages, en)
    BY <2>1, <1>7
  <2> QED
    BY <2>2, <1>3, <1>5 DEF Cfg, CfgSet
<1>9. r \in SliceRec
  <2>1. r = [exp |-> MaxDate, fixed |-> FALSE, idx |-> rq.idx, pg |-> pages,
             fl |-> StripedFlags, cfg |-> r.cfg]
    BY <1>3, <1>4, <1>7
  <2> HIDE DEF StripedFlags
  <2>2. \A c \in CfgSet, fl \in SUBSET DrvFlags : [exp |-> MaxDate, fixed |-> FALSE, idx |-> rq.idx, pg |-> pages,
             fl |-> fl, cfg |-> c] \in SliceRec
    BY <1>3, <1>5, Sizes DEF SliceRec
  <2> QED
    BY <2>1, <2>2, <1>6, <1>8
<1>10. IsStriped(r)
  BY <1>3, <1>6, <1>7, <1>8 DEF IsStriped
<1>11. ~SetupRefused(rq.m, rq.j, StripedFlags)
  <2>1. rq.j = 0 => ref[rq.m][rq.idx] % 2 = 0
    BY <1>3
  <2> QED
    BY <2>1 DEF SetupRefused
<1>12. SliceSetup(m, s, r, rq.arr, FALSE)
  BY <1>11 DEF StripedSetup, SliceSetup
<1>13. \A t \in Users(m, r.idx) : Arr(m, t) = rq.arr
  <2>1. rq.j = 0 => Users(m, r.idx) = {}
    BY <1>3, <1>7, RefFacts DEF Core
  <2>2. ASSUME rq.j > 0, NEW t \in Users(m, r.idx) PROVE Arr(m, t) = rq.arr
    <3>1. t \in Slices /\ InUse(m, t) /\ sl[m][t].idx = rq.idx
      BY <2>2, <1>7 DEF Users
    <3>2. Form(sl[m][t], t)
      BY <3>1, <1>3 DEF Core, Forms
    <3>3. IsMapped(m, t)
      BY <3>1, <3>2, <1>3, FormFacts DEF InUse, IsMapped, Arr
    <3>4. ptr[m][rq.idx] = Arr(m, t)
      BY <3>1, <3>3, <1>3 DEF Core, Owns
    <3> QED
      BY <3>4, <2>2, <1>3
  <2>3. rq.j = 0 \/ rq.j > 0
    BY <1>3
  <2> QED
    BY <2>1, <2>2, <2>3
<1>14. ASSUME NEW n \in Mappings, NEW t \in Slices, Arr(n, t) = rq.arr
       PROVE  Alike(m, r, s, n, sl[n][t], t)
  <2>1. n = m /\ t \in rq.got
    BY <1>3, <1>14
  <2>2. sl[n][t].exp = MaxDate /\ sl[n][t].idx = rq.idx /\ sl[n][t].pg = pages
    BY <2>1, <1>3, <1>4 DEF IsStriped
  <2> QED
    BY <2>1, <2>2, <1>7 DEF Alike
<1>15. SetSafe(m, s, r, rq.arr)
  <2>1. rq.arr <= nreq
    <3>1. rq.arr = nreq /\ nreq \in Nat
      BY <1>3, Sizes
    <3> QED
      BY <3>1
  <2> QED
    BY <2>1, <1>3, <1>5, <1>6, <1>7, <1>8, <1>13, <1>14 DEF SetSafe
<1>16. IsClear(sl[m][s], s) /\ Form(r, s) /\ r.cfg # NoCfg
  BY <1>3, <1>8, <1>10, NoCfgFacts DEF IsClear, Form
<1>17. CoreNext /\ SetDone(m, s, r, IF "const" \in r.fl THEN NoPages ELSE rq.arr)
  BY <1>1, <1>3, <1>9, <1>12, <1>15, <1>16, SetupEffect
<1>18. (IF "const" \in r.fl THEN NoPages ELSE rq.arr) = rq.arr
  BY <1>6, <1>7
<1> QED
  BY <1>3, <1>4, <1>7, <1>8, <1>9, <1>10, <1>11, <1>12, <1>16, <1>17, <1>18

LEMMA StripedSetupI == ASSUME Plain, RabI, StripedSetup PROVE RabI'
<1>1. /\ pc = "strsetup" /\ UNCHANGED <<pin, live, nreq, nswitch, released>>
  BY DEF StripedSetup, memVars
<1>2. StrReq
  BY <1>1 DEF StrReq, StrPcs
<1>3. /\ Core /\ Book /\ \A n \in Mappings : Up(n)
      /\ rq.by = "none" /\ rq.arr \in live /\ rq.nseg \in 1 .. MaxSeg /\ rq.m \in Mappings
      /\ rq.exp = MaxDate /\ rq.cur = 1 /\ rq.idx # 0 /\ stripe[rq.m] = {}
      /\ Pinned
      /\ \A n \in Mappings, t \in Slices : Arr(n, t) = rq.arr <=> n = rq.m /\ t \in rq.got
      /\ \A t \in rq.got : /\ IsStriped(sl[rq.m][t]) /\ sl[rq.m][t].idx = rq.idx
                           /\ sl[rq.m][t].pg = 0 .. rq.nseg - 1
      /\ rq.j \in Nat /\ rq.j < NStriped /\ rq.nseg \in Nat /\ rq.idx \in Slices /\ rq.slice \in Slices
      /\ rq.got \in SUBSET Slices
      /\ rq.arr \in Arrays /\ rq \in ReqRec /\ rq.arr = nreq /\ rq.arr \notin lost /\ ~released
  BY <1>1, <1>2, StrNow
<1>ms. PICK m \in Mappings, s \in Slices : m = rq.m /\ s = rq.slice
  BY <1>3
<1>4. PICK r, x, got :
         /\ m = rq.m /\ s = rq.slice /\ x = rq.arr /\ got = rq.got
         /\ r = [exp |-> rq.exp, fixed |-> FALSE, idx |-> rq.idx, pg |-> 0 .. rq.nseg - 1,
                 fl |-> StripedFlags, cfg |-> Cfg(rq.arr, 0 .. rq.nseg - 1, rq.j = 0)]
  BY <1>ms
<1>5. /\ CoreNext /\ SetDone(m, s, r, rq.arr) /\ IsStriped(r)
      /\ r.exp = MaxDate /\ r.idx = rq.idx /\ r.pg = 0 .. rq.nseg - 1 /\ r.cfg.arr = rq.arr
      /\ s # 0 /\ IsClear(sl[m][s], s) /\ ~SetupRefused(rq.m, rq.j, StripedFlags)
  BY <1>4, StripedSets
<1>6. /\ Becomes(m, s, r)
      /\ \A n \in Mappings, g \in Slices :
            /\ n # m \/ g # rq.idx => ref'[n][g] = ref[n][g] /\ ptr'[n][g] = ptr[n][g]
            /\ n = m /\ g = rq.idx => ptr'[n][g] = rq.arr
  BY <1>5 DEF SetDone
<1>7. lost' = lost
  BY <1>5 DEF StripedSetup
<1>8. ASSUME rq'.by = "none", pc' # "setup"
      PROVE  /\ Base'
             /\ \A a \in Arrays \ lost : a # rq.arr =>
                   /\ a \in live' => \E n \in Mappings, t \in Slices : Holds(n, t, a)'
                   /\ \A p \in Segs : pin'[a][p] # 0 =>
                          \E n \in Mappings, t \in Slices : Holds(n, t, a)' /\ p \in sl'[n][t].pg
             /\ \A n \in Mappings, t \in Slices : t \in stripe[n] =>
                   /\ IsStriped(sl'[n][t]) /\ Arr(n, t)' \notin lost /\ Arr(n, t)' # rq.arr
                   /\ \A u \in Slices : u \in stripe[n] <=> Arr(n, u)' = Arr(n, t)'
             /\ \A n \in Mappings, t \in Slices :
                   IsStriped(sl'[n][t]) /\ t \notin stripe[n] => Arr(n, t)' \in lost \/ Arr(n, t)' = rq.arr
  <2>1. \A n \in Mappings : Up(n) /\ Up(n)'
    BY <1>3, <1>8 DEF Up
  <2>2. r.idx # 0 /\ \A n \in Mappings, g \in Slices :
               n # m \/ g # r.idx => ref'[n][g] = ref[n][g] /\ ptr'[n][g] = ptr[n][g]
    BY <1>3, <1>5, <1>6
  <2> QED
    BY <2>1, <2>2, <1>1, <1>3, <1>5, <1>6, SetupBook
<1>9. /\ \A n \in Mappings, t \in Slices :
             n # m \/ t # s => sl'[n][t] = sl[n][t] /\ Arr(n, t)' = Arr(n, t)
      /\ sl'[m][s] = r /\ Arr(m, s)' = x /\ Arr(m, s) \notin Arrays
  <2>1. \A n \in Mappings, t \in Slices : n # m \/ t # s => sl'[n][t] = sl[n][t] /\ Arr(n, t)' = Arr(n, t)
    BY <1>6 DEF Becomes, Arr
  <2>2. sl'[m][s] = r /\ Arr(m, s)' = x
    BY <1>4, <1>5, <1>6 DEF Becomes, Arr
  <2>3. Arr(m, s) \notin Arrays
    BY <1>5, ClearedFacts, NoCfgFacts DEF IsClear, Arr
  <2> QED
    BY <2>1, <2>2, <2>3
\* The slices of the array.
<1>10. ASSUME NEW n \in Mappings, NEW t \in Slices
       PROVE  Arr(n, t)' = x <=> n = m /\ t \in got \cup {s}
  <2>1. CASE n = m /\ t = s
    BY <2>1, <1>9
  <2>2. CASE n # m \/ t # s
    <3>1. Arr(n, t)' = Arr(n, t) /\ (Arr(n, t) = x <=> n = m /\ t \in got)
      BY <2>2, <1>3, <1>4, <1>9
    <3> QED
      BY <2>2, <3>1
  <2> QED
    BY <2>1, <2>2
<1>11. ASSUME NEW t \in got \cup {s}
       PROVE  IsStriped(sl'[m][t]) /\ sl'[m][t].idx = rq.idx /\ sl'[m][t].pg = 0 .. rq.nseg - 1
  <2>1. CASE t = s
    BY <2>1, <1>5, <1>9
  <2>2. CASE t # s
    <3>1. t \in got /\ t \in Slices /\ sl'[m][t] = sl[m][t]
      BY <2>2, <1>3, <1>4, <1>9
    <3> QED
      BY <3>1, <1>3, <1>4
  <2> QED
    BY <2>1, <2>2
<1>12. CASE rq.j < NStriped - 1
  <2>1. rq' = [rq EXCEPT !.j = rq.j + 1, !.got = rq.got \cup {rq.slice}] /\ pc' = "strget" /\ stripe' = stripe
    BY <1>3, <1>5, <1>12, Sizes DEF StripedSetup
  <2>2. /\ rq' \in ReqRec
        /\ rq'.j = rq.j + 1 /\ rq'.m = rq.m /\ rq'.arr = rq.arr /\ rq'.nseg = rq.nseg
        /\ rq'.exp = rq.exp /\ rq'.cur = rq.cur /\ rq'.got = got \cup {s}
        /\ rq'.by = rq.by /\ rq'.idx = rq.idx
    <3>1. rq.j + 1 \in Nat /\ rq.got \cup {rq.slice} \in SUBSET Slices
      BY <1>3
    <3> QED
      BY <2>1, <3>1, <1>3, <1>4 DEF ReqRec
  <2>3. Core'
    <3>1. Rest'
      BY <1>1, <1>3, <1>7, <2>1, <2>2 DEF Rest, Core, Types, Pcs
    <3> QED
      BY <3>1, <1>5, CoreFrom
  <2>4. Book'
    <3>1. pc' # "setup" /\ rq'.by = "none"
      BY <1>3, <2>1, <2>2
    <3>2. Base' /\ Kept' /\ StripeOK'
      BY <3>1, <2>1, <2>2, <1>7, <1>8 DEF Kept, StripeOK
    <3>3. RelOK' /\ LostOK'
      BY <1>1, <1>3, <1>7, <2>2 DEF Book, RelOK, LostOK
    <3> QED
      BY <3>2, <3>3 DEF Book
  <2>5. Pinned'
    BY <1>1, <1>3, <2>2 DEF Pinned
  <2>6. rq'.j > 0 /\ rq'.j # 0 /\ rq'.j < NStriped
    <3>1. PICK j \in Nat : j = rq.j
      BY <1>3
    <3> QED
      BY <3>1, <1>12, <2>2, Sizes
  <2>7. (/\ rq.by = "none" /\ rq.arr \in live /\ rq.nseg \in 1 .. MaxSeg /\ rq.m \in Mappings
         /\ rq.exp = MaxDate /\ rq.cur = 1 /\ rq.idx # 0 /\ rq.j < NStriped /\ stripe[rq.m] = {})'
    BY <1>1, <1>3, <2>1, <2>2, <2>6
  <2>8. (/\ \A k \in Mappings, t \in Slices : Arr(k, t) = rq.arr <=> k = rq.m /\ t \in rq.got
         /\ \A t \in rq.got : /\ IsStriped(sl[rq.m][t]) /\ sl[rq.m][t].idx = rq.idx
                              /\ sl[rq.m][t].pg = 0 .. rq.nseg - 1)'
    BY <1>4, <1>10, <1>11, <2>2
  <2>9. ptr'[rq.m][rq.idx] = rq.arr
    BY <1>3, <1>4, <1>6
  <2>10. (/\ rq.j = 0 => rq.got = {} /\ ref[rq.m][rq.idx] = 0
          /\ rq.j > 0 => rq.got # {} /\ ptr[rq.m][rq.idx] = rq.arr
          /\ pc # "strget" => rq.slice # 0 /\ sl[rq.m][rq.slice] = Cleared(FALSE))'
    BY <2>1, <2>2, <2>6, <2>9
  <2>11. StrOK' /\ pc' \in StrPcs
    BY <2>1, <2>5, <2>7, <2>8, <2>10 DEF StrOK, StrPcs
  <2> QED
    BY <1>3, <2>2, <2>3, <2>4, <2>11, Phase, Parts
<1>13. CASE rq.j = NStriped - 1
  <2>1. pc' = "idle" /\ rq' = Idle /\ stripe' = [stripe EXCEPT ![rq.m] = rq.got \cup {rq.slice}]
    BY <1>3, <1>5, <1>13, Sizes DEF StripedSetup, Return
  <2>2. /\ stripe' \in [Mappings -> SUBSET Slices]
        /\ \A n \in Mappings : stripe'[n] = IF n = m THEN got \cup {s} ELSE stripe[n]
    BY <2>1, <1>3, <1>4 DEF Core, Types
  <2>3. Rest'
    BY <1>1, <1>3, <1>7, <2>1, <2>2, IdleFacts DEF Rest, Core, Types, Pcs
  <2>4. /\ Base'
        /\ \A a \in Arrays \ lost : a # x =>
              /\ a \in live' => \E n \in Mappings, t \in Slices : Holds(n, t, a)'
              /\ \A p \in Segs : pin'[a][p] # 0 =>
                     \E n \in Mappings, t \in Slices : Holds(n, t, a)' /\ p \in sl'[n][t].pg
        /\ \A n \in Mappings, t \in Slices : t \in stripe[n] =>
              /\ IsStriped(sl'[n][t]) /\ Arr(n, t)' \notin lost /\ Arr(n, t)' # x
              /\ \A u \in Slices : u \in stripe[n] <=> Arr(n, u)' = Arr(n, t)'
        /\ \A n \in Mappings, t \in Slices :
              IsStriped(sl'[n][t]) /\ t \notin stripe[n] => Arr(n, t)' \in lost \/ Arr(n, t)' = x
    BY <2>1, <1>4, <1>8, IdleFacts
  <2>5. Holds(m, s, x)'
    BY <1>5, <1>9 DEF Holds
  <2>6. ASSUME NEW p \in Segs, pin'[x][p] # 0 PROVE p \in sl'[m][s].pg
    <3>1. p < rq.nseg /\ p \in Nat
      BY <2>6, <1>1, <1>3, <1>4, Sizes DEF Pinned
    <3> QED
      BY <3>1, <1>3, <1>5, <1>9
  <2>7. Kept'
    <3>1. ASSUME NEW a \in Arrays \ lost
          PROVE  /\ a \in live' => \E n \in Mappings, t \in Slices : Holds(n, t, a)'
                 /\ \A p \in Segs : pin'[a][p] # 0 =>
                        \E n \in Mappings, t \in Slices : Holds(n, t, a)' /\ p \in sl'[n][t].pg
      <4>1. CASE a = x
        BY <4>1, <2>5, <2>6
      <4>2. CASE a # x
        BY <4>2, <2>4
      <4> QED
        BY <4>1, <4>2
    <3> QED
      BY <3>1, <1>7 DEF Kept
  <2>8. StripeOK'
    <3>1. ASSUME NEW n \in Mappings, NEW t \in Slices, t \in stripe'[n]
          PROVE  /\ IsStriped(sl'[n][t]) /\ Arr(n, t)' \notin lost /\ Arr(n, t)' # NoArray
                 /\ \A u \in Slices : u \in stripe'[n] <=> Arr(n, u)' = Arr(n, t)'
      <4>1. CASE n = m
        <5>1. t \in got \cup {s} /\ Arr(n, t)' = x
          BY <4>1, <3>1, <2>2, <1>10
        <5>2. \A u \in Slices : u \in stripe'[n] <=> Arr(n, u)' = x
          BY <4>1, <2>2, <1>10
        <5> QED
          BY <4>1, <5>1, <5>2, <1>3, <1>4, <1>11, NoCfgFacts
      <4>2. CASE n # m
        <5>1. stripe'[n] = stripe[n]
          BY <4>2, <2>2
        <5>2. IsStriped(sl'[n][t]) => Arr(n, t)' \in Arrays
          BY DEF IsStriped, Arr
        <5> QED
          BY <5>1, <5>2, <3>1, <2>4, NoCfgFacts
      <4> QED
        BY <4>1, <4>2
    <3>2. ASSUME NEW n \in Mappings, NEW t \in Slices, IsStriped(sl'[n][t]), t \notin stripe'[n]
          PROVE  Arr(n, t)' \in lost
      <4>1. t \notin stripe[n]
        BY <3>2, <2>2, <1>3, <1>4
      <4>2. Arr(n, t)' # x
        BY <3>2, <2>2, <1>10
      <4> QED
        BY <4>1, <4>2, <3>2, <2>4
    <3> QED
      BY <3>1, <3>2, <2>1, <1>7, IdleFacts DEF StripeOK
  <2>9. RelOK' /\ LostOK'
    BY <1>1, <1>3, <1>7, <2>1, IdleFacts DEF Book, RelOK, LostOK
  <2>10. Book'
    BY <2>4, <2>7, <2>8, <2>9 DEF Book
  <2> QED
    BY <2>1, <2>3, <2>10, <1>5, CoreFrom, Phase, Parts
<1> QED
  BY <1>5, <1>12, <1>13 DEF StripedSetup

-----------------------------------------------------------------------------
(* What is freed *)

LEMMA FreeBook ==
    ASSUME Core, Book, NEW m \in Mappings, NEW s \in Slices, NEW fl, NEW a, NEW f,
           IsMapped(m, s), a = Arr(m, s), FreeDone(m, s, fl, a, f), rq.arr = NoArray,
           \A n \in Mappings : Up(n) /\ Up(n)'
    PROVE  /\ Base' /\ s # 0 /\ a \in Arrays
           /\ \A n \in Mappings, t \in Slices :
                 n # m \/ t # s => sl'[n][t] = sl[n][t] /\ Arr(n, t)' = Arr(n, t)
           /\ Arr(m, s)' \notin Arrays /\ ~IsStriped(sl'[m][s])
           /\ \A b \in Arrays \ lost : b # a =>
                 /\ b \in live' => \E n \in Mappings, t \in Slices : Holds(n, t, b)'
                 /\ \A p \in Segs : pin'[b][p] # 0 =>
                        \E n \in Mappings, t \in Slices : Holds(n, t, b)' /\ p \in sl'[n][t].pg
<1>1. /\ Becomes(m, s, Cleared(FALSE)) /\ f # 0
      /\ \A b \in Arrays, p \in Segs :
            pin'[b][p] = IF b = a /\ UnlocksNow(fl) /\ p \in sl[m][s].pg THEN 0 ELSE pin[b][p]
      /\ live' = IF ref[m][f] = 1 /\ KfreesNow(fl) THEN live \ {a} ELSE live
      /\ \A n \in Mappings, g \in Slices :
            n # m \/ g # f => ref'[n][g] = ref[n][g] /\ ptr'[n][g] = ptr[n][g]
  BY DEF FreeDone
<1>2. \A n \in Mappings, t \in Slices : n # m \/ t # s => sl'[n][t] = sl[n][t] /\ Arr(n, t)' = Arr(n, t)
  BY <1>1 DEF Becomes, Arr
<1>3. Arr(m, s)' \notin Arrays /\ ~IsStriped(sl'[m][s])
  <2>1. sl'[m][s] = Cleared(FALSE)
    BY <1>1 DEF Becomes
  <2> QED
    BY <2>1, ClearedFacts, NoCfgFacts DEF Arr, IsStriped
<1>4. a \in Arrays
  BY DEF IsMapped
<1>5. s # 0
  <2>1. Arr(m, 0) \notin Arrays
    BY ConstFacts DEF Book, Base, Arr
  <2> QED
    BY <2>1, <1>4
<1>6. Base'
  <2>1. \A n \in Mappings : sl'[n][0] = sl[n][0] /\ ref'[n][0] = ref[n][0] /\ ptr'[n][0] = ptr[n][0]
    BY <1>1, <1>2, <1>5, Sizes
  <2> QED
    BY <2>1 DEF Book, Base
<1>7. ASSUME NEW b \in Arrays \ lost, b # a
      PROVE  /\ b \in live' => \E n \in Mappings, t \in Slices : Holds(n, t, b)'
             /\ \A p \in Segs : pin'[b][p] # 0 =>
                    \E n \in Mappings, t \in Slices : Holds(n, t, b)' /\ p \in sl'[n][t].pg
  <2>1. b # rq.arr
    BY NoCfgFacts
  <2>2. /\ b \in live => \E n \in Mappings, t \in Slices : Holds(n, t, b)
        /\ \A p \in Segs : pin[b][p] # 0 =>
               \E n \in Mappings, t \in Slices : Holds(n, t, b) /\ p \in sl[n][t].pg
    BY <1>7, <2>1 DEF Book, Kept
  <2>3. ASSUME NEW n \in Mappings, NEW t \in Slices, Holds(n, t, b)
        PROVE  Holds(n, t, b)' /\ sl'[n][t] = sl[n][t]
    <3>1. n # m \/ t # s
      BY <2>3, <1>7 DEF Holds
    <3> QED
      BY <3>1, <2>3, <1>2 DEF Holds
  <2>4. b \in live' => b \in live
    BY <1>1
  <2>5. \A p \in Segs : pin'[b][p] = pin[b][p]
    BY <1>1, <1>7
  <2>6. b \in live' => \E n \in Mappings, t \in Slices : Holds(n, t, b)'
    BY <2>2, <2>3, <2>4
  <2>7. ASSUME NEW p \in Segs, pin'[b][p] # 0
        PROVE  \E n \in Mappings, t \in Slices : Holds(n, t, b)' /\ p \in sl'[n][t].pg
    <3>1. PICK n \in Mappings, t \in Slices : Holds(n, t, b) /\ p \in sl[n][t].pg
      BY <2>2, <2>5, <2>7
    <3> QED
      BY <3>1, <2>3
  <2> QED
    BY <2>6, <2>7
<1> QED
  BY <1>2, <1>3, <1>4, <1>5, <1>6, <1>7

\* The slice of an element that is freed next: its pages are put with the last slice of
\* the element, and its array is freed with the last one that refers to it.
LEMMA StripedSafe ==
    ASSUME Core, Book, NEW m \in Mappings, NEW s \in Slices, s \in stripe[m],
           NEW fl, UnlocksNow(fl) => stripe[m] = {s}, NEW a, a = Arr(m, s), NEW f, f = sl[m][s].idx
    PROVE  /\ IsStriped(sl[m][s]) /\ a \notin lost
           /\ \A t \in Slices : t \in stripe[m] <=> Arr(m, t) = a
           /\ IsMapped(m, s) /\ a \in Arrays /\ sl[m][s].exp = MaxDate
           /\ \A n \in Mappings, t \in Slices : Arr(n, t) = a =>
                  /\ n = m /\ t \in stripe[m] /\ sl[n][t].exp = MaxDate
                  /\ sl[n][t].pg = sl[m][s].pg /\ sl[n][t].idx = f
           /\ f \in Slices /\ s \in Users(m, f) /\ \A t \in Users(m, f) : Arr(m, t) = a
           /\ FreeSafe(m, s, fl, a, f)
<1>1. /\ IsStriped(sl[m][s]) /\ a \notin lost
      /\ \A t \in Slices : t \in stripe[m] <=> Arr(m, t) = a
  BY DEF Book, StripeOK
<1>2. IsMapped(m, s) /\ a \in Arrays /\ sl[m][s].exp = MaxDate
  BY <1>1 DEF IsStriped, IsMapped, Arr
<1>3. ASSUME NEW n \in Mappings, NEW t \in Slices, Arr(n, t) = a
      PROVE  n = m /\ t \in stripe[m] /\ sl[n][t].exp = MaxDate /\ sl[n][t].pg = sl[m][s].pg /\ sl[n][t].idx = f
  <2>1. Alike(m, sl[m][s], s, n, sl[n][t], t)
    BY <1>2, <1>3 DEF Core, Sames
  <2> QED
    BY <2>1, <1>1, <1>2, <1>3 DEF Alike
<1>4. f \in Slices /\ s \in Users(m, f) /\ \A t \in Users(m, f) : Arr(m, t) = a
  BY <1>2, MappedFacts DEF Core
<1>5. FreeSafe(m, s, fl, a, f)
  <2>1. ASSUME ref[m][f] = 1, NEW n \in Mappings, NEW t \in Slices, Arr(n, t) = a
        PROVE  n = m /\ t = s
    <3>1. n = m /\ sl[m][t].idx = f /\ IsMapped(m, t)
      BY <1>2, <1>3, <2>1 DEF IsMapped
    <3>2. t \in Users(m, f)
      BY <3>1, MappedFacts DEF Core
    <3> QED
      BY <3>1, <3>2, <2>1, <1>4, RefFacts DEF Core
  <2> QED
    BY <2>1, <1>3 DEF FreeSafe
<1> QED
  BY <1>1, <1>2, <1>3, <1>4, <1>5

LEMMA FreeStripedStepI ==
    ASSUME Plain, RabI, HwI, NEW s \in Slices, FreeStripedStep(s)
    PROVE  RabI'
<1>1. Core /\ Book /\ Steps
  BY Parts
<1>2. /\ pc = "freestr" /\ s \in stripe[rq.m]
      /\ UNCHANGED <<pin, pc, rq, nreq, nswitch, released, lost>>
      /\ stripe' = [stripe EXCEPT ![rq.m] = stripe[rq.m] \ {s}]
  BY DEF FreeStripedStep, IsLeast
<1>3. /\ rq.arr = NoArray /\ rq.got = {} /\ rq.by \in {"free", "release", "reset"} /\ rq.m \in Mappings
      /\ rq.slice = 0 /\ (rq.by # "free" /\ rq.m = 1 => stripe[0] = {}) /\ rq \in ReqRec
  BY <1>1, <1>2 DEF Steps, FreeStrOK, Settled, Core, Types
<1>m. PICK m \in Mappings : m = rq.m
  BY <1>3
<1>4. PICK fl, a, f :
         /\ m = rq.m /\ fl = (IF stripe[rq.m] = {s} THEN {} ELSE {"striped"})
         /\ a = Arr(m, s) /\ f = sl[m][s].idx
  BY <1>m
<1>5. SliceFree(m, s, fl) /\ op.m = m /\ op.s = s /\ PagesPut(m, s, fl)
  <2>1. SliceFree(m, s, fl) /\ FreeFor(m, s, fl)
    BY <1>4 DEF FreeStripedStep, FreeFor, FreeStripedFlags
  <2> QED
    BY <2>1, AtFree DEF SliceFree
<1>6. /\ IsStriped(sl[m][s]) /\ a \notin lost
      /\ \A t \in Slices : t \in stripe[m] <=> Arr(m, t) = a
      /\ IsMapped(m, s) /\ a \in Arrays /\ sl[m][s].exp = MaxDate
      /\ \A n \in Mappings, t \in Slices : Arr(n, t) = a =>
             /\ n = m /\ t \in stripe[m] /\ sl[n][t].exp = MaxDate
             /\ sl[n][t].pg = sl[m][s].pg /\ sl[n][t].idx = f
      /\ f \in Slices /\ s \in Users(m, f) /\ \A t \in Users(m, f) : Arr(m, t) = a
      /\ FreeSafe(m, s, fl, a, f)
  <2>1. /\ Core /\ Book /\ s \in stripe[m] /\ a = Arr(m, s) /\ f = sl[m][s].idx
    BY <1>1, <1>2, <1>4
  <2>2. UnlocksNow(fl) => stripe[m] = {s}
    BY <1>4 DEF UnlocksNow
  <2> QED
    BY <2>1, <2>2, StripedSafe
<1>11. CoreNext /\ FreeDone(m, s, fl, a, f)
  BY <1>1, <1>2, <1>4, <1>5, <1>6, FreeMapped
<1>12. \A n \in Mappings : Up(n) /\ Up(n)'
  BY <1>2, <1>3 DEF Up
<1>13. /\ Base' /\ s # 0
       /\ \A n \in Mappings, t \in Slices :
             n # m \/ t # s => sl'[n][t] = sl[n][t] /\ Arr(n, t)' = Arr(n, t)
       /\ Arr(m, s)' \notin Arrays /\ ~IsStriped(sl'[m][s])
       /\ \A b \in Arrays \ lost : b # a =>
             /\ b \in live' => \E n \in Mappings, t \in Slices : Holds(n, t, b)'
             /\ \A p \in Segs : pin'[b][p] # 0 =>
                    \E n \in Mappings, t \in Slices : Holds(n, t, b)' /\ p \in sl'[n][t].pg
  BY <1>1, <1>3, <1>4, <1>6, <1>11, <1>12, FreeBook
<1>14. /\ a \in live' => \E n \in Mappings, t \in Slices : Holds(n, t, a)'
       /\ \A p \in Segs : pin'[a][p] # 0 =>
              \E n \in Mappings, t \in Slices : Holds(n, t, a)' /\ p \in sl'[n][t].pg
  <2>1. ASSUME NEW t \in Slices, t # s, Arr(m, t) = a
        PROVE  Holds(m, t, a)' /\ sl'[m][t].pg = sl[m][s].pg
    <3>1. sl'[m][t] = sl[m][t] /\ Arr(m, t)' = a
      BY <2>1, <1>13
    <3> QED
      BY <3>1, <2>1, <1>6 DEF Holds
  <2>2. ASSUME a \in live' PROVE \E n \in Mappings, t \in Slices : Holds(n, t, a)'
    <3>1. ref[m][f] # 1
      <4>1. KfreesNow(fl)
        BY <1>4 DEF KfreesNow
      <4> QED
        BY <4>1, <2>2, <1>11 DEF FreeDone
    <3>2. PICK t \in Users(m, f) : t # s
      BY <3>1, <1>1, <1>6, RefFacts DEF Core
    <3>3. t \in Slices /\ Arr(m, t) = a
      BY <3>2, <1>6 DEF Users
    <3> QED
      BY <3>2, <3>3, <2>1
  <2>3. ASSUME NEW p \in Segs, pin'[a][p] # 0
        PROVE  \E n \in Mappings, t \in Slices : Holds(n, t, a)' /\ p \in sl'[n][t].pg
    <3>1. pin'[a][p] = IF UnlocksNow(fl) /\ p \in sl[m][s].pg THEN 0 ELSE pin[a][p]
      BY <1>6, <1>11 DEF FreeDone
    <3>2. pin[a][p] # 0 /\ ~(UnlocksNow(fl) /\ p \in sl[m][s].pg)
      BY <3>1, <2>3
    <3>3. a # rq.arr
      BY <1>3, <1>6, NoCfgFacts
    <3>4. PICK n \in Mappings, t \in Slices : Holds(n, t, a) /\ p \in sl[n][t].pg
      BY <3>2, <3>3, <1>1, <1>6 DEF Book, Kept
    <3>5. p \in sl[m][s].pg
      BY <3>4, <1>6 DEF Holds
    <3>6. stripe[m] # {s}
      BY <3>2, <3>5, <1>4 DEF UnlocksNow
    <3>7. PICK u \in Slices : u # s /\ u \in stripe[m]
      BY <3>6, <1>1, <1>2, <1>4 DEF Core, Types
    <3>8. Holds(m, u, a)' /\ p \in sl'[m][u].pg
      BY <3>5, <3>7, <2>1, <1>6
    <3> QED
      BY <3>8
  <2> QED
    BY <2>2, <2>3
<1>15. Kept'
  <2>1. ASSUME NEW b \in Arrays \ lost
        PROVE  /\ b \in live' => \E n \in Mappings, t \in Slices : Holds(n, t, b)'
               /\ \A p \in Segs : pin'[b][p] # 0 =>
                      \E n \in Mappings, t \in Slices : Holds(n, t, b)' /\ p \in sl'[n][t].pg
    <3>1. CASE b = a
      BY <3>1, <1>14
    <3>2. CASE b # a
      BY <3>2, <1>13
    <3> QED
      BY <3>1, <3>2
  <2> QED
    BY <2>1, <1>2 DEF Kept
<1>16. /\ stripe' \in [Mappings -> SUBSET Slices]
       /\ \A n \in Mappings : stripe'[n] = IF n = m THEN stripe[m] \ {s} ELSE stripe[n]
  <2>1. stripe' = [stripe EXCEPT ![m] = stripe[m] \ {s}]
    BY <1>2, <1>4
  <2> QED
    BY <2>1, <1>1 DEF Core, Types
<1>17. StripeOK'
  <2>1. ASSUME NEW n \in Mappings, NEW t \in Slices, t \in stripe'[n]
        PROVE  /\ IsStriped(sl'[n][t]) /\ Arr(n, t)' \notin lost /\ Arr(n, t)' # NoArray
               /\ \A u \in Slices : u \in stripe'[n] <=> Arr(n, u)' = Arr(n, t)'
    <3>1. t \in stripe[n] /\ (n # m \/ t # s)
      BY <2>1, <1>16
    <3>2. /\ IsStriped(sl[n][t]) /\ Arr(n, t) \notin lost
          /\ \A u \in Slices : u \in stripe[n] <=> Arr(n, u) = Arr(n, t)
      BY <3>1, <1>1 DEF Book, StripeOK
    <3>3. sl'[n][t] = sl[n][t] /\ Arr(n, t)' = Arr(n, t) /\ Arr(n, t) \in Arrays
      BY <3>1, <3>2, <1>13 DEF IsStriped, Arr
    <3>4. ASSUME NEW u \in Slices PROVE u \in stripe'[n] <=> Arr(n, u)' = Arr(n, t)'
      <4>1. CASE n = m /\ u = s
        BY <4>1, <3>3, <1>13, <1>16
      <4>2. CASE n # m \/ u # s
        <5>1. Arr(n, u)' = Arr(n, u) /\ (u \in stripe'[n] <=> u \in stripe[n])
          BY <4>2, <1>13, <1>16
        <5> QED
          BY <5>1, <3>2, <3>3
      <4> QED
        BY <4>1, <4>2
    <3> QED
      BY <3>2, <3>3, <3>4, NoCfgFacts
  <2>2. ASSUME NEW n \in Mappings, NEW t \in Slices, IsStriped(sl'[n][t]), t \notin stripe'[n]
        PROVE  Arr(n, t)' \in lost
    <3>1. n # m \/ t # s
      BY <2>2, <1>13
    <3>2. sl'[n][t] = sl[n][t] /\ Arr(n, t)' = Arr(n, t) /\ t \notin stripe[n]
      BY <3>1, <2>2, <1>13, <1>16
    <3>3. Arr(n, t) \in lost \/ Arr(n, t) = rq.arr
      BY <3>2, <2>2, <1>1 DEF Book, StripeOK
    <3>4. Arr(n, t) # rq.arr
      BY <3>2, <2>2, <1>3, NoCfgFacts DEF IsStriped, Arr
    <3> QED
      BY <3>2, <3>3, <3>4
  <2> QED
    BY <2>1, <2>2, <1>2, <1>3 DEF StripeOK
<1>18. RelOK' /\ LostOK'
  <2>1. OnlyLost => OnlyLost'
    <3>1. ASSUME OnlyLost, NEW n \in Mappings, NEW t \in Slices, Arr(n, t)' \in Arrays
          PROVE  Arr(n, t)' \in lost
      <4>1. n # m \/ t # s
        BY <3>1, <1>13
      <4>2. Arr(n, t)' = Arr(n, t)
        BY <4>1, <1>13
      <4> QED
        BY <4>2, <3>1 DEF OnlyLost, IsMapped
    <3> QED
      BY <3>1, <1>2 DEF OnlyLost, IsMapped
  <2> QED
    BY <2>1, <1>1, <1>2 DEF Book, RelOK, LostOK
<1>19. Rest'
  BY <1>1, <1>2, <1>16 DEF Rest, Core, Types
<1>20. FreeStrOK'
  <2>1. rq.by # "free" /\ rq.m = 1 => stripe'[0] = {}
    BY <1>3, <1>4, <1>16 DEF Mappings
  <2> QED
    BY <2>1, <1>2, <1>3 DEF FreeStrOK, Settled
<1>21. Steps'
  BY <1>2, <1>3, <1>20, Phase
<1> QED
  BY <1>11, <1>13, <1>15, <1>17, <1>18, <1>19, <1>21, CoreFrom, Parts DEF Book

-----------------------------------------------------------------------------
(* pulp_rab_free *)

\* What its step knows.
LEMMA FreeNow ==
    ASSUME RabI, pc = "free"
    PROVE  /\ Core /\ Book
           /\ rq.arr = NoArray /\ rq.got = {} /\ rq.by \in {"free", "release", "reset"}
           /\ rq.m \in Mappings /\ rq.slice \in Slices /\ rq.cur \in Dates /\ rq.cur \in Nat
           /\ rq \in ReqRec
           /\ rq.by # "free" => rq.cur = MaxDate - 1 /\ \A n \in Mappings : stripe[n] = {}
           /\ \A n \in Mappings, t \in Slices :
                  (n < rq.m \/ (n = rq.m /\ t < rq.slice)) /\ IsMapped(n, t) => ~Due(sl[n][t].exp, rq.cur)
<1>1. Core /\ Book /\ Steps
  BY Parts
<1>2. rq \in ReqRec
  BY <1>1 DEF Core, Types
<1>3. rq.slice \in Slices /\ rq.cur \in Dates /\ rq.cur \in Nat
  BY <1>2, Sizes DEF ReqRec
<1> QED
  BY <1>1, <1>2, <1>3 DEF Steps, FreeOK, Settled

\* A slice of a user page is freed when it has expired, and no other one is.
LEMMA FreeChecks ==
    ASSUME RabI, pc = "free", NEW fl
    PROVE  /\ IsMapped(rq.m, rq.slice) =>
                 (SliceCheck(rq.m, rq.slice, fl, rq.cur) <=> Due(sl[rq.m][rq.slice].exp, rq.cur))
           /\ SliceCheck(rq.m, rq.slice, fl, rq.cur) =>
                 \/ IsClear(sl[rq.m][rq.slice], rq.slice)
                 \/ IsUser(sl[rq.m][rq.slice])
<1>1. /\ Core /\ rq.m \in Mappings /\ rq.slice \in Slices /\ rq.cur \in Dates /\ rq.cur \in Nat
  BY FreeNow
<1>2. PICK m \in Mappings, s \in Slices : m = rq.m /\ s = rq.slice
  BY <1>1
<1>3. Form(sl[m][s], s) /\ sl[m][s].exp \in Nat
  BY <1>1, SliceTypes DEF Core, Forms
<1>4. IsMapped(m, s) => sl[m][s].fixed = FALSE
  BY <1>3, FormFacts DEF IsMapped, Arr
<1>5. ~Due(MaxDate, rq.cur)
  BY <1>1, Sizes DEF Due, Dates
<1>6. SliceCheck(m, s, fl, rq.cur) => Due(sl[m][s].exp, rq.cur)
  BY DEF SliceCheck, Due
<1>7. IsMapped(m, s) => (SliceCheck(m, s, fl, rq.cur) <=> Due(sl[m][s].exp, rq.cur))
  BY <1>4 DEF SliceCheck, Due
<1>8. SliceCheck(m, s, fl, rq.cur) => IsClear(sl[m][s], s) \/ IsUser(sl[m][s])
  <2>1. sl[m][s] = ConstSlice \/ IsStriped(sl[m][s]) => sl[m][s].exp = MaxDate
    BY ConstFacts DEF IsStriped
  <2> QED
    BY <2>1, <1>3, <1>5, <1>6 DEF Form
<1> QED
  BY <1>2, <1>7, <1>8

\* The next slice, the next mapping, or the end.
LEMMA Advancing ==
    ASSUME RabI, pc = "free", FreeAdvance
    PROVE  /\ rq'.arr = NoArray /\ rq'.got = {} /\ rq' \in ReqRec /\ pc' \in Pcs /\ released' \in BOOLEAN
           /\ \A n \in Mappings : Up(n) /\ Up(n)'
           /\ \/ /\ pc' = "free" /\ released' = released /\ rq'.by = rq.by /\ rq'.cur = rq.cur
                 /\ rq'.m \in Mappings
                 /\ \A n \in Mappings, t \in Slices :
                       n < rq'.m \/ (n = rq'.m /\ t < rq'.slice) =>
                           n < rq.m \/ (n = rq.m /\ t < rq.slice) \/ (n = rq.m /\ t = rq.slice)
              \/ /\ \A n \in Mappings, t \in Slices :
                       n < rq.m \/ (n = rq.m /\ t < rq.slice) \/ (n = rq.m /\ t = rq.slice)
                 /\ \/ /\ rq.by # "reset" /\ pc' = "idle" /\ rq' = Idle
                       /\ released' = (released \/ rq.by = "release")
                    \/ rq.by = "reset" /\ pc' = "reinit" /\ rq' = rq /\ released' = released
<1>1. /\ Core /\ Book
      /\ rq.arr = NoArray /\ rq.got = {} /\ rq.by \in {"free", "release", "reset"}
      /\ rq.m \in Mappings /\ rq.slice \in Slices /\ rq \in ReqRec
  BY FreeNow
<1>2. released \in BOOLEAN
  BY <1>1 DEF Core, Types
<1>3. \A n \in Mappings : Up(n)
  BY <1>1 DEF Up
<1>4. rq.slice \in Nat /\ NSlices \in Nat \ {0}
  BY <1>1, Sizes
<1>5. CASE rq.slice < NSlices - 1 /\ rq' = [rq EXCEPT !.slice = rq.slice + 1] /\ UNCHANGED <<pc, released>>
  <2>1. rq.slice + 1 \in Slices
    BY <1>4, <1>5 DEF Slices
  <2>2. /\ rq' \in ReqRec /\ rq'.arr = NoArray /\ rq'.got = {} /\ rq'.by = rq.by /\ rq'.cur = rq.cur
        /\ rq'.m = rq.m /\ rq'.slice = rq.slice + 1
    BY <2>1, <1>1, <1>5 DEF ReqRec
  <2>3. \A t \in Slices : t < rq.slice + 1 => t < rq.slice \/ t = rq.slice
    BY <1>4, Sizes
  <2> QED
    BY <2>2, <2>3, <1>1, <1>2, <1>3, <1>5 DEF Up, Pcs
<1>6. ASSUME rq.slice = NSlices - 1 PROVE \A t \in Slices : t < rq.slice \/ t = rq.slice
  BY <1>4, <1>6 DEF Slices
<1>7. CASE rq.slice = NSlices - 1 /\ rq.m = 0 /\ rq' = [rq EXCEPT !.slice = 0, !.m = 1] /\ UNCHANGED <<pc, released>>
  <2>1. /\ rq' \in ReqRec /\ rq'.arr = NoArray /\ rq'.got = {} /\ rq'.by = rq.by /\ rq'.cur = rq.cur
        /\ rq'.m = 1 /\ rq'.slice = 0
    BY <1>1, <1>7, Sizes DEF ReqRec
  <2>2. \A t \in Slices : ~(t < 0)
    BY Sizes
  <2>3. \A n \in Mappings : n < 1 => n = 0
    BY DEF Mappings
  <2> QED
    BY <2>1, <2>2, <2>3, <1>1, <1>2, <1>3, <1>6, <1>7 DEF Up, Pcs, Mappings
<1>8. ASSUME rq.slice = NSlices - 1, rq.m = 1
      PROVE  \A n \in Mappings, t \in Slices :
                 n < rq.m \/ (n = rq.m /\ t < rq.slice) \/ (n = rq.m /\ t = rq.slice)
  BY <1>6, <1>8 DEF Mappings
<1>9. CASE /\ rq.slice = NSlices - 1 /\ rq.m = 1 /\ rq.by # "reset"
           /\ Return /\ released' = (released \/ rq.by = "release")
  <2>1. pc' = "idle" /\ rq' = Idle
    BY <1>1, <1>9 DEF Return
  <2>2. \A n \in Mappings : Up(n)'
    BY <2>1, IdleFacts DEF Up
  <2>3. released' \in BOOLEAN
    BY <1>2, <1>9
  <2> QED
    BY <2>1, <2>2, <2>3, <1>3, <1>8, <1>9, IdleFacts DEF Pcs
<1>10. CASE /\ rq.slice = NSlices - 1 /\ rq.m = 1 /\ rq.by = "reset"
            /\ pc' = "reinit" /\ UNCHANGED <<rq, released>>
  BY <1>1, <1>2, <1>3, <1>8, <1>10 DEF Up, Pcs
<1> QED
  BY <1>5, <1>7, <1>9, <1>10 DEF FreeAdvance

\* When the slice has been treated, the next one, or the end, is reached.
LEMMA FreeGoesOn ==
    ASSUME Plain, RabI, pc = "free", FreeAdvance, CoreNext, Base', Kept', StripeOK',
           UNCHANGED <<stripe, nreq, nswitch, lost>>,
           \A n \in Mappings, t \in Slices :
               n # rq.m \/ t # rq.slice => sl'[n][t] = sl[n][t],
           NEW m \in Mappings, NEW s \in Slices, m = rq.m, s = rq.slice,
           Arr(m, s)' \in Arrays => sl'[m][s] = sl[m][s] /\ ~Due(sl[m][s].exp, rq.cur)
    PROVE  RabI'
<1>1. /\ Core /\ Book
      /\ rq.arr = NoArray /\ rq.got = {} /\ rq.by \in {"free", "release", "reset"}
      /\ rq.cur \in Nat
      /\ rq.by # "free" => rq.cur = MaxDate - 1 /\ \A n \in Mappings : stripe[n] = {}
      /\ \A n \in Mappings, t \in Slices :
             (n < m \/ (n = m /\ t < s)) /\ IsMapped(n, t) => ~Due(sl[n][t].exp, rq.cur)
  BY FreeNow
<1>2. /\ rq'.arr = NoArray /\ rq'.got = {} /\ rq' \in ReqRec /\ pc' \in Pcs /\ released' \in BOOLEAN
  BY Advancing
<1>3. Rest'
  BY <1>1, <1>2 DEF Rest, Core, Types
<1>4. Core'
  BY <1>3, CoreFrom
<1>5. \A n \in Mappings, t \in Slices : Arr(n, t)' \in Arrays => sl'[n][t] = sl[n][t]
  BY DEF Arr
<1>6. ASSUME NEW n \in Mappings, NEW t \in Slices, Arr(n, t)' \in Arrays,
             n < m \/ (n = m /\ t < s) \/ (n = m /\ t = s)
      PROVE  ~Due(sl'[n][t].exp, rq.cur)
  <2>1. sl'[n][t] = sl[n][t] /\ IsMapped(n, t)
    BY <1>5, <1>6 DEF IsMapped, Arr
  <2>2. CASE n = m /\ t = s
    BY <2>1, <2>2, <1>6
  <2>3. CASE n < m \/ (n = m /\ t < s)
    BY <2>1, <2>3, <1>1
  <2> QED
    BY <2>2, <2>3, <1>6
<1>7. OnlyLost => OnlyLost'
  <2>1. ASSUME OnlyLost, NEW n \in Mappings, NEW t \in Slices, Arr(n, t)' \in Arrays
        PROVE  Arr(n, t)' \in lost
    BY <2>1, <1>5 DEF OnlyLost, IsMapped, Arr
  <2> QED
    BY <2>1 DEF OnlyLost, IsMapped
<1>8. ASSUME rq.by # "free",
             \A n \in Mappings, t \in Slices : n < m \/ (n = m /\ t < s) \/ (n = m /\ t = s)
      PROVE  OnlyLost'
  <2>1. ASSUME NEW n \in Mappings, NEW t \in Slices, Arr(n, t)' \in Arrays
        PROVE  Arr(n, t)' \in lost
    <3>1. ~Due(sl'[n][t].exp, MaxDate - 1)
      BY <2>1, <1>1, <1>6, <1>8
    <3>2. ~IsUser(sl'[n][t])
      <4>1. \A x \in 1 .. MaxDate - 2 : Due(x, MaxDate - 1)
        BY Sizes DEF Due
      <4> QED
        BY <3>1, <4>1 DEF IsUser
    <3>3. Form(sl'[n][t], t)
      BY <1>4 DEF Core, Forms
    <3>4. IsStriped(sl'[n][t])
      BY <2>1, <3>2, <3>3, FormFacts DEF Arr
    <3>5. t \notin stripe'[n]
      BY <1>1, <1>8
    <3>6. Arr(n, t)' \in lost' \/ Arr(n, t)' = rq'.arr
      BY <3>4, <3>5 DEF StripeOK
    <3> QED
      BY <2>1, <3>6, <1>2, NoCfgFacts
  <2> QED
    BY <2>1 DEF OnlyLost, IsMapped
<1>9. LostOK'
  BY <1>1, <1>2, NoCfgFacts DEF Book, LostOK
<1>10. ASSUME released' => released \/ OnlyLost' PROVE Book'
  <2>1. RelOK'
    BY <1>1, <1>2, <1>7, <1>10, NoCfgFacts DEF Book, RelOK
  <2> QED
    BY <2>1, <1>9 DEF Book
<1>11. CASE /\ pc' = "free" /\ released' = released /\ rq'.by = rq.by /\ rq'.cur = rq.cur
            /\ rq'.m \in Mappings
            /\ \A n \in Mappings, t \in Slices :
                  n < rq'.m \/ (n = rq'.m /\ t < rq'.slice) =>
                      n < m \/ (n = m /\ t < s) \/ (n = m /\ t = s)
  <2>1. FreeOK'
    <3>1. \A n \in Mappings, t \in Slices :
             (n < rq'.m \/ (n = rq'.m /\ t < rq'.slice)) /\ Arr(n, t)' \in Arrays
                 => ~Due(sl'[n][t].exp, rq'.cur)
      BY <1>6, <1>11
    <3>2. Settled' /\ (rq'.by # "free" => rq'.cur = MaxDate - 1 /\ \A n \in Mappings : stripe'[n] = {})
      BY <1>1, <1>2, <1>11 DEF Settled
    <3> QED
      BY <3>1, <3>2, <1>1, <1>11 DEF FreeOK, IsMapped
  <2>2. Steps'
    BY <2>1, <1>1, <1>11, Phase
  <2> QED
    BY <2>2, <1>4, <1>10, <1>11, Parts
<1>12. CASE /\ \A n \in Mappings, t \in Slices : n < m \/ (n = m /\ t < s) \/ (n = m /\ t = s)
            /\ rq.by # "reset" /\ pc' = "idle" /\ rq' = Idle
            /\ released' = (released \/ rq.by = "release")
  <2>1. released' => released \/ OnlyLost'
    BY <1>8, <1>12
  <2> QED
    BY <2>1, <1>4, <1>10, <1>12, Phase, Parts
<1>13. CASE /\ \A n \in Mappings, t \in Slices : n < m \/ (n = m /\ t < s) \/ (n = m /\ t = s)
            /\ rq.by = "reset" /\ pc' = "reinit" /\ rq' = rq /\ released' = released
  <2>1. ReinitOK'
    BY <1>1, <1>2, <1>8, <1>13 DEF ReinitOK, Settled
  <2>2. Steps'
    BY <2>1, <1>13, Phase
  <2> QED
    BY <2>2, <1>4, <1>10, <1>13, Parts
<1> QED
  BY <1>11, <1>12, <1>13, Advancing

-----------------------------------------------------------------------------
\* A slice that has expired is freed; the other slices of its array have expired
\* with it, and those of mapping 0 have been freed already.
\* A slice of a RAB_REQ that is freed next: those of mapping 0 have gone before, so that
\* its pages can be put.
LEMMA UserSafe ==
    ASSUME RabI, pc = "free", NEW m \in Mappings, NEW s \in Slices, m = rq.m, s = rq.slice,
           NEW fl, fl = FreeFlags(m, s), IsUser(sl[m][s]), Due(sl[m][s].exp, rq.cur),
           NEW a, a = Arr(m, s), NEW f, f = sl[m][s].idx
    PROVE  /\ a \in Arrays /\ IsMapped(m, s) /\ a # NoArray /\ sl[m][s].exp # MaxDate
           /\ f \in Slices /\ s \in Users(m, f) /\ \A t \in Users(m, f) : Arr(m, t) = a
           /\ FreeSafe(m, s, fl, a, f)
           /\ IF m = 1 THEN UnlocksNow(fl) /\ KfreesNow(fl) ELSE ~UnlocksNow(fl) /\ ~KfreesNow(fl)
<1>2. /\ Core /\ Book
      /\ \A n \in Mappings, t \in Slices :
             (n < m \/ (n = m /\ t < s)) /\ IsMapped(n, t) => ~Due(sl[n][t].exp, rq.cur)
  BY FreeNow
<1>4. /\ a \in Arrays /\ IsMapped(m, s) /\ sl[m][s].exp # MaxDate /\ sl[m][s].fl = {"every"}
      /\ a # NoArray
  <2>1. MaxDate \notin 1 .. MaxDate - 2
    BY Sizes
  <2> QED
    BY <2>1, NoCfgFacts DEF IsUser, IsMapped, Arr
<1>5. IF m = 1 THEN UnlocksNow(fl) /\ KfreesNow(fl) ELSE ~UnlocksNow(fl) /\ ~KfreesNow(fl)
  BY <1>4 DEF FreeFlags, UnlocksNow, KfreesNow
<1>6. ASSUME NEW n \in Mappings, NEW t \in Slices, Arr(n, t) = a
      PROVE  /\ Alike(m, sl[m][s], s, n, sl[n][t], t) /\ IsUser(sl[n][t]) /\ IsMapped(n, t)
             /\ m = 1 => n = 1
  <2>1. Alike(m, sl[m][s], s, n, sl[n][t], t)
    BY <1>2, <1>4, <1>6 DEF Core, Sames
  <2>2. sl[n][t].exp = sl[m][s].exp /\ IsMapped(n, t)
    BY <2>1, <1>4, <1>6 DEF Alike, IsMapped
  <2>3. IsUser(sl[n][t])
    <3>1. IsUser(sl[n][t]) \/ IsStriped(sl[n][t])
      BY <2>2, <1>2, FormFacts DEF Core, Forms, IsMapped, Arr
    <3> QED
      BY <3>1, <2>2, <1>4 DEF IsStriped
  <2>4. m = 1 => n = 1
    <3>1. ~(n < m)
      BY <2>2, <1>2
    <3> QED
      BY <3>1 DEF Mappings
  <2> QED
    BY <2>1, <2>2, <2>3, <2>4
<1>7. f \in Slices /\ s \in Users(m, f) /\ \A t \in Users(m, f) : Arr(m, t) = a
  BY <1>2, <1>4, MappedFacts DEF Core
<1>8. FreeSafe(m, s, fl, a, f)
  <2>1. ASSUME m = 1, NEW n \in Mappings, NEW t \in Slices, Arr(n, t) = a, n # m \/ t # s
        PROVE  sl[n][t].pg \cap sl[m][s].pg = {}
    <3>1. n = m /\ t # s
      BY <2>1, <1>6
    <3>2. sl[m][t].pg # sl[m][s].pg
      BY <2>1, <3>1, <1>4, <1>6 DEF Alike
    <3>3. (\E i \in Segs : sl[m][t].pg = {i}) /\ (\E i \in Segs : sl[m][s].pg = {i})
      BY <2>1, <3>1, <1>6 DEF IsUser
    <3> QED
      BY <3>1, <3>2, <3>3
  <2>2. ASSUME m = 1, ref[m][f] = 1, NEW n \in Mappings, NEW t \in Slices, Arr(n, t) = a
        PROVE  n = m /\ t = s
    <3>1. n = m /\ sl[m][t].idx = f /\ IsMapped(m, t)
      BY <2>2, <1>6 DEF Alike
    <3>2. t \in Users(m, f)
      BY <3>1, <1>2, MappedFacts DEF Core
    <3> QED
      BY <3>1, <3>2, <2>2, <1>2, <1>7, RefFacts DEF Core
  <2> QED
    BY <2>1, <2>2, <1>5 DEF FreeSafe
<1> QED
  BY <1>4, <1>5, <1>7, <1>8

LEMMA FreeUserI ==
    ASSUME Plain, RabI, FreeStep, NEW m \in Mappings, NEW s \in Slices, m = rq.m, s = rq.slice,
           NEW fl, fl = FreeFlags(m, s), SliceFree(m, s, fl), op.m = m, op.s = s, PagesPut(m, s, fl),
           IsUser(sl[m][s]), Due(sl[m][s].exp, rq.cur)
    PROVE  RabI'
<1>1. /\ pc = "free" /\ FreeAdvance /\ UNCHANGED <<pin, stripe, nreq, nswitch, lost>>
  BY DEF FreeStep
<1>2. /\ Core /\ Book
      /\ rq.arr = NoArray /\ rq.cur \in Nat
      /\ \A n \in Mappings, t \in Slices :
             (n < m \/ (n = m /\ t < s)) /\ IsMapped(n, t) => ~Due(sl[n][t].exp, rq.cur)
  BY <1>1, FreeNow
<1>3. PICK a, f : a = Arr(m, s) /\ f = sl[m][s].idx
  OBVIOUS
<1>4. /\ a \in Arrays /\ IsMapped(m, s) /\ a # NoArray /\ sl[m][s].exp # MaxDate
      /\ f \in Slices /\ s \in Users(m, f) /\ \A t \in Users(m, f) : Arr(m, t) = a
      /\ FreeSafe(m, s, fl, a, f)
  BY <1>1, <1>3, UserSafe
<1>5. IF m = 1 THEN UnlocksNow(fl) /\ KfreesNow(fl) ELSE ~UnlocksNow(fl) /\ ~KfreesNow(fl)
  BY <1>1, UserSafe
<1>9. CoreNext /\ FreeDone(m, s, fl, a, f)
  BY <1>1, <1>2, <1>3, <1>4, FreeMapped
<1>10. rq'.arr = NoArray /\ \A n \in Mappings : Up(n) /\ Up(n)'
  BY <1>1, Advancing
<1>11. /\ Base' /\ s # 0
       /\ \A n \in Mappings, t \in Slices :
             n # m \/ t # s => sl'[n][t] = sl[n][t] /\ Arr(n, t)' = Arr(n, t)
       /\ Arr(m, s)' \notin Arrays /\ ~IsStriped(sl'[m][s])
       /\ \A b \in Arrays \ lost : b # a =>
             /\ b \in live' => \E n \in Mappings, t \in Slices : Holds(n, t, b)'
             /\ \A p \in Segs : pin'[b][p] # 0 =>
                    \E n \in Mappings, t \in Slices : Holds(n, t, b)' /\ p \in sl'[n][t].pg
  BY <1>2, <1>3, <1>4, <1>9, <1>10, FreeBook
<1>12. /\ \A p \in Segs :
             pin'[a][p] = IF UnlocksNow(fl) /\ p \in sl[m][s].pg THEN 0 ELSE pin[a][p]
       /\ live' = IF ref[m][f] = 1 /\ KfreesNow(fl) THEN live \ {a} ELSE live
  BY <1>4, <1>9 DEF FreeDone
<1>13. ASSUME NEW n \in Mappings, NEW t \in Slices, Holds(n, t, a), n # m \/ t # s
       PROVE  Holds(n, t, a)' /\ sl'[n][t] = sl[n][t]
  BY <1>11, <1>13 DEF Holds
<1>14. ASSUME a \notin lost
       PROVE  /\ a \in live' => \E n \in Mappings, t \in Slices : Holds(n, t, a)'
              /\ \A p \in Segs : pin'[a][p] # 0 =>
                     \E n \in Mappings, t \in Slices : Holds(n, t, a)' /\ p \in sl'[n][t].pg
  <2>1. /\ a \in live => \E n \in Mappings, t \in Slices : Holds(n, t, a)
        /\ \A p \in Segs : pin[a][p] # 0 =>
               \E n \in Mappings, t \in Slices : Holds(n, t, a) /\ p \in sl[n][t].pg
    BY <1>2, <1>4, <1>14 DEF Book, Kept
  <2>2. m = 0 => ~Holds(m, s, a)
    BY <1>4 DEF Holds
  <2>3. m = 0 \/ m = 1
    BY DEF Mappings
  <2>4. ASSUME a \in live' PROVE \E n \in Mappings, t \in Slices : Holds(n, t, a)'
    <3>1. CASE m = 0
      <4>1. a \in live
        BY <2>4, <1>12
      <4>2. PICK n \in Mappings, t \in Slices : Holds(n, t, a)
        BY <4>1, <2>1
      <4> QED
        BY <4>2, <3>1, <2>2, <1>13
    <3>2. CASE m = 1
      <4>1. ref[m][f] # 1
        BY <3>2, <2>4, <1>5, <1>12
      <4>2. PICK t \in Users(m, f) : t # s
        BY <4>1, <1>2, <1>4, RefFacts DEF Core
      <4>3. t \in Slices /\ Holds(m, t, a)
        BY <4>2, <3>2, <1>4 DEF Users, Holds
      <4> QED
        BY <4>2, <4>3, <1>13
    <3> QED
      BY <3>1, <3>2, <2>3
  <2>5. ASSUME NEW p \in Segs, pin'[a][p] # 0
        PROVE  \E n \in Mappings, t \in Slices : Holds(n, t, a)' /\ p \in sl'[n][t].pg
    <3>1. pin[a][p] # 0 /\ ~(UnlocksNow(fl) /\ p \in sl[m][s].pg)
      BY <2>5, <1>12
    <3>2. PICK n \in Mappings, t \in Slices : Holds(n, t, a) /\ p \in sl[n][t].pg
      BY <3>1, <2>1
    <3>3. n # m \/ t # s
      <4>1. CASE m = 0
        BY <4>1, <3>2, <2>2
      <4>2. CASE m = 1
        BY <4>2, <3>1, <3>2, <1>5
      <4> QED
        BY <4>1, <4>2, <2>3
    <3> QED
      BY <3>2, <3>3, <1>13
  <2> QED
    BY <2>4, <2>5
<1>15. Kept'
  <2>1. ASSUME NEW b \in Arrays \ lost
        PROVE  /\ b \in live' => \E n \in Mappings, t \in Slices : Holds(n, t, b)'
               /\ \A p \in Segs : pin'[b][p] # 0 =>
                      \E n \in Mappings, t \in Slices : Holds(n, t, b)' /\ p \in sl'[n][t].pg
    <3>1. CASE b = a
      BY <3>1, <2>1, <1>14
    <3>2. CASE b # a
      BY <3>2, <1>11
    <3> QED
      BY <3>1, <3>2
  <2> QED
    BY <2>1, <1>1 DEF Kept
<1>16. StripeOK'
  <2>1. s \notin stripe[m]
    <3>1. ~IsStriped(sl[m][s])
      BY <1>4 DEF IsStriped
    <3> QED
      BY <3>1, <1>2 DEF Book, StripeOK
  <2>2. ASSUME NEW n \in Mappings, NEW t \in Slices, t \in stripe[n]
        PROVE  /\ IsStriped(sl'[n][t]) /\ Arr(n, t)' \notin lost /\ Arr(n, t)' # NoArray
               /\ \A u \in Slices : u \in stripe[n] <=> Arr(n, u)' = Arr(n, t)'
    <3>1. /\ IsStriped(sl[n][t]) /\ Arr(n, t) \notin lost
          /\ \A u \in Slices : u \in stripe[n] <=> Arr(n, u) = Arr(n, t)
      BY <2>2, <1>2 DEF Book, StripeOK
    <3>2. sl'[n][t] = sl[n][t] /\ Arr(n, t)' = Arr(n, t) /\ Arr(n, t) \in Arrays
      BY <2>1, <2>2, <3>1, <1>11 DEF IsStriped, Arr
    <3>3. ASSUME NEW u \in Slices PROVE u \in stripe[n] <=> Arr(n, u)' = Arr(n, t)'
      <4>1. CASE n = m /\ u = s
        BY <4>1, <2>1, <3>2, <1>11
      <4>2. CASE n # m \/ u # s
        <5>1. Arr(n, u)' = Arr(n, u)
          BY <4>2, <1>11
        <5> QED
          BY <5>1, <3>1, <3>2
      <4> QED
        BY <4>1, <4>2
    <3> QED
      BY <3>1, <3>2, <3>3, NoCfgFacts
  <2>3. ASSUME NEW n \in Mappings, NEW t \in Slices, IsStriped(sl'[n][t]), t \notin stripe[n]
        PROVE  Arr(n, t)' \in lost
    <3>1. n # m \/ t # s
      BY <2>3, <1>11
    <3>2. sl'[n][t] = sl[n][t] /\ Arr(n, t)' = Arr(n, t)
      BY <3>1, <1>11
    <3>3. Arr(n, t) \in lost \/ Arr(n, t) = rq.arr
      BY <3>2, <2>3, <1>2 DEF Book, StripeOK
    <3>4. Arr(n, t) # rq.arr
      BY <3>2, <2>3, <1>2, NoCfgFacts DEF IsStriped, Arr
    <3> QED
      BY <3>2, <3>3, <3>4
  <2> QED
    BY <2>2, <2>3, <1>1, <1>10 DEF StripeOK
<1> QED
  BY <1>1, <1>9, <1>11, <1>15, <1>16, FreeGoesOn

LEMMA FreeStepI == ASSUME Plain, RabI, HwI, FreeStep PROVE RabI'
<1>1. /\ pc = "free" /\ FreeAdvance /\ UNCHANGED <<pin, stripe, nreq, nswitch, lost>>
  BY DEF FreeStep
<1>2. /\ Core /\ Book /\ rq.arr = NoArray /\ rq.m \in Mappings /\ rq.slice \in Slices
  BY <1>1, FreeNow
<1>ms. PICK m \in Mappings, s \in Slices : m = rq.m /\ s = rq.slice
  BY <1>2
<1>3. PICK fl : m = rq.m /\ s = rq.slice /\ fl = FreeFlags(m, s)
  BY <1>ms
<1>4. IF SliceCheck(m, s, fl, rq.cur) THEN SliceFree(m, s, fl)
                                      ELSE UNCHANGED <<sl, ptr, ref, op, live>>
  BY <1>3 DEF FreeStep, l1Vars
<1>op. SliceCheck(m, s, fl, rq.cur) => op.m = m /\ op.s = s /\ PagesPut(m, s, fl)
  <2>1. SliceCheck(m, s, fl, rq.cur) => FreeFor(m, s, fl)
    BY <1>1, <1>3 DEF FreeFor
  <2> QED
    BY <2>1, <1>4, AtFree DEF SliceFree
<1>5. /\ IsMapped(m, s) => (SliceCheck(m, s, fl, rq.cur) <=> Due(sl[m][s].exp, rq.cur))
      /\ SliceCheck(m, s, fl, rq.cur) => IsClear(sl[m][s], s) \/ IsUser(sl[m][s])
  BY <1>1, <1>3, FreeChecks
<1>6. rq'.arr = NoArray /\ \A n \in Mappings : Up(n) /\ Up(n)'
  BY <1>1, Advancing
<1>7. ASSUME CoreNext, UNCHANGED <<sl, ptr, ref, pin, live>>,
             IsMapped(m, s) => ~Due(sl[m][s].exp, rq.cur)
      PROVE  RabI'
  <2>1. Base'
    BY <1>2, <1>6, <1>7 DEF Book, Base
  <2>2. Kept'
    BY <1>1, <1>2, <1>6, <1>7 DEF Book, Kept, Holds, Arr
  <2>3. StripeOK'
    BY <1>1, <1>2, <1>6, <1>7 DEF Book, StripeOK, Arr
  <2>4. Arr(m, s)' \in Arrays => sl'[m][s] = sl[m][s] /\ ~Due(sl[m][s].exp, rq.cur)
    BY <1>7 DEF IsMapped, Arr
  <2> QED
    BY <2>1, <2>2, <2>3, <2>4, <1>1, <1>3, <1>7, FreeGoesOn
<1>8. CASE ~SliceCheck(m, s, fl, rq.cur)
  <2>1. CoreNext
    BY <1>1, <1>2, <1>4, <1>8, QuietCore
  <2> QED
    BY <2>1, <1>1, <1>4, <1>5, <1>7, <1>8
<1>9. CASE SliceCheck(m, s, fl, rq.cur) /\ IsClear(sl[m][s], s)
  <2>1. "const" \notin fl
    <3>1. sl[m][s].fl = {}
      BY <1>9, ClearedFacts DEF IsClear
    <3> QED
      BY <3>1, <1>3 DEF FreeFlags
  <2>2. ptr[m][0] = NoPages
    BY <1>2, <1>6 DEF Book, Base
  <2>3. sl' = sl /\ ref' = ref /\ ptr' = ptr /\ live' = live /\ CoreNext
    BY <2>1, <2>2, <1>1, <1>2, <1>4, <1>9, <1>op, FreeClear
  <2>4. ~IsMapped(m, s)
    BY <1>9, ClearedFacts, NoCfgFacts DEF IsClear, IsMapped, Arr
  <2> QED
    BY <2>3, <2>4, <1>1, <1>7
<1>10. CASE SliceCheck(m, s, fl, rq.cur) /\ IsUser(sl[m][s])
  <2>1. Due(sl[m][s].exp, rq.cur)
    BY <1>5, <1>10 DEF IsUser, IsMapped, Arr
  <2> QED
    BY <2>1, <1>3, <1>4, <1>10, <1>op, FreeUserI
<1> QED
  BY <1>5, <1>8, <1>9, <1>10

-----------------------------------------------------------------------------
(* What the ioctls share with the mailbox interrupt *)

\* The slice that pulp_rab_slice_free is at is cleared, or maps pages that it finds
\* through page_ptrs; what it may unlock, no other slice maps.
LEMMA FreeForFacts ==
    ASSUME RabI, NEW m, NEW s, NEW fl, FreeFor(m, s, fl)
    PROVE  /\ m \in Mappings /\ s \in Slices /\ fl \in SUBSET DrvFlags
           /\ IsClear(sl[m][s], s) \/ IsMapped(m, s)
           /\ Pages(m, s) # NoPages <=> IsMapped(m, s)
           /\ IsMapped(m, s) /\ UnlocksNow(fl) =>
                 /\ pc \in {"free", "freestr"}
                 /\ \A n \in Mappings, t \in Slices :
                       Arr(n, t) = Arr(m, s) /\ (n # m \/ t # s) => sl[n][t].pg \cap sl[m][s].pg = {}
<1>1. Core /\ Book /\ Steps
  BY Parts
<1>2. ASSUME m \in Mappings, s \in Slices, IsMapped(m, s) PROVE Pages(m, s) # NoPages
  <2>1. Pages(m, s) = Arr(m, s) /\ Arr(m, s) \in Arrays
    BY <1>1, <1>2 DEF Core, Owns, Pages, IsMapped
  <2> QED
    BY <2>1, Sizes DEF NoPages
<1>3. ASSUME m \in Mappings, s \in Slices, IsClear(sl[m][s], s), ptr[m][0] = NoPages
      PROVE  Pages(m, s) = NoPages /\ ~IsMapped(m, s)
  <2>1. sl[m][s].idx = 0 /\ sl[m][s].cfg = NoCfg
    BY <1>3, ClearedFacts DEF IsClear
  <2> QED
    BY <2>1, <1>3, NoCfgFacts DEF Pages, IsMapped, Arr
<1>4. ASSUME m \in Mappings, Up(m) PROVE ptr[m][0] = NoPages
  BY <1>1, <1>4 DEF Book, Base
<1>5. CASE pc = "reqfree" /\ m = rq.j /\ s = rq.slice /\ fl = rq.fl
  <2>1. CASE rq.by = "setup"
    <3>1. DrvReq
      BY <1>5, <2>1 DEF DrvReq, ReqPcs
    <3>2. /\ m \in Mappings /\ s = 0 /\ fl = {"const", "every", "fixed"}
          /\ \A t \in Slices : IsClear(sl[m][t], t) /\ ptr[m][t] = NoPages
      BY <1>5, <3>1, DrvNow
    <3> QED
      BY <3>2, <1>3, Sizes DEF DrvFlags
  <2>2. CASE rq.by # "setup"
    <3>1. UserReq
      BY <1>5, <2>2 DEF UserReq, ReqPcs
    <3>2. m \in Mappings /\ s \in Slices /\ fl = {"every"} /\ Up(m) /\ UserOK
      BY <1>5, <3>1, UserNow
    <3>3. IsClear(sl[m][s], s) \/ IsMapped(m, s)
      BY <1>5, <3>1, <3>2 DEF UserOK, IsClear, IsUser, IsMapped, Arr
    <3>4. fl \in SUBSET DrvFlags /\ ~UnlocksNow(fl)
      BY <3>2 DEF DrvFlags, UnlocksNow
    <3> QED
      BY <3>2, <3>3, <3>4, <1>2, <1>3, <1>4
  <2> QED
    BY <2>1, <2>2
<1>6. CASE pc = "strfree" /\ m = rq.m /\ s = rq.slice /\ fl = StripedFlags
  <2>1. StrReq
    BY <1>6 DEF StrReq, StrPcs
  <2>2. m \in Mappings /\ s \in Slices /\ Up(m) /\ sl[m][s] = Cleared(FALSE)
    BY <1>6, <2>1, StrNow
  <2>3. IsClear(sl[m][s], s)
    BY <2>2 DEF IsClear
  <2>4. fl \in SUBSET DrvFlags
    BY <1>6 DEF StripedFlags, DrvFlags
  <2> QED
    BY <2>2, <2>3, <2>4, <1>3, <1>4
<1>7. CASE /\ pc = "free" /\ m = rq.m /\ s = rq.slice /\ fl = FreeFlags(m, s)
           /\ SliceCheck(m, s, fl, rq.cur)
  <2>1. m \in Mappings /\ s \in Slices
    BY <1>7, FreeNow
  <2>2. Up(m)
    BY <1>7, <2>1, FreeNow DEF Up
  <2>3. fl \in SUBSET DrvFlags
    <3>1. sl[m][s].fl \in SUBSET DrvFlags
      BY <1>1, <2>1, SliceTypes DEF Core
    <3> QED
      BY <3>1, <1>7 DEF FreeFlags, DrvFlags
  <2>4. /\ IsMapped(m, s) => Due(sl[m][s].exp, rq.cur)
        /\ IsClear(sl[m][s], s) \/ IsUser(sl[m][s])
    BY <1>7, FreeChecks
  <2>5. CASE IsClear(sl[m][s], s)
    BY <2>1, <2>2, <2>3, <2>5, <1>3, <1>4
  <2>6. CASE IsUser(sl[m][s])
    <3>1. IsMapped(m, s)
      BY <2>6 DEF IsUser, IsMapped, Arr
    <3>2. PICK a, f : a = Arr(m, s) /\ f = sl[m][s].idx
      OBVIOUS
    <3>3. FreeSafe(m, s, fl, a, f)
      BY <1>7, <2>1, <2>4, <2>6, <3>1, <3>2, UserSafe
    <3> QED
      BY <3>1, <3>2, <3>3, <2>1, <2>3, <1>2, <1>7 DEF FreeSafe
  <2> QED
    BY <2>4, <2>5, <2>6
<1>8. CASE pc = "freestr" /\ m = rq.m /\ IsLeast(s, stripe[m]) /\ fl = FreeStripedFlags(s)
  <2>1. m \in Mappings /\ s \in stripe[m] /\ s \in Slices
    BY <1>1, <1>8 DEF Steps, FreeStrOK, Core, Types, IsLeast
  <2>2. fl \in SUBSET DrvFlags /\ (UnlocksNow(fl) => stripe[m] = {s})
    BY <1>8 DEF FreeStripedFlags, DrvFlags, UnlocksNow
  <2>3. PICK a, f : a = Arr(m, s) /\ f = sl[m][s].idx
    OBVIOUS
  <2>4. IsMapped(m, s) /\ FreeSafe(m, s, fl, a, f)
    BY <2>1, <2>2, <2>3, <1>1, StripedSafe
  <2> QED
    BY <2>1, <2>2, <2>3, <2>4, <1>2, <1>8 DEF FreeSafe
<1> QED
  BY <1>5, <1>6, <1>7, <1>8 DEF FreeFor

\* Neither the put of the pages nor a switch changes what it is at.
LEMMA FreeForSame ==
    ASSUME UNCHANGED <<sl, stripe, pc, rq>>, NEW m, NEW s, NEW fl
    PROVE  FreeFor(m, s, fl)' <=> FreeFor(m, s, fl)
<1>1. SliceCheck(m, s, fl, rq.cur)' <=> SliceCheck(m, s, fl, rq.cur)
  BY DEF SliceCheck
<1>2. FreeFlags(m, s)' = FreeFlags(m, s) /\ StripedFlags' = StripedFlags
      /\ FreeStripedFlags(s)' = FreeStripedFlags(s)
  BY DEF FreeFlags, StripedFlags, FreeStripedFlags
<1>3. IsLeast(s, stripe[m])' <=> IsLeast(s, stripe[m])
  BY DEF IsLeast
<1> QED
  BY <1>1, <1>2, <1>3 DEF FreeFor

\* No slice operation is in progress.
LEMMA NoOpFacts ==
    /\ NoOp.at = "none" /\ NoOp.m = 0 /\ NoOp.s = 0 /\ ~NoOp.off /\ ~NoOp.put /\ NoOp.cfg = NoCfg
    /\ NoOp \in [at : {"none", "free", "test", "write"}, m : Mappings, s : Slices,
                 off : BOOLEAN, put : BOOLEAN, cfg : CfgSet]
BY Sizes, NoCfgFacts DEF NoOp, Mappings

LEMMA HwInit == ASSUME RabInit PROVE HwI
<1>1. /\ hw = [s \in Slices |-> NoCfg] /\ mapping_active = 0 /\ switching = FALSE
      /\ op = NoOp /\ torn = {}
  BY DEF RabInit
<1>2. HwTypes
  BY <1>1, NoOpFacts, NoCfgFacts DEF HwTypes, Mappings
<1>3. HwIs
  BY <1>1 DEF HwIs, Translates
<1> QED
  BY <1>1, <1>2, <1>3, NoOpFacts DEF HwI, FreeOpOK, SetOpOK, AloneOK

\* Steps of the ioctls between the slice operations.
LEMMA HwQuiet ==
    ASSUME HwI, op = NoOp, UNCHANGED <<sl, hw, mapping_active, switching, op, torn>>
    PROVE  HwI'
<1>1. HwTypes' /\ HwIs'
  BY DEF HwI, HwTypes, HwIs, HwMap, Translates
<1>2. op' = NoOp
  OBVIOUS
<1> QED
  BY <1>1, <1>2, NoOpFacts DEF HwI, FreeOpOK, SetOpOK, AloneOK

LEMMA HwReinit == ASSUME HwI, op = NoOp, Reinit PROVE HwI'
<1>1. /\ hw' = [s \in Slices |-> NoCfg] /\ mapping_active' = 0 /\ switching' = switching
      /\ op' = op /\ torn' = (IF switching THEN Slices ELSE {})
  BY DEF Reinit
<1>2. HwTypes'
  BY <1>1, NoCfgFacts DEF HwI, HwTypes, Mappings
<1>3. HwIs'
  BY <1>1, <1>2 DEF HwIs, Translates, HwTypes
<1>4. op' = NoOp
  BY <1>1
<1> QED
  BY <1>2, <1>3, <1>4, NoOpFacts DEF HwI, FreeOpOK, SetOpOK, AloneOK

\* The end of pulp_rab_slice_free: but for a slice a switch was at, the hardware slice
\* is off by now if its mapping is the active one.
LEMMA HwFreed ==
    ASSUME RabI, HwI, NEW m, NEW s, NEW fl, FreeFor(m, s, fl), SliceFree(m, s, fl),
           UNCHANGED <<hw, mapping_active, switching, torn>>
    PROVE  HwI'
<1>1. op.at = "free" /\ ~op.off /\ op' = NoOp /\ sl' = [sl EXCEPT ![m][s] = Cleared(sl[m][s].fixed)]
  BY DEF SliceFree
<1>2. op.m = m /\ op.s = s
  BY <1>1, AtFree
<1>3. m \in Mappings /\ s \in Slices /\ (IsClear(sl[m][s], s) \/ IsMapped(m, s))
  BY FreeForFacts
<1>4. HwTypes' /\ HwMap' = HwMap /\ HwMap \in Mappings
  BY <1>1, NoOpFacts DEF HwI, HwTypes, HwMap, Mappings
<1>5. sl'[m][s].cfg = NoCfg
  <2>1. Types
    BY DEF RabI
  <2>2. sl[m][s].fixed \in BOOLEAN
    BY <2>1, <1>3, SliceTypes
  <2>3. sl'[m][s] = Cleared(sl[m][s].fixed)
    BY <2>1, <1>1, <1>3 DEF Types
  <2> QED
    BY <2>2, <2>3, ClearedFacts
<1>6. \A n \in Mappings, t \in Slices : n # m \/ t # s => sl'[n][t] = sl[n][t]
  BY <1>1, <1>3 DEF RabI, Types
<1>7. ASSUME NEW t \in Slices \ torn PROVE Translates(t, sl[HwMap][t].cfg)'
  <2>1. Translates(t, sl[HwMap][t].cfg)
    BY <1>7 DEF HwI, HwIs
  <2>2. CASE HwMap # m \/ t # s
    BY <2>1, <2>2, <1>4, <1>6, <1>7 DEF Translates
  <2>3. CASE HwMap = m /\ t = s
    <3>1. hw[s] = NoCfg
      <4>1. CASE IsClear(sl[m][s], s)
        <5>1. sl[m][s].cfg = NoCfg
          BY <4>1, ClearedFacts DEF IsClear
        <5> QED
          BY <5>1, <2>1, <2>3 DEF Translates
      <4>2. CASE IsMapped(m, s)
        <5>1. ~switching /\ (mapping_active = m => hw[s] = NoCfg)
          BY <4>2, <1>1, <1>2, <1>7, <2>3 DEF HwI, AloneOK
        <5> QED
          BY <5>1, <2>3 DEF HwMap
      <4> QED
        BY <4>1, <4>2, <1>3
    <3> QED
      BY <3>1, <2>3 DEF Translates
  <2> QED
    BY <2>2, <2>3
<1>8. HwIs'
  BY <1>7 DEF HwIs
<1> QED
  BY <1>1, <1>4, <1>8, NoOpFacts DEF HwI, FreeOpOK, SetOpOK, AloneOK

\* The beginning of pulp_rab_slice_setup, on a cleared slice.
LEMMA HwSet ==
    ASSUME RabI, HwI, NEW m \in Mappings, NEW s \in Slices, NEW r \in SliceRec, NEW a,
           IsClear(sl[m][s], s), SliceSetup(m, s, r, a, FALSE),
           UNCHANGED <<hw, mapping_active, switching>>
    PROVE  HwI'
<1>1. /\ op = NoOp /\ sl' = [sl EXCEPT ![m][s] = r]
      /\ op' = [NoOp EXCEPT !.at = "test", !.m = m, !.s = s, !.cfg = r.cfg]
      /\ torn' = IF switching THEN torn \cup {s} ELSE torn
  BY DEF SliceSetup, Overlapped
<1>2. op'.at = "test" /\ op'.m = m /\ op'.s = s /\ op'.cfg = r.cfg
  BY <1>1 DEF NoOp
<1>3. HwTypes' /\ HwMap' = HwMap /\ HwMap \in Mappings
  <2>1. r.cfg \in CfgSet
    BY DEF SliceRec
  <2>2. op' \in [at : {"none", "free", "test", "write"}, m : Mappings, s : Slices,
                 off : BOOLEAN, put : BOOLEAN, cfg : CfgSet]
    BY <2>1, <1>1, NoOpFacts
  <2>3. torn' \in SUBSET Slices
    BY <1>1 DEF HwI, HwTypes
  <2> QED
    BY <2>2, <2>3 DEF HwI, HwTypes, HwMap, Mappings
<1>4. Becomes(m, s, r)
  BY <1>1, Becoming DEF RabI
<1>5. ASSUME NEW t \in Slices \ torn' PROVE Translates(t, sl[HwMap][t].cfg)'
  <2>1. Translates(t, sl[HwMap][t].cfg)
    BY <1>1, <1>5 DEF HwI, HwIs
  <2>2. CASE HwMap # m \/ t # s
    BY <2>1, <2>2, <1>3, <1>4, <1>5 DEF Translates, Becomes
  <2>3. CASE HwMap = m /\ t = s
    <3>1. sl[m][s].cfg = NoCfg
      BY ClearedFacts DEF IsClear
    <3> QED
      BY <3>1, <2>1, <2>3 DEF Translates
  <2> QED
    BY <2>2, <2>3
<1>6. SetOpOK' /\ FreeOpOK'
  BY <1>2, <1>4 DEF SetOpOK, FreeOpOK, Becomes
<1>7. AloneOK'
  BY <1>1, <1>2 DEF AloneOK
<1> QED
  BY <1>3, <1>5, <1>6, <1>7 DEF HwI, HwIs

\* The other steps leave the slices alone, and so what op says of them.
HwSame == UNCHANGED <<sl, ptr, ref, stripe, live, pc, rq, nreq, released, lost>>

LEMMA FreeOpSame ==
    ASSUME HwI, HwSame, pin' = pin, op'.at = op.at, op'.m = op.m, op'.s = op.s, op'.put = op.put,
           op'.cfg = op.cfg
    PROVE  FreeOpOK' /\ SetOpOK'
<1>1. FreeOpOK'
  <2>1. ASSUME op'.at = "free"
        PROVE  \E fl \in SUBSET DrvFlags :
                  /\ FreeFor(op.m, op.s, fl)'
                  /\ op'.put => UnlocksNow(fl) /\ Pages(op.m, op.s)' # NoPages
                  /\ ~op'.put => PagesPut(op.m, op.s, fl)'
    <3>1. PICK fl \in SUBSET DrvFlags :
             /\ FreeFor(op.m, op.s, fl)
             /\ op.put => UnlocksNow(fl) /\ Pages(op.m, op.s) # NoPages
             /\ ~op.put => PagesPut(op.m, op.s, fl)
      BY <2>1 DEF HwI, FreeOpOK
    <3>2. FreeFor(op.m, op.s, fl)'
      <4>1. FreeFor(op.m, op.s, fl)' <=> FreeFor(op.m, op.s, fl)
        <5>1. PICK m, s : m = op.m /\ s = op.s
          OBVIOUS
        <5>2. FreeFor(m, s, fl)' <=> FreeFor(m, s, fl)
          BY FreeForSame DEF HwSame
        <5> QED
          BY <5>1, <5>2 DEF FreeFor, FreeFlags, StripedFlags, FreeStripedFlags, SliceCheck, IsLeast
      <4> QED
        BY <4>1, <3>1
    <3>3. Pages(op.m, op.s)' = Pages(op.m, op.s) /\ (PagesPut(op.m, op.s, fl)' <=> PagesPut(op.m, op.s, fl))
      BY DEF HwSame, Pages, PagesPut, IsMapped, Arr
    <3> QED
      BY <3>1, <3>2, <3>3
  <2> QED
    BY <2>1 DEF FreeOpOK
<1>2. SetOpOK'
  BY DEF HwI, HwSame, SetOpOK
<1> QED
  BY <1>1, <1>2


\* What pulp_rab_slice_free is at, when the slice is known by its numbers.
LEMMA FreeOpFrom ==
    ASSUME NEW m, NEW s, NEW fl \in SUBSET DrvFlags, op'.m = m, op'.s = s, FreeFor(m, s, fl)',
           op'.put => UnlocksNow(fl) /\ Pages(m, s)' # NoPages,
           ~op'.put => PagesPut(m, s, fl)'
    PROVE  FreeOpOK'
<1>1. FreeFor(op.m, op.s, fl)'
  BY DEF FreeFor, FreeFlags, StripedFlags, FreeStripedFlags, SliceCheck, IsLeast
<1>2. Pages(op.m, op.s)' = Pages(m, s)'
  BY DEF Pages
<1>3. ~op'.put => PagesPut(op.m, op.s, fl)'
  BY DEF PagesPut, IsMapped, Arr
<1> QED
  BY <1>1, <1>2, <1>3 DEF FreeOpOK

\* The test for the active mapping, and what it says about the slice.
LEMMA HwTest ==
    ASSUME RabI, HwI, HwSame, NEW m, NEW s, NEW fl, FreeFor(m, s, fl), SliceTest(m, s, fl),
           UNCHANGED <<hw, mapping_active, switching, pin>>
    PROVE  HwI'
<1>1. /\ op' = [NoOp EXCEPT !.at = "free", !.m = m, !.s = s, !.off = HwOff(m, s, fl),
                            !.put = Pages(m, s) # NoPages /\ UnlocksNow(fl)]
      /\ torn' = IF switching THEN torn \cup {s} ELSE torn
  BY DEF SliceTest, Overlapped
<1>2. /\ m \in Mappings /\ s \in Slices /\ fl \in SUBSET DrvFlags
      /\ Pages(m, s) # NoPages <=> IsMapped(m, s)
  BY FreeForFacts
<1>3. PICK off \in BOOLEAN, put \in BOOLEAN :
         off = HwOff(m, s, fl) /\ put = (Pages(m, s) # NoPages /\ UnlocksNow(fl))
  BY DEF HwOff
<1>4. op'.at = "free" /\ op'.m = m /\ op'.s = s /\ op'.off = off /\ op'.put = put
  BY <1>1, <1>3 DEF NoOp
<1>5. HwTypes' /\ HwMap' = HwMap
  <2>1. op' = [NoOp EXCEPT !.at = "free", !.m = m, !.s = s, !.off = off, !.put = put]
    BY <1>1, <1>3
  <2>2. op' \in [at : {"none", "free", "test", "write"}, m : Mappings, s : Slices,
                 off : BOOLEAN, put : BOOLEAN, cfg : CfgSet]
    BY <2>1, <1>2, NoOpFacts
  <2>3. torn' \in SUBSET Slices
    BY <1>1, <1>2 DEF HwI, HwTypes
  <2> QED
    BY <2>2, <2>3 DEF HwI, HwTypes, HwMap
<1>6. HwIs'
  BY <1>1, <1>5 DEF HwI, HwIs, Translates, HwSame
<1>7. FreeOpOK'
  <2>1. FreeFor(m, s, fl)'
    BY FreeForSame DEF HwSame
  <2>2. put => UnlocksNow(fl) /\ Pages(m, s)' # NoPages
    BY <1>3 DEF Pages, HwSame
  <2>3. ~put => PagesPut(m, s, fl)'
    BY <1>2, <1>3 DEF PagesPut, HwSame, IsMapped, Arr
  <2> QED
    BY <2>1, <2>2, <2>3, <1>2, <1>4, FreeOpFrom
<1>8. AloneOK'
  <2>1. ASSUME s \notin torn' PROVE ~switching'
    BY <2>1, <1>1
  <2>2. IsMapped(m, s)' /\ mapping_active' = m => off
    BY <1>2, <1>3 DEF HwSame, HwOff, IsMapped, Arr
  <2> QED
    BY <2>1, <2>2, <1>4 DEF AloneOK
<1>9. SetOpOK'
  BY <1>4 DEF SetOpOK
<1> QED
  BY <1>5, <1>6, <1>7, <1>8, <1>9 DEF HwI

\* The write that turns the slice off.
LEMMA HwTurnsOff == ASSUME HwI, HwSame, SliceOff, UNCHANGED <<mapping_active, switching>> PROVE HwI'
<1>1. /\ op.at = "free" /\ op.off /\ hw' = [hw EXCEPT ![op.s] = NoCfg] /\ pin' = pin
      /\ op' = [op EXCEPT !.off = FALSE]
      /\ torn' = IF ~switching THEN torn \ {op.s} ELSE torn
  BY DEF SliceOff, Settles
<1>2. HwTypes /\ op.s \in Slices
  BY DEF HwI, HwTypes
<1>3. op'.at = "free" /\ op'.m = op.m /\ op'.s = op.s /\ op'.put = op.put /\ op'.cfg = op.cfg /\ ~op'.off
  BY <1>1, <1>2 DEF HwTypes
<1>4. HwTypes' /\ HwMap' = HwMap
  <2>1. op' \in [at : {"none", "free", "test", "write"}, m : Mappings, s : Slices,
                 off : BOOLEAN, put : BOOLEAN, cfg : CfgSet]
    BY <1>1, <1>2 DEF HwTypes
  <2>2. hw' \in [Slices -> CfgSet]
    BY <1>1, <1>2, NoCfgFacts DEF HwTypes
  <2> QED
    BY <2>1, <2>2, <1>1, <1>2 DEF HwTypes, HwMap
<1>5. hw'[op.s] = NoCfg /\ \A t \in Slices : t # op.s => hw'[t] = hw[t]
  BY <1>1, <1>2 DEF HwTypes
<1>6. HwIs'
  <2>1. ASSUME NEW t \in Slices \ torn' PROVE Translates(t, sl[HwMap][t].cfg)'
    <3>1. CASE t = op.s
      BY <3>1, <1>5 DEF Translates
    <3>2. CASE t # op.s
      <4>1. Translates(t, sl[HwMap][t].cfg)
        BY <3>2, <2>1, <1>1 DEF HwI, HwIs
      <4> QED
        BY <4>1, <3>2, <1>4, <1>5 DEF Translates, HwSame
    <3> QED
      BY <3>1, <3>2
  <2> QED
    BY <2>1 DEF HwIs
<1>7. AloneOK'
  <2>1. ASSUME op.s \notin torn' PROVE ~switching
    BY <2>1, <1>1 DEF HwI, AloneOK
  <2> QED
    BY <2>1, <1>3, <1>5 DEF AloneOK
<1>8. FreeOpOK' /\ SetOpOK'
  BY <1>1, <1>3, FreeOpSame
<1> QED
  BY <1>4, <1>6, <1>7, <1>8 DEF HwI

\* The put of the pages; the slice maps them alone.
LEMMA PutEffect ==
    ASSUME RabI, HwI, SlicePut, NEW m, m = op.m, NEW s, s = op.s, NEW a, a = Arr(m, s)
    PROVE  /\ m \in Mappings /\ s \in Slices /\ a \in Arrays /\ pc \in {"free", "freestr"}
           /\ op.at = "free" /\ ~op.off /\ op.put
           /\ op'.at = "free" /\ ~op'.off /\ ~op'.put /\ op'.m = m /\ op'.s = s /\ op'.cfg = op.cfg
           /\ pin' \in [Arrays -> [Segs -> 0 .. 1]]
           /\ \A b \in Arrays, p \in Segs :
                 pin'[b][p] = IF b = a /\ p \in sl[m][s].pg THEN 0 ELSE pin[b][p]
           /\ \A n \in Mappings, t \in Slices :
                 Arr(n, t) = a /\ (n # m \/ t # s) => sl[n][t].pg \cap sl[m][s].pg = {}
<1>1. /\ op.at = "free" /\ ~op.off /\ op.put /\ op' = [op EXCEPT !.put = FALSE]
      /\ pin' = [pin EXCEPT ![Pages(m, s)] = [p \in Segs |->
                    IF p \in sl[m][s].pg THEN pin[Pages(m, s)][p] - 1 ELSE pin[Pages(m, s)][p]]]
  BY DEF SlicePut, PutPages
<1>2. PICK fl \in SUBSET DrvFlags : FreeFor(m, s, fl) /\ UnlocksNow(fl) /\ Pages(m, s) # NoPages
  BY <1>1 DEF HwI, FreeOpOK
<1>3. /\ m \in Mappings /\ s \in Slices /\ IsMapped(m, s) /\ pc \in {"free", "freestr"}
      /\ \A n \in Mappings, t \in Slices :
            Arr(n, t) = a /\ (n # m \/ t # s) => sl[n][t].pg \cap sl[m][s].pg = {}
  BY <1>2, FreeForFacts
<1>4. op'.at = "free" /\ ~op'.off /\ ~op'.put /\ op'.m = m /\ op'.s = s /\ op'.cfg = op.cfg
  BY <1>1 DEF HwI, HwTypes
<1>5. a \in Arrays /\ Pages(m, s) = a /\ \A p \in sl[m][s].pg : pin[a][p] = 1
  <2>1. ~HasPut(m, s)
    BY <1>1 DEF HasPut
  <2> QED
    BY <2>1, <1>3 DEF RabI, Owns, Pages, IsMapped
<1>6. pin \in [Arrays -> [Segs -> 0 .. 1]] /\ sl[m][s].pg \in SUBSET Segs
  <2>1. Types
    BY DEF RabI
  <2> QED
    BY <2>1, <1>3, SliceTypes DEF Types
<1>7. pin' = [pin EXCEPT ![a] = [p \in Segs |-> IF p \in sl[m][s].pg THEN 0 ELSE pin[a][p]]]
  <2>1. \A p \in Segs : p \in sl[m][s].pg => pin[a][p] - 1 = 0
    BY <1>5
  <2>2. [p \in Segs |-> IF p \in sl[m][s].pg THEN pin[a][p] - 1 ELSE pin[a][p]]
        = [p \in Segs |-> IF p \in sl[m][s].pg THEN 0 ELSE pin[a][p]]
    BY <2>1
  <2> QED
    BY <2>2, <1>1, <1>5
<1>8. /\ pin' \in [Arrays -> [Segs -> 0 .. 1]]
      /\ \A b \in Arrays, p \in Segs :
            pin'[b][p] = IF b = a /\ p \in sl[m][s].pg THEN 0 ELSE pin[b][p]
  BY <1>5, <1>6, <1>7
<1> QED
  BY <1>1, <1>3, <1>4, <1>5, <1>8

LEMMA PutI == ASSUME RabI, HwI, HwSame, nswitch' = nswitch, SlicePut PROVE RabI'
<1>1. Core /\ Book /\ Steps
  BY Parts
<1>2. PICK m, s : m = op.m /\ s = op.s
  OBVIOUS
<1>3. PICK a : a = Arr(m, s)
  OBVIOUS
<1>4. /\ a \in Arrays /\ pc \in {"free", "freestr"} /\ op.put
      /\ op'.at = "free" /\ ~op'.off /\ ~op'.put /\ op'.m = m /\ op'.s = s
      /\ pin' \in [Arrays -> [Segs -> 0 .. 1]]
      /\ \A b \in Arrays, p \in Segs :
            pin'[b][p] = IF b = a /\ p \in sl[m][s].pg THEN 0 ELSE pin[b][p]
      /\ \A n \in Mappings, t \in Slices :
            Arr(n, t) = a /\ (n # m \/ t # s) => sl[n][t].pg \cap sl[m][s].pg = {}
  BY <1>2, <1>3, PutEffect
<1>5. Owns'
  <2>1. ASSUME NEW n \in Mappings, NEW t \in Slices, IsMapped(n, t), ~HasPut(n, t)', NEW p \in sl[n][t].pg
        PROVE  pin'[Arr(n, t)][p] = 1
    <3>1. n # m \/ t # s
      BY <2>1, <1>4 DEF HasPut
    <3>2. ~HasPut(n, t)
      BY <1>4 DEF HasPut
    <3>3. pin[Arr(n, t)][p] = 1 /\ Arr(n, t) \in Arrays
      BY <3>2, <2>1, <1>1 DEF Core, Owns, IsMapped
    <3>4. p \in Segs
      BY <2>1, <1>1, SliceTypes DEF Core
    <3>5. Arr(n, t) = a => p \notin sl[m][s].pg
      BY <3>1, <1>4
    <3> QED
      BY <3>3, <3>4, <3>5, <1>4
  <2>2. \A n \in Mappings, t \in Slices :
           IsMapped(n, t) => /\ ptr[n][sl[n][t].idx] = Arr(n, t)
                             /\ Arr(n, t) \in live /\ Arr(n, t) <= nreq
    BY <1>1 DEF Core, Owns
  <2>3. \A n, t : (IsMapped(n, t)' <=> IsMapped(n, t)) /\ Arr(n, t)' = Arr(n, t)
    BY DEF HwSame, IsMapped, Arr
  <2>4. sl' = sl /\ ptr' = ptr /\ live' = live /\ nreq' = nreq
    BY DEF HwSame
  <2> QED
    BY <2>1, <2>2, <2>3, <2>4 DEF Owns
<1>6. Forms' /\ Sames' /\ RefsExact'
  BY <1>1 DEF Core, Forms, Sames, RefsExact, IsMapped, Arr, InUse, HwSame
<1>7. CoreNext
  BY <1>1, <1>4, <1>5, <1>6 DEF CoreNext, Core, Types, HwSame
<1>8. Rest'
  BY <1>1 DEF Rest, Core, Types, HwSame
<1>9. Book'
  <2>1. \A n \in Mappings : Up(n)' <=> Up(n)
    BY DEF Up, HwSame
  <2>2. \A b \in Arrays, p \in Segs : pin'[b][p] # 0 => pin[b][p] # 0
    BY <1>4
  <2> QED
    BY <2>1, <2>2, <1>1, QuietBook DEF HwSame
<1>10. Steps'
  <2>1. FreeOK'
    BY <1>1 DEF Steps, FreeOK, Settled, IsMapped, Arr, HwSame
  <2>2. FreeStrOK'
    BY <1>1 DEF Steps, FreeStrOK, Settled, HwSame
  <2>3. rq.by # "setup"
    BY <1>1, <1>4 DEF Steps, FreeOK, FreeStrOK
  <2>4. pc' = pc /\ rq' = rq
    BY DEF HwSame
  <2> QED
    BY <2>1, <2>2, <2>3, <2>4, <1>4, Phase
<1> QED
  BY <1>7, <1>8, <1>9, <1>10, CoreFrom, Parts

LEMMA HwPut ==
    ASSUME RabI, HwI, HwSame, SlicePut, UNCHANGED <<mapping_active, switching>>
    PROVE  HwI'
<1>1. PICK m, s : m = op.m /\ s = op.s
  OBVIOUS
<1>2. PICK a : a = Arr(m, s)
  OBVIOUS
<1>3. /\ m \in Mappings /\ s \in Slices /\ a \in Arrays
      /\ op.at = "free" /\ ~op.off /\ op.put
      /\ op'.at = "free" /\ ~op'.off /\ ~op'.put /\ op'.m = m /\ op'.s = s /\ op'.cfg = op.cfg
      /\ \A b \in Arrays, p \in Segs :
            pin'[b][p] = IF b = a /\ p \in sl[m][s].pg THEN 0 ELSE pin[b][p]
  BY <1>1, <1>2, PutEffect
<1>4. UNCHANGED <<hw, torn>> /\ op' = [op EXCEPT !.put = FALSE]
  BY DEF SlicePut
<1>5. HwTypes' /\ HwMap' = HwMap
  <2>1. op' \in [at : {"none", "free", "test", "write"}, m : Mappings, s : Slices,
                 off : BOOLEAN, put : BOOLEAN, cfg : CfgSet]
    BY <1>4 DEF HwI, HwTypes
  <2> QED
    BY <2>1, <1>4 DEF HwI, HwTypes, HwMap
<1>6. HwIs'
  BY <1>4, <1>5 DEF HwI, HwIs, Translates, HwSame
<1>7. AloneOK'
  BY <1>1, <1>3, <1>4 DEF HwI, AloneOK, HwSame, IsMapped, Arr
<1>8. FreeOpOK'
  <2>1. PICK fl \in SUBSET DrvFlags : FreeFor(m, s, fl)
    BY <1>1, <1>3 DEF HwI, FreeOpOK
  <2>2. FreeFor(m, s, fl)'
    BY <2>1, FreeForSame DEF HwSame
  <2>3. PagesPut(m, s, fl)'
    <3>1. sl[m][s].pg \in SUBSET Segs
      BY <1>3, SliceTypes DEF RabI
    <3>2. \A p \in sl[m][s].pg : pin'[a][p] = 0
      BY <3>1, <1>3
    <3>3. Arr(m, s)' = a /\ sl' = sl
      BY <1>2 DEF HwSame, Arr
    <3> QED
      BY <3>2, <3>3 DEF PagesPut
  <2> QED
    BY <2>2, <2>3, <1>3, FreeOpFrom
<1>9. SetOpOK'
  BY <1>3 DEF SetOpOK
<1> QED
  BY <1>5, <1>6, <1>7, <1>8, <1>9 DEF HwI


\* The test in pulp_rab_slice_setup, and the write of the registers.
LEMMA HwSetupTest ==
    ASSUME HwI, HwSame, SetupTest, UNCHANGED <<mapping_active, switching, pin>>
    PROVE  HwI'
<1>1. /\ op.at = "test" /\ UNCHANGED <<hw, torn>>
      /\ op' = IF mapping_active = op.m THEN [op EXCEPT !.at = "write"] ELSE NoOp
  BY DEF SetupTest
<1>2. HwMap' = HwMap
  BY DEF HwMap
<1>3. HwIs'
  BY <1>1, <1>2 DEF HwI, HwIs, Translates, HwSame
<1>4. CASE mapping_active = op.m
  <2>1. op' = [op EXCEPT !.at = "write"]
    BY <1>1, <1>4
  <2>2. op'.at = "write" /\ op'.m = op.m /\ op'.s = op.s /\ op'.cfg = op.cfg
    BY <2>1 DEF HwI, HwTypes
  <2>3. HwTypes'
    BY <2>1, <1>1 DEF HwI, HwTypes
  <2>4. SetOpOK' /\ FreeOpOK'
    BY <2>2, <1>1 DEF HwI, SetOpOK, FreeOpOK, HwSame
  <2>5. AloneOK'
    BY <2>2, <1>1, <1>4 DEF HwI, AloneOK
  <2> QED
    BY <2>3, <2>4, <2>5, <1>3 DEF HwI
<1>5. CASE mapping_active # op.m
  <2>1. op' = NoOp
    BY <1>1, <1>5
  <2>2. HwTypes'
    BY <2>1, <1>1, NoOpFacts DEF HwI, HwTypes
  <2> QED
    BY <2>1, <2>2, <1>3, NoOpFacts DEF HwI, SetOpOK, FreeOpOK, AloneOK
<1> QED
  BY <1>4, <1>5

LEMMA HwSetupWrite ==
    ASSUME HwI, HwSame, SetupWrite, UNCHANGED <<mapping_active, switching, pin>>
    PROVE  HwI'
<1>1. PICK s : s = op.s
  OBVIOUS
<1>2. PICK c : c = IF op.cfg.en THEN op.cfg ELSE NoCfg
  OBVIOUS
<1>3. /\ op.at = "write" /\ hw' = [hw EXCEPT ![s] = c] /\ op' = NoOp
      /\ torn' = IF mapping_active = op.m /\ ~switching THEN torn \ {s} ELSE torn
  BY <1>1, <1>2 DEF SetupWrite, Settles
<1>4. s \in Slices /\ c \in CfgSet /\ sl[op.m][s].cfg = op.cfg
  BY <1>1, <1>2, <1>3, NoCfgFacts DEF HwI, HwTypes, SetOpOK
<1>5. hw'[s] = c /\ \A t \in Slices : t # s => hw'[t] = hw[t]
  BY <1>3, <1>4 DEF HwI, HwTypes
<1>6. HwTypes' /\ HwMap' = HwMap
  BY <1>3, <1>4, NoOpFacts DEF HwI, HwTypes, HwMap
<1>7. ASSUME NEW t \in Slices \ torn' PROVE Translates(t, sl[HwMap][t].cfg)'
  <2>1. CASE t = s
    <3>1. ~switching /\ mapping_active = op.m
      BY <2>1, <1>1, <1>3, <1>7 DEF HwI, AloneOK
    <3>2. sl'[HwMap'][t].cfg = op.cfg
      BY <2>1, <3>1, <1>4, <1>6 DEF HwMap, HwSame
    <3>3. hw'[t] = NoCfg \/ (hw'[t] = op.cfg /\ op.cfg.en)
      BY <2>1, <1>2, <1>5
    <3> QED
      BY <3>2, <3>3 DEF Translates
  <2>2. CASE t # s
    <3>1. Translates(t, sl[HwMap][t].cfg)
      BY <2>2, <1>3, <1>7 DEF HwI, HwIs
    <3> QED
      BY <3>1, <2>2, <1>5, <1>6 DEF Translates, HwSame
  <2> QED
    BY <2>1, <2>2
<1>8. HwIs'
  BY <1>7 DEF HwIs
<1> QED
  BY <1>3, <1>6, <1>8, NoOpFacts DEF HwI, SetOpOK, FreeOpOK, AloneOK

-----------------------------------------------------------------------------
(* The switch of the mappings *)

\* Hardware first: it writes every slice that is enabled in the mapping it goes to, or
\* used in the one it comes from.
LEMMA HwSwitch == ASSUME RabI, HwI, HwSame, SwitchHw PROVE HwI'
<1>1. PICK to : to = 1 - mapping_active
  OBVIOUS
<1>2. PICK writes : writes = {s \in Slices : sl[to][s].cfg.en \/ InUse(mapping_active, s)}
  OBVIOUS
<1>3. /\ ~switching /\ switching' = TRUE /\ UNCHANGED <<mapping_active, op, pin>>
      /\ hw' = [s \in Slices |-> IF sl[to][s].cfg.en THEN sl[to][s].cfg
                                 ELSE IF s \in writes THEN NoCfg ELSE hw[s]]
      /\ torn' = (torn \ writes) \cup {s \in Slices : op # NoOp /\ s = op.s}
  BY <1>1, <1>2 DEF SwitchHw, memVars
<1>4. HwTypes /\ HwIs /\ HwMap = mapping_active /\ HwMap' = to /\ mapping_active \in Mappings
      /\ to \in Mappings
  BY <1>1, <1>3 DEF HwI, HwTypes, HwMap, Mappings
<1>5. ASSUME NEW t \in Slices \ torn' PROVE Translates(t, sl[HwMap][t].cfg)'
  <2>1. hw'[t] = IF sl[to][t].cfg.en THEN sl[to][t].cfg ELSE IF t \in writes THEN NoCfg ELSE hw[t]
    BY <1>3
  <2>2. sl'[HwMap'][t].cfg = sl[to][t].cfg
    BY <1>4 DEF HwSame
  <2>3. CASE sl[to][t].cfg.en
    BY <2>1, <2>2, <2>3 DEF Translates
  <2>4. CASE ~sl[to][t].cfg.en /\ t \in writes
    BY <2>1, <2>2, <2>4 DEF Translates
  <2>5. CASE ~sl[to][t].cfg.en /\ t \notin writes
    <3>1. t \notin torn /\ sl[mapping_active][t].cfg = NoCfg /\ hw'[t] = hw[t]
      BY <2>1, <2>5, <1>2, <1>3, <1>5 DEF InUse
    <3>2. hw[t] = NoCfg
      BY <3>1, <1>4 DEF HwIs, Translates
    <3> QED
      BY <3>1, <3>2 DEF Translates
  <2> QED
    BY <2>3, <2>4, <2>5
<1>6. HwIs'
  BY <1>5 DEF HwIs
<1>7. HwTypes'
  <2>1. ASSUME NEW t \in Slices PROVE hw'[t] \in CfgSet
    <3>1. hw'[t] = NoCfg \/ hw'[t] = hw[t] \/ hw'[t] = sl[to][t].cfg
      BY <1>3
    <3>2. sl[to][t].cfg \in CfgSet
      BY <1>4, SliceTypes DEF RabI
    <3> QED
      BY <3>1, <3>2, <1>4, NoCfgFacts DEF HwTypes
  <2> QED
    BY <2>1, <1>3, <1>4 DEF HwTypes
<1>8. AloneOK'
  <2>1. op.at # "none" => op.s \in torn'
    BY <1>3, <1>4, NoOpFacts DEF HwTypes
  <2> QED
    BY <2>1, <1>3 DEF AloneOK
<1>9. FreeOpOK' /\ SetOpOK'
  BY <1>3, FreeOpSame
<1> QED
  BY <1>6, <1>7, <1>8, <1>9 DEF HwI

LEMMA HwSwitched == ASSUME HwI, HwSame, SwitchDone PROVE HwI'
<1>1. switching /\ switching' = FALSE /\ mapping_active' = 1 - mapping_active
      /\ UNCHANGED <<hw, op, torn, pin>>
  BY DEF SwitchDone, memVars
<1>2. HwMap' = HwMap
  BY <1>1 DEF HwMap
<1>3. HwTypes' /\ HwIs'
  <2>1. HwTypes'
    <3>1. mapping_active' \in Mappings
      <4>1. mapping_active \in {0, 1}
        BY DEF HwI, HwTypes, Mappings
      <4> QED
        BY <4>1, <1>1 DEF Mappings
    <3>2. switching' \in BOOLEAN
      BY <1>1
    <3> QED
      BY <3>1, <3>2, <1>1 DEF HwI, HwTypes
  <2>2. HwIs'
    BY <1>1, <1>2 DEF HwI, HwIs, Translates, HwSame
  <2> QED
    BY <2>1, <2>2
<1>4. AloneOK'
  BY <1>1 DEF HwI, AloneOK
<1>5. FreeOpOK' /\ SetOpOK'
  BY <1>1, FreeOpSame
<1> QED
  BY <1>3, <1>4, <1>5 DEF HwI

\* A switch changes nothing of what only the ioctls use.
LEMMA SwitchesI == ASSUME RabInv, SwitchHw \/ SwitchDone PROVE RabInv'
<1>1. RabI /\ HwI
  BY DEF RabInv
<1>2. HwSame /\ UNCHANGED <<op, pin>> /\ nswitch' \in 0 .. MaxSwitches
  <2>1. nswitch \in 0 .. MaxSwitches /\ MaxSwitches \in Nat
    BY <1>1, RabAssumption DEF RabI, Types
  <2>2. SwitchHw => nswitch < MaxSwitches /\ nswitch' = nswitch + 1
    BY DEF SwitchHw
  <2>3. SwitchDone => nswitch' = nswitch
    BY DEF SwitchDone
  <2>4. HwSame /\ UNCHANGED <<op, pin>>
    BY DEF SwitchHw, SwitchDone, HwSame, l1Vars, memVars
  <2> QED
    BY <2>1, <2>2, <2>3, <2>4
<1>3. \A m \in Mappings, s \in Slices : HasPut(m, s) => HasPut(m, s)'
  BY <1>2 DEF HasPut
<1>4. RabI'
  BY <1>1, <1>2, <1>3, SameI DEF HwSame
<1>5. HwI'
  BY <1>1, <1>2, HwSwitch, HwSwitched
<1> QED
  BY <1>4, <1>5 DEF RabInv

-----------------------------------------------------------------------------
(* The invariant and the theorems *)

LEMMA StutterI == ASSUME RabInv, UNCHANGED rabVars PROVE RabInv'
<1>1. RabI /\ HwI
  BY DEF RabInv
<1>2. /\ HwSame /\ UNCHANGED <<hw, mapping_active, switching, op, torn, pin, nswitch>>
  BY DEF rabVars, l1Vars, memVars, portVars, HwSame
<1>3. RabI'
  <2>1. \A m \in Mappings, s \in Slices : HasPut(m, s) => HasPut(m, s)'
    BY <1>2 DEF HasPut
  <2>2. nswitch' \in 0 .. MaxSwitches
    BY <1>1, <1>2 DEF RabI, Types
  <2> QED
    BY <2>1, <2>2, <1>1, <1>2, SameI DEF HwSame
<1>4. FreeOpOK' /\ SetOpOK'
  BY <1>1, <1>2, FreeOpSame
<1>5. HwTypes' /\ HwIs' /\ AloneOK'
  BY <1>1, <1>2 DEF HwI, HwTypes, HwIs, HwMap, Translates, AloneOK, HwSame, IsMapped, Arr
<1> QED
  BY <1>3, <1>4, <1>5 DEF RabInv, HwI

LEMMA SliceStepI == ASSUME RabInv, SliceStep PROVE RabInv'
<1>1. RabI /\ HwI
  BY DEF RabInv
<1>2. HwSame /\ UNCHANGED <<mapping_active, switching, nswitch>>
  BY DEF SliceStep, HwSame, l1Vars
<1>3. ASSUME pin' = pin, \A m \in Mappings, s \in Slices : ~HasPut(m, s) PROVE RabI'
  <2>1. nswitch' \in 0 .. MaxSwitches
    BY <1>1, <1>2 DEF RabI, Types
  <2> QED
    BY <2>1, <1>1, <1>2, <1>3, SameI DEF HwSame
<1>4. CASE SliceFreeCall /\ UNCHANGED <<hw, pin>>
  <2>1. PICK m, s, fl : FreeFor(m, s, fl) /\ SliceTest(m, s, fl)
    BY <1>4 DEF SliceFreeCall, FreeFor
  <2>2. op.at = "none"
    BY <2>1, NoOpFacts DEF SliceTest
  <2>3. RabI'
    BY <2>2, <1>3, <1>4 DEF HasPut
  <2>4. HwI'
    BY <2>1, <1>1, <1>2, <1>4, HwTest
  <2> QED
    BY <2>3, <2>4 DEF RabInv
<1>5. CASE SliceOff
  <2>1. op.off /\ pin' = pin
    BY <1>5 DEF SliceOff
  <2>2. RabI'
    BY <2>1, <1>3 DEF HasPut
  <2>3. HwI'
    BY <1>1, <1>2, <1>5, HwTurnsOff
  <2> QED
    BY <2>2, <2>3 DEF RabInv
<1>6. CASE SlicePut
  <2>1. RabI'
    BY <1>1, <1>2, <1>6, PutI
  <2>2. HwI'
    BY <1>1, <1>2, <1>6, HwPut
  <2> QED
    BY <2>1, <2>2 DEF RabInv
<1>7. CASE (SetupTest \/ SetupWrite) /\ UNCHANGED pin
  <2>1. op.at \in {"test", "write"}
    BY <1>7 DEF SetupTest, SetupWrite
  <2>2. RabI'
    BY <2>1, <1>3, <1>7 DEF HasPut
  <2>3. HwI'
    BY <1>1, <1>2, <1>7, HwSetupTest, HwSetupWrite
  <2> QED
    BY <2>2, <2>3 DEF RabInv
<1> QED
  BY <1>4, <1>5, <1>6, <1>7 DEF SliceStep

LEMMA FreedI == ASSUME Plain, RabInv, Freed PROVE RabInv'
<1>1. RabI /\ HwI
  BY DEF RabInv
<1>2. CASE ReqFree
  <2>1. /\ SliceFree(rq.j, rq.slice, rq.fl) /\ FreeFor(rq.j, rq.slice, rq.fl)
        /\ UNCHANGED <<hw, mapping_active, switching, torn>>
    BY <1>2 DEF ReqFree, FreeFor
  <2> QED
    BY <2>1, <1>1, <1>2, ReqFreeI, HwFreed DEF RabInv
<1>3. CASE StripedFree
  <2>1. /\ SliceFree(rq.m, rq.slice, StripedFlags) /\ FreeFor(rq.m, rq.slice, StripedFlags)
        /\ UNCHANGED <<hw, mapping_active, switching, torn>>
    BY <1>3 DEF StripedFree, FreeFor
  <2> QED
    BY <2>1, <1>1, <1>3, StripedFreeI, HwFreed DEF RabInv
<1>4. CASE FreeStep
  <2>1. PICK m, s, fl : m = rq.m /\ s = rq.slice /\ fl = FreeFlags(m, s)
    OBVIOUS
  <2>2. /\ pc = "free" /\ UNCHANGED <<hw, mapping_active, switching, torn>>
        /\ IF SliceCheck(m, s, fl, rq.cur) THEN SliceFree(m, s, fl)
                                           ELSE op = NoOp /\ UNCHANGED <<sl, op>>
    BY <2>1, <1>4 DEF FreeStep, l1Vars
  <2>3. RabI'
    BY <1>1, <1>4, FreeStepI
  <2>4. CASE SliceCheck(m, s, fl, rq.cur)
    <3>1. FreeFor(m, s, fl) /\ SliceFree(m, s, fl)
      BY <2>1, <2>2, <2>4 DEF FreeFor
    <3> QED
      BY <3>1, <2>2, <2>3, <1>1, HwFreed DEF RabInv
  <2>5. CASE ~SliceCheck(m, s, fl, rq.cur)
    BY <2>2, <2>3, <2>5, <1>1, HwQuiet DEF RabInv
  <2> QED
    BY <2>4, <2>5
<1>5. ASSUME NEW s \in Slices, FreeStripedStep(s) PROVE RabInv'
  <2>1. PICK m, fl : m = rq.m /\ fl = FreeStripedFlags(s)
    OBVIOUS
  <2>2. /\ SliceFree(m, s, fl) /\ FreeFor(m, s, fl)
        /\ UNCHANGED <<hw, mapping_active, switching, torn>>
    BY <2>1, <1>5 DEF FreeStripedStep, FreeFor
  <2> QED
    BY <2>2, <1>1, <1>5, FreeStripedStepI, HwFreed DEF RabInv
<1> QED
  BY <1>2, <1>3, <1>4, <1>5 DEF Freed

LEMMA IoctlI == ASSUME Plain, RabInv, op = NoOp, Ioctl PROVE RabInv'
<1>1. RabI /\ HwI
  BY DEF RabInv
<1>2. UNCHANGED <<sl, hw, mapping_active, switching, op, torn>>
  BY DEF Ioctl, ReqCall, StripedCall, FreeCall, FreeStripedCall, ReleaseCall, l1Vars, portVars
<1>3. RabI'
  <2>1. ASSUME NEW n \in 1 .. MaxSeg, NEW d \in Dating, NEW stray \in StrayFlags,
               ReqCall(n, d[2], d[1], stray)
        PROVE  RabI'
    BY <2>1, <1>1, ReqCallI
  <2>2. ASSUME NEW m \in Mappings, NEW n \in 1 .. MaxSeg, StripedCall(m, n) PROVE RabI'
    BY <2>2, <1>1, StripedCallI
  <2> QED
    BY <2>1, <2>2, <1>1, FreeCallsI DEF Ioctl
<1> QED
  BY <1>1, <1>2, <1>3, HwQuiet DEF RabInv

LEMMA SetupHw == ASSUME Plain, RabI, HwI, ReqSetup PROVE HwI'
<1>1. pc = "reqsetup" /\ UNCHANGED <<hw, mapping_active, switching>>
  BY DEF ReqSetup
<1>2. CASE rq.by = "setup"
  <2>1. DrvReq
    BY <1>1, <1>2 DEF DrvReq, ReqPcs
  <2>2. PICK m \in Mappings : m = rq.j
    BY <2>1, DrvNow
  <2>3. /\ rq.i = 0 /\ rq.slice = 0 /\ rq.idx = 0 /\ rq.arr = DrvMem /\ rq.exp = MaxDate
        /\ rq.fl = {"const", "every", "fixed"}
        /\ \A s \in Slices : IsClear(sl[m][s], s) /\ ref[m][s] = 0
    BY <2>1, <2>2, DrvNow
  <2>4. ~SetupRefused(rq.j, rq.i, rq.fl)
    <3>1. ref[m][rq.idx] = 0
      BY <2>3, Sizes
    <3> QED
      BY <3>1, <2>2 DEF SetupRefused
  <2>5. SliceSetup(m, 0, ConstSlice, rq.arr, FALSE)
    <3>1. [exp |-> rq.exp, fixed |-> "fixed" \in rq.fl, idx |-> rq.idx,
                     pg |-> {rq.i}, fl |-> rq.fl, cfg |-> Cfg(rq.arr, {rq.i}, TRUE)] = ConstSlice
      BY <2>3 DEF ConstSlice
    <3> QED
      BY <3>1, <2>2, <2>3, <2>4 DEF ReqSetup, SliceSetup
  <2>6. 0 \in Slices /\ IsClear(sl[m][0], 0) /\ ConstSlice \in SliceRec
    BY <2>3, Sizes, ConstFacts
  <2> QED
    BY <2>5, <2>6, <1>1, HwSet
<1>3. CASE rq.by # "setup"
  <2>1. PICK m, s : m = rq.j /\ s = rq.slice
    OBVIOUS
  <2>2. PICK r : r = [exp |-> rq.exp, fixed |-> FALSE, idx |-> rq.idx, pg |-> {rq.i},
                      fl |-> rq.fl, cfg |-> Cfg(rq.arr, {rq.i}, TRUE)]
    OBVIOUS
  <2>3. /\ s \in Slices /\ IsClear(sl[m][s], s) /\ UserReq
        /\ r \in SliceRec /\ SliceSetup(m, s, r, rq.arr, FALSE)
    BY <2>1, <2>2, <1>3, UserSets
  <2>4. m \in Mappings
    BY <2>1, <2>3, UserNow
  <2> QED
    BY <2>3, <2>4, <1>1, HwSet
<1> QED
  BY <1>2, <1>3

LEMMA StripedHw == ASSUME Plain, RabI, HwI, StripedSetup PROVE HwI'
<1>1. UNCHANGED <<hw, mapping_active, switching>>
  BY DEF StripedSetup
<1>2. PICK m, s : m = rq.m /\ s = rq.slice
  OBVIOUS
<1>3. PICK r : r = [exp |-> rq.exp, fixed |-> FALSE, idx |-> rq.idx, pg |-> 0 .. rq.nseg - 1,
                    fl |-> StripedFlags, cfg |-> Cfg(rq.arr, 0 .. rq.nseg - 1, rq.j = 0)]
  OBVIOUS
<1>4. /\ m \in Mappings /\ s \in Slices /\ IsClear(sl[m][s], s)
      /\ r \in SliceRec /\ SliceSetup(m, s, r, rq.arr, FALSE)
  BY <1>2, <1>3, StripedSets
<1> QED
  BY <1>4, <1>1, HwSet

LEMMA WorkI == ASSUME Plain, RabInv, op = NoOp, Work PROVE RabInv'
<1>1. RabI /\ HwI
  BY DEF RabInv
<1>2. RabI'
  BY <1>1, SetupCallI, SetupDoneI, ReqGetI, DrvSetupI, UserSetupI, StripedGetI, StripedSetupI,
     FreeStripedDoneI, ReinitI DEF Work
<1>3. HwI'
  <2>1. CASE SetupCall \/ SetupDone \/ ReqGet \/ StripedGet \/ FreeStripedDone
    <3>1. UNCHANGED <<sl, hw, mapping_active, switching, op, torn>>
      BY <2>1 DEF SetupCall, SetupDone, ReqGet, StripedGet, FreeStripedDone, l1Vars, portVars
    <3> QED
      BY <3>1, <1>1, HwQuiet
  <2>2. CASE ReqSetup
    BY <2>2, <1>1, SetupHw
  <2>3. CASE StripedSetup
    BY <2>3, <1>1, StripedHw
  <2>4. CASE Reinit
    BY <2>4, <1>1, HwReinit
  <2> QED
    BY <2>1, <2>2, <2>3, <2>4 DEF Work
<1> QED
  BY <1>2, <1>3 DEF RabInv

LEMMA RabStep == ASSUME Plain, RabInv, [RabNext]_rabVars PROVE RabInv'
BY StutterI, IoctlI, WorkI, FreedI, SliceStepI, SwitchesI DEF RabNext

LEMMA RabInvariant == Plain => (RabSpec => []RabInv)
<1> SUFFICES ASSUME Plain PROVE RabSpec => []RabInv
  OBVIOUS
<1>1. RabInit => RabInv
  BY InitI, HwInit DEF RabInv
<1>2. RabInv /\ [RabNext]_rabVars => RabInv'
  BY RabStep
<1> QED
  BY <1>1, <1>2, PTL DEF RabSpec

(***************************************************************************)
(* The types of pulp_rab.c's management structures; a page is pinned once  *)
(* and unpinned at most once, and a reference counter never wraps nor      *)
(* exceeds the number of slices.                                           *)
(***************************************************************************)
THEOREM RabTyped == Plain => (RabSpec => []RabTypeOK)
<1>1. ASSUME RabInv PROVE RabTypeOK
  <2>1. Types /\ RefsExact /\ HwTypes
    BY <1>1 DEF RabInv, RabI, HwI
  <2>2. ASSUME NEW m \in Mappings, NEW f \in Slices PROVE ref[m][f] \in 0 .. NSlices
    <3>1. Users(m, f) \subseteq Slices /\ ref[m][f] = Cardinality(Users(m, f)) /\ ref[m][f] \in Nat
      BY <2>1, RefFacts DEF Users
    <3>2. Cardinality(Slices) = NSlices
      <4>1. NSlices \in Nat \ {0} /\ 0 \in Int /\ NSlices - 1 \in Int /\ ~(0 > NSlices - 1)
        BY Sizes
      <4>2. Cardinality(0 .. NSlices - 1) = NSlices - 1 - 0 + 1
        BY <4>1, FS_Interval
      <4> QED
        BY <4>1, <4>2 DEF Slices
    <3>3. Cardinality(Users(m, f)) <= Cardinality(Slices)
      BY <3>1, Sizes, FS_Subset
    <3> QED
      BY <3>1, <3>2, <3>3, Sizes
  <2>3. ref \in [Mappings -> [Slices -> 0 .. NSlices]]
    <3>1. ref \in [Mappings -> [Slices -> Nat]]
      BY <2>1 DEF Types
    <3>2. \A m \in Mappings : ref[m] \in [Slices -> 0 .. NSlices]
      BY <3>1, <2>2
    <3> QED
      BY <3>1, <3>2
  <2> QED
    BY <2>1, <2>3 DEF Types, HwTypes, SliceRec, RabTypeOK
<1> QED
  BY <1>1, RabInvariant, PTL

(***************************************************************************)
(* page_ptr_ref_cntrs is exact: the array of a field of page_ptrs is freed *)
(* with the last slice that refers to it, neither before nor never.        *)
(***************************************************************************)
THEOREM ReferencesExact == Plain => (RabSpec => []RefsExact)
<1>1. RabInv => RefsExact
  BY DEF RabInv, RabI
<1> QED
  BY <1>1, RabInvariant, PTL

(***************************************************************************)
(* pulp_rab_slice_free unlocks the pages its slice maps, through a list    *)
(* that has not been freed.                                                *)
(***************************************************************************)
THEOREM UnlocksOwnPages == Plain => (RabSpec => []UnlocksItsOwn)
<1>1. RabInv => UnlocksItsOwn
  BY DEF RabInv, RabI, Owns, IsMapped, Arr, UnlocksItsOwn
<1> QED
  BY <1>1, RabInvariant, PTL

(***************************************************************************)
(* With the mailbox interrupt between any two accesses of an ioctl to what *)
(* the two share, and within the switch itself, the hardware translates to *)
(* no page that is not pinned: pulp_rab_slice_free has disabled the slice  *)
(* before it puts the pages.  It is not claimed of a slice that a switch   *)
(* and pulp_rab_slice_free or pulp_rab_slice_setup were at together: their *)
(* tests of mapping_active may be out of date when they act on them.       *)
(***************************************************************************)
THEOREM HardwarePinned == Plain => (RabSpec => []HwPinned)
<1>1. ASSUME RabInv PROVE HwPinned
  <2>1. Types /\ Forms /\ Owns /\ HwTypes /\ HwIs /\ AloneOK
    BY <1>1 DEF RabInv, RabI, HwI
  <2>2. ASSUME NEW s \in Slices \ torn, hw[s].arr \in Arrays, NEW p \in hw[s].pages
        PROVE  pin[hw[s].arr][p] > 0
    <3>1. PICK m \in Mappings : m = HwMap
      BY <2>1 DEF HwTypes, HwMap, Mappings
    <3>2. hw[s] = sl[m][s].cfg /\ hw[s] # NoCfg
      BY <2>1, <2>2, <3>1, NoCfgFacts DEF HwIs, Translates
    <3>3. IsMapped(m, s) /\ hw[s].arr = Arr(m, s)
      BY <2>2, <3>2 DEF IsMapped, Arr
    <3>4. hw[s].pages = sl[m][s].pg
      BY <3>2, <3>3, <2>1, FormFacts DEF Forms, IsMapped, Arr
    <3>5. ~HasPut(m, s)
      <4>1. ASSUME HasPut(m, s) PROVE FALSE
        <5>1. op.at = "free" /\ ~op.off /\ op.m = m /\ op.s = s
          BY <4>1 DEF HasPut
        <5>2. ~switching /\ (mapping_active = m => hw[s] = NoCfg)
          BY <5>1, <3>3, <2>1, <2>2 DEF AloneOK
        <5> QED
          BY <5>2, <3>1, <3>2 DEF HwMap
      <4> QED
        BY <4>1
    <3>6. pin[Arr(m, s)][p] = 1
      BY <3>3, <3>4, <3>5, <2>1, <2>2 DEF Owns
    <3> QED
      BY <3>3, <3>6
  <2> QED
    BY <2>2 DEF HwPinned
<1> QED
  BY <1>1, RabInvariant, PTL

(***************************************************************************)
(* pulp_rab_release leaves no page pinned and none within reach, but for   *)
(* slices a switch and an ioctl were at together, for every request that   *)
(* succeeded and kept its slices until then.                               *)
(***************************************************************************)
THEOREM ReleaseUnpinsAll == Plain => (RabSpec => []ReleaseUnpins)
<1>1. ASSUME RabInv, pc = "idle", released, NEW a \in Arrays, a \notin lost PROVE Gone(a)
  <2>1. Types /\ HwTypes /\ HwIs /\ Kept /\ OnlyLost /\ rq.arr \notin Arrays
    BY <1>1 DEF RabInv, RabI, RelOK, HwI
  <2>2. \A m \in Mappings, s \in Slices : Arr(m, s) # a
    BY <2>1, <1>1 DEF OnlyLost, IsMapped
  <2>3. \A m \in Mappings, s \in Slices : ~Holds(m, s, a)
    BY <2>2 DEF Holds
  <2>4. a \notin live /\ \A p \in Segs : pin[a][p] = 0
    BY <2>1, <2>3, <1>1 DEF Kept
  <2>5. ASSUME NEW s \in Slices \ torn PROVE hw[s].arr # a
    <3>1. PICK m \in Mappings : m = HwMap
      BY <2>1 DEF HwTypes, HwMap, Mappings
    <3>2. hw[s] = NoCfg \/ hw[s].arr = Arr(m, s)
      BY <2>1, <3>1 DEF HwIs, Translates, Arr
    <3> QED
      BY <3>2, <2>2, <1>1, NoCfgFacts
  <2> QED
    BY <2>4, <2>5 DEF Gone
<1>2. RabInv => ReleaseUnpins
  BY <1>1 DEF ReleaseUnpins
<1> QED
  BY <1>2, RabInvariant, PTL
=============================================================================
