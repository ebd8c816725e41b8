---------------------------- MODULE ClusterCtrl ----------------------------
(***************************************************************************)
(* Starting, stopping and awaiting the clusters of the accelerator: the    *)
(* CTRL_START, CTRL_STOP, CTRL_WAIT and CTRL_RESET ioctls of               *)
(* pulp_module.c, the end-of-computation part of pulp_isr() and release(). *)
(* One host thread issues the ioctls; the clusters and the interrupt       *)
(* handler, which does not take ctrl_lock, run concurrently with it.       *)
(* libpulp always starts and stops all clusters (CLUSTER_MASK).            *)
(***************************************************************************)
EXTENDS Integers

CONSTANTS
    NClusters,   \* N_CLUSTERS
    MaxRuns,     \* bound: CTRL_START ioctls
    MaxResets    \* bound: CTRL_RESET ioctls

ASSUME CtrlAssumption ==
    /\ NClusters \in Nat \ {0}
    /\ MaxRuns \in Nat /\ MaxResets \in Nat

VARIABLES
    \* hardware
    gpio,      \* fetch-enable bits of the GPIO register
    cstate,    \* what each cluster does
    intr,      \* end-of-computation bits of the interrupt register
    \* driver
    gpioval,   \* fetch-enable bits of gpio_value
    active,    \* active_cluster_mask
    done,      \* ctrl_finished.done
    hfin,      \* clusters whose host_clk_finish is set
    afin,      \* clusters whose accel_clk_finish is set
    \* host thread
    host,      \* "patient": stops and resets only after the end of computation
    hpc,       \* the ioctl in progress
    todo,      \* clusters its profiling loop has still to handle
    \* interrupt handler
    ipc,       \* where the handler stands
    ibits,     \* end-of-computation bits it has still to handle
    imask,     \* the value of active_cluster_mask it has loaded
    \* history
    nruns,     \* runs started
    nresets,   \* resets done
    awaited,   \* the run is over for the host: CTRL_WAIT saw the completion
    ended      \* clusters that signalled the end of computation in this run

hwVars   == <<gpio, cstate, intr>>
profVars == <<hfin, afin>>
hostVars == <<hpc, todo>>
isrVars  == <<ipc, ibits, imask>>
histVars == <<nruns, nresets, awaited, ended, host>>
ctrlVars == <<hwVars, gpioval, active, done, profVars, hostVars, isrVars,
              histVars>>

Clusters == 0 .. NClusters - 1

\* The cluster a loop over the bits of a mask handles next.
IsFirst(c, S) == c \in S /\ \A d \in S : c <= d

CtrlInit ==
    /\ gpio = {} /\ cstate = [c \in Clusters |-> "off"] /\ intr = {}
    /\ gpioval = {} /\ active = {} /\ done = 0
    /\ hfin = {} /\ afin = {}
    /\ hpc = "idle" /\ todo = {} /\ host \in {"patient", "hasty"}
    /\ ipc = "idle" /\ ibits = {} /\ imask = {}
    /\ nruns = 0 /\ nresets = 0 /\ awaited = TRUE /\ ended = {}

\* A cluster runs from the rising edge of its fetch enable and stops with it.
WriteGpio(g) ==
    /\ gpio' = g
    /\ cstate' = [c \in Clusters |->
                     IF c \notin g THEN "off"
                     ELSE IF c \in gpio THEN cstate[c] ELSE "running"]

\* A cluster signals the end of its computation.
ClusterEoc(c) ==
    /\ cstate[c] = "running"
    /\ cstate' = [cstate EXCEPT ![c] = "done"]
    /\ intr' = intr \cup {c}
    /\ ended' = ended \cup {c}
    /\ UNCHANGED <<gpio, gpioval, active, done, profVars, hostVars, isrVars,
                   nruns, nresets, awaited, host>>
----------------------------------------------------------------------------
(***************************************************************************)
(* CTRL_START.  ctrl_lock is dropped in the middle of each iteration of    *)
(* the profiling loop, and the handler does not take it: every access to   *)
(* shared state is a step.                                                 *)
(***************************************************************************)
StartSet ==
    /\ hpc = "idle" /\ nruns < MaxRuns
    /\ host = "hasty" \/ gpioval = {}
    /\ gpioval' = gpioval \cup Clusters
    /\ hpc' = "starthost" /\ todo' = Clusters
    /\ nruns' = nruns + 1 /\ awaited' = FALSE
    /\ UNCHANGED <<hwVars, active, done, profVars, isrVars, nresets,
                   ended, host>>

\* Mutant: the finish time of an earlier run is not cleared.
StartHostTimeKeeps(c) ==
    /\ hpc = "starthost" /\ IsFirst(c, todo)
    /\ hpc' = "startaccel"
    /\ UNCHANGED <<hwVars, gpioval, active, done, profVars, todo, isrVars, histVars>>

StartHostTime(c) ==
    /\ hpc = "starthost" /\ IsFirst(c, todo)
    /\ hfin' = hfin \ {c}
    /\ hpc' = "startaccel"
    /\ UNCHANGED <<hwVars, gpioval, active, done, afin, todo, isrVars, histVars>>

StartAccelTime(c) ==
    /\ hpc = "startaccel" /\ IsFirst(c, todo)
    /\ afin' = afin \ {c}
    /\ todo' = todo \ {c}
    /\ hpc' = (IF todo = {c} THEN "arm" ELSE "starthost")
    /\ UNCHANGED <<hwVars, gpioval, active, done, hfin, isrVars, histVars>>

StartArm ==
    /\ hpc = "arm"
    /\ active' = Clusters /\ hpc' = "reinit"
    /\ UNCHANGED <<hwVars, gpioval, done, profVars, todo, isrVars, histVars>>

\* reinit_completion, then the write that lets the clusters run.
StartReinit ==
    /\ hpc = "reinit"
    /\ done' = 0 /\ hpc' = "go"
    /\ UNCHANGED <<hwVars, gpioval, active, profVars, todo, isrVars, histVars>>

StartWrite ==
    /\ hpc = "go"
    /\ WriteGpio(gpioval)
    /\ ended' = {} /\ hpc' = "idle"
    /\ UNCHANGED <<intr, gpioval, active, done, profVars, todo, isrVars, nruns,
                   nresets, awaited, host>>

(***************************************************************************)
(* CTRL_STOP: only the clusters without a finish time get one.             *)
(***************************************************************************)
StopWrite ==
    /\ hpc = "idle"
    /\ host = "hasty" \/ awaited
    /\ gpioval' = gpioval \ Clusters
    /\ WriteGpio(gpioval \ Clusters)
    /\ hpc' = "stophost" /\ todo' = Clusters
    /\ UNCHANGED <<intr, active, done, profVars, isrVars, histVars>>

StopHostTime(c) ==
    /\ hpc = "stophost" /\ IsFirst(c, todo)
    /\ IF c \in hfin
       THEN todo' = todo \ {c} /\ UNCHANGED <<hfin, hpc>>
       ELSE hfin' = hfin \cup {c} /\ hpc' = "stopaccel" /\ UNCHANGED todo
    /\ UNCHANGED <<hwVars, gpioval, active, done, afin, isrVars, histVars>>

StopAccelTime(c) ==
    /\ hpc = "stopaccel" /\ IsFirst(c, todo)
    /\ afin' = afin \cup {c}
    /\ todo' = todo \ {c} /\ hpc' = "stophost"
    /\ UNCHANGED <<hwVars, gpioval, active, done, hfin, isrVars, histVars>>

StopDisarm ==
    /\ hpc = "stophost" /\ todo = {}
    /\ active' = {} /\ hpc' = "idle"
    /\ UNCHANGED <<hwVars, gpioval, done, profVars, todo, isrVars, histVars>>
----------------------------------------------------------------------------
(***************************************************************************)
(* CTRL_WAIT ends with the completion, with a timeout or with a signal,    *)
(* and returns 0 in each case.                                             *)
(***************************************************************************)
WaitCall ==
    /\ hpc = "idle" /\ nruns > 0
    /\ hpc' = "wait"
    /\ UNCHANGED <<hwVars, gpioval, active, done, profVars, todo, isrVars,
                   histVars>>

WaitCompleted ==
    /\ hpc = "wait" /\ done > 0
    /\ done' = done - 1
    /\ awaited' = TRUE /\ hpc' = "idle"
    /\ UNCHANGED <<hwVars, gpioval, active, profVars, todo, isrVars, nruns,
                   nresets, ended, host>>

WaitTimeout ==
    /\ hpc = "wait" /\ done = 0
    /\ hpc' = "idle"
    /\ UNCHANGED <<hwVars, gpioval, active, done, profVars, todo, isrVars,
                   histVars>>

(***************************************************************************)
(* CTRL_RESET pulses the reset line; gpio_value keeps the fetch-enable     *)
(* bits, so an enabled cluster starts again.                               *)
(***************************************************************************)
CtrlReset ==
    /\ hpc = "idle" /\ nresets < MaxResets
    /\ host = "hasty" \/ gpioval = {}
    /\ cstate' = [c \in Clusters |-> IF c \in gpio THEN "running" ELSE "off"]
    /\ nresets' = nresets + 1
    /\ UNCHANGED <<gpio, intr, gpioval, active, done, profVars, hostVars,
                   isrVars, nruns, awaited, ended, host>>

\* pulp_release resets gpio_value and leaves the rest to the next CTRL_START.
Release ==
    /\ hpc = "idle"
    /\ host = "hasty" \/ awaited
    /\ gpioval' = {}
    /\ WriteGpio({})
    /\ UNCHANGED <<intr, active, done, profVars, hostVars, isrVars, histVars>>
----------------------------------------------------------------------------
(***************************************************************************)
(* pulp_isr: reads and clears the interrupt register, then handles each    *)
(* cluster.  Clearing a bit of active_cluster_mask is a load and a store.  *)
(***************************************************************************)
\* Mutant: only one bit of the register that was read and cleared is handled.
IsrReadOne ==
    /\ ipc = "idle" /\ intr # {}
    /\ \E c \in Clusters : IsFirst(c, intr) /\ ibits' = {c}
    /\ intr' = {} /\ ipc' = "finish"
    /\ UNCHANGED <<gpio, cstate, gpioval, active, done, profVars, hostVars,
                   imask, histVars>>

IsrRead ==
    /\ ipc = "idle" /\ intr # {}
    /\ ibits' = intr /\ intr' = {}
    /\ ipc' = "finish"
    /\ UNCHANGED <<gpio, cstate, gpioval, active, done, profVars, hostVars,
                   imask, histVars>>

IsrFinish(c) ==
    /\ ipc = "finish" /\ IsFirst(c, ibits)
    /\ hfin' = hfin \cup {c} /\ afin' = afin \cup {c}
    /\ imask' = active
    /\ ipc' = "store"
    /\ UNCHANGED <<hwVars, gpioval, active, done, hostVars, ibits, histVars>>

IsrStore(c) ==
    /\ ipc = "store" /\ IsFirst(c, ibits)
    /\ active' = imask \ {c}
    /\ ipc' = "check"
    /\ UNCHANGED <<hwVars, gpioval, done, profVars, hostVars, ibits, imask,
                   histVars>>

\* Mutant: the completion is signalled for every cluster.
IsrCompleteAny(c) ==
    /\ ipc = "check" /\ IsFirst(c, ibits)
    /\ done' = done + 1
    /\ ibits' = ibits \ {c}
    /\ ipc' = (IF ibits = {c} THEN "idle" ELSE "finish")
    /\ UNCHANGED <<hwVars, gpioval, active, profVars, hostVars, imask, histVars>>

IsrComplete(c) ==
    /\ ipc = "check" /\ IsFirst(c, ibits)
    /\ done' = (IF active = {} THEN done + 1 ELSE done)
    /\ ibits' = ibits \ {c}
    /\ ipc' = (IF ibits = {c} THEN "idle" ELSE "finish")
    /\ UNCHANGED <<hwVars, gpioval, active, profVars, hostVars, imask, histVars>>

Isr == IsrRead \/ \E c \in Clusters : IsrFinish(c) \/ IsrStore(c) \/ IsrComplete(c)

Start == \/ StartSet \/ StartArm \/ StartReinit \/ StartWrite
         \/ \E c \in Clusters : StartHostTime(c) \/ StartAccelTime(c)

Stop == \/ StopWrite \/ StopDisarm
        \/ \E c \in Clusters : StopHostTime(c) \/ StopAccelTime(c)

Wait == WaitCall \/ WaitCompleted \/ WaitTimeout

CtrlNext == \/ \E c \in Clusters : ClusterEoc(c)
            \/ Start \/ Stop \/ Wait \/ CtrlReset \/ Release \/ Isr

CtrlSpec == CtrlInit /\ [][CtrlNext]_ctrlVars

\* The interrupt is delivered and its handler runs; an ioctl that has been
\* entered returns.  Nothing forces the host to call or the clusters to end.
CtrlFairness == /\ WF_ctrlVars(Isr)
                /\ WF_ctrlVars(hpc # "idle" /\ (Start \/ Stop \/ Wait))

CtrlFairSpec == CtrlSpec /\ CtrlFairness
----------------------------------------------------------------------------
(***************************************************************************)
(* Types of the driver's and the hardware's state.                         *)
(***************************************************************************)
CtrlDataOK ==
    /\ gpio \in SUBSET Clusters /\ intr \in SUBSET Clusters
    /\ cstate \in [Clusters -> {"off", "running", "done"}]
    /\ gpioval \in SUBSET Clusters /\ active \in SUBSET Clusters
    /\ done \in Nat
    /\ hfin \in SUBSET Clusters /\ afin \in SUBSET Clusters
    /\ hpc \in {"idle", "starthost", "startaccel", "arm", "reinit", "go",
                "stophost", "stopaccel", "wait"}
    /\ todo \in SUBSET Clusters
    /\ ipc \in {"idle", "finish", "store", "check"}
    /\ ibits \in SUBSET Clusters /\ imask \in SUBSET Clusters
    /\ nruns \in Nat /\ nresets \in Nat /\ ended \in SUBSET Clusters
    /\ host \in {"patient", "hasty"}

CtrlTypeOK == CtrlDataOK /\ awaited \in BOOLEAN

(***************************************************************************)
(* A host that stops only what it has awaited: once a run has been let go, *)
(* a completion is there only if every cluster has signalled the end of    *)
(* its computation.  A bit left over in the handler or in the interrupt    *)
(* register must not complete the next run.                                *)
(***************************************************************************)
CompletionMeansDone ==
    (host = "patient" /\ hpc \in {"idle", "wait"} /\ done > 0) => ended = Clusters

(***************************************************************************)
(* Under the same discipline a run that is over has both finish times of   *)
(* every cluster, and a run that has begun no finish time of a cluster     *)
(* that has not ended.                                                     *)
(***************************************************************************)
ProfileOfThisRun ==
    (host = "patient" /\ hpc \in {"idle", "wait"} /\ nruns > 0) =>
        /\ hfin \subseteq ended /\ afin \subseteq ended
        /\ awaited => hfin = Clusters /\ afin = Clusters

(***************************************************************************)
(* Whatever the host did before, even if it stopped clusters before their  *)
(* end and an old interrupt is handled late: when all clusters of a run    *)
(* have ended, its completion is signalled, however CTRL_STOP, a timed-out *)
(* CTRL_WAIT or CTRL_RESET race with the interrupt, unless the host starts *)
(* the next run first.                                                     *)
(***************************************************************************)
Starting == hpc \in {"starthost", "startaccel", "arm", "reinit", "go"}

EocCompletes ==
    (~Starting /\ ended = Clusters /\ ~awaited) ~> (done > 0 \/ awaited \/ Starting)
=============================================================================
