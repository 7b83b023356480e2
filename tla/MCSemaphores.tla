------------------------------ MODULE MCSemaphores ------------------------------
(***************************************************************************)
(* The instance of exercise 30 that TLC checks: the pool, the named        *)
(* semaphore over several runs of the program, or the sections that need   *)
(* one semaphore each.                                                     *)
(***************************************************************************)
EXTENDS SemPool

CONSTANTS Runs, MaxCrashes, ForkMayFail,   \* of the named semaphore
          SECOND, DELAY, LAG               \* of the clock

VARIABLES demo, nam_name, nam_value, nam_parent, nam_child, nam_cs,
          nam_posted, nam_crashes, bas_pc, bas_sem, bas_alive, bas_g_value,
          bas_seen, bas_prod, bas_now, bas_asked, bas_ts, bas_rc

Named == INSTANCE NamedSem WITH
    name <- nam_name, value <- nam_value, parent <- nam_parent,
    child <- nam_child, cs <- nam_cs, posted <- nam_posted,
    crashes <- nam_crashes

Basic == INSTANCE SemBasics WITH
    pc <- bas_pc, sem <- bas_sem, alive <- bas_alive,
    g_value <- bas_g_value, seen <- bas_seen, prod <- bas_prod,
    now <- bas_now, asked <- bas_asked, ts <- bas_ts, rc <- bas_rc

ASSUME NamedConstants == Named!RunsAssumption
ASSUME ClockConstants == Basic!ClockAssumption

namVars == <<nam_name, nam_value, nam_parent, nam_child, nam_cs, nam_posted,
            nam_crashes>>
basVars == <<bas_pc, bas_sem, bas_alive, bas_g_value, bas_seen, bas_prod,
            bas_now, bas_asked, bas_ts, bas_rc>>
mcVars == <<demo, vars, namVars, basVars>>

MCInit ==
    /\ demo \in {"pool", "named", "basic"}
    /\ nam_name \in IF demo = "named" THEN {Named!NoObject, Named!OldObject} ELSE {Named!NoObject}
    /\ nam_value \in IF demo = "named" THEN Named!Leftovers ELSE {[o \in Named!Objects |-> 0]}
    /\ bas_now \in IF demo = "basic" THEN 0 .. SECOND - 1 ELSE {0}
    /\ Init /\ Named!Init /\ Basic!Init

MCNext ==
    \/ demo = "pool" /\ Next /\ UNCHANGED <<demo, namVars, basVars>>
    \/ demo = "named" /\ Named!Next /\ UNCHANGED <<demo, vars, basVars>>
    \/ demo = "basic" /\ Basic!Next /\ UNCHANGED <<demo, vars, namVars>>

\* Every thread and process is scheduled; who gets a slot is left open.
MCFairness ==
    /\ WF_vars(demo = "pool" /\ section4_counting)
    /\ \A w \in Workers : WF_vars(demo = "pool" /\ worker(w))
    /\ \A r \in Named!Executions :
         /\ WF_namVars(demo = "named" /\ Named!section6_named(r))
         /\ WF_namVars(demo = "named" /\ Named!child_process(r))
    /\ WF_basVars(demo = "basic" /\ Basic!main)
    /\ WF_basVars(demo = "basic" /\ Basic!producer_thread)

MCSpec == MCInit /\ [][MCNext]_mcVars /\ MCFairness

-----------------------------------------------------------------------------
(***************************************************************************)
(* The name's life over several runs, any of them killed: the unlink at    *)
(* the start lets every sem_open succeed, no run that ends leaves the name *)
(* behind, and as long as nobody crashed each parent is woken by its own   *)
(* child.                                                                  *)
(***************************************************************************)
NameLifecycle == Named!OpenNeverFails /\ Named!NameRemoved /\ Named!WokenByOwnChild

(***************************************************************************)
(* sem_timedwait gets a valid deadline that is neither early nor late for  *)
(* every reading of the clock; the handoff's consumer sees the data, and   *)
(* no call reaches a semaphore that is destroyed or not yet initialised.   *)
(***************************************************************************)
TimedAndHandedOver ==
    Basic!DeadlineRespected /\ Basic!HandoffSeesValue /\ Basic!OnlyLiveSemaphores

(***************************************************************************)
(* All workers are served, every run of the named section ends even after  *)
(* a crash of its predecessor unless its fork failed (sem_wait then has    *)
(* nobody to wait for), and the handoff is never missed.                   *)
(***************************************************************************)
Terminates ==
    <>(\/ demo = "pool" /\ Over
       \/ demo = "named" /\ (Named!AllOver \/ \E r \in Named!Executions : Named!Childless(r))
       \/ demo = "basic" /\ bas_pc = "done")
=============================================================================
