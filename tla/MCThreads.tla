------------------------------ MODULE MCThreads ------------------------------
(***************************************************************************)
(* The instance of exercise 24 that TLC checks, with the counters of       *)
(* exercise 29. The program's sections run one after the other and share   *)
(* no variable: a behaviour is one of them, chosen at the start, and the   *)
(* others stay at their initial states.                                    *)
(***************************************************************************)
EXTENDS BQueue

CONSTANTS ITERS,     \* increments of each counting thread
          NTHREADS   \* threads that pass heap objects

VARIABLES demo, cnt_section, cnt_counter, cnt_locked, cnt_pc, cnt_n, cnt_reg,
          cnt_main, life_main, life_m, life_pc, life_ret, life_heap,
          life_freed, life_g_detached_done, life_lock_a, life_lock_b

Cnt == INSTANCE Counters WITH
    Workers <- Consumers, section <- cnt_section,
    counter <- cnt_counter, locked <- cnt_locked, pc <- cnt_pc, n <- cnt_n,
    reg <- cnt_reg, main <- cnt_main

Life == INSTANCE ThreadLife WITH
    main <- life_main, m <- life_m, pc <- life_pc,
    ret <- life_ret, heap <- life_heap, freed <- life_freed,
    g_detached_done <- life_g_detached_done, lock_a <- life_lock_a,
    lock_b <- life_lock_b

ASSUME CountersConstants == Cnt!CountersAssumption
ASSUME ThreadsConstants == Life!ThreadsAssumption

cntVars == <<cnt_section, cnt_counter, cnt_locked, cnt_pc, cnt_n, cnt_reg,
            cnt_main>>
lifeVars == <<life_main, life_m, life_pc, life_ret, life_heap, life_freed,
            life_g_detached_done, life_lock_a, life_lock_b>>
mcVars == <<demo, vars, cntVars, lifeVars>>

MCInit ==
    /\ demo \in {"queue", "counters", "lives"}
    /\ cnt_section \in IF demo = "counters" THEN Cnt!Variants ELSE {"race"}
    /\ Init /\ Cnt!Init /\ Life!Init

MCNext ==
    \/ demo = "queue" /\ Next /\ UNCHANGED <<demo, cntVars, lifeVars>>
    \/ demo = "counters" /\ Cnt!Next /\ UNCHANGED <<demo, vars, lifeVars>>
    \/ demo = "lives" /\ Life!Next /\ UNCHANGED <<demo, vars, cntVars>>

(***************************************************************************)
(* The threads of the running section are scheduled.  The library does not *)
(* wake threads spuriously for ever; nothing is assumed of the order in    *)
(* which contending threads get a lock.                                    *)
(***************************************************************************)
MCFairness ==
    /\ WF_vars(demo = "queue" /\ section_condvar)
    /\ WF_vars(demo = "queue" /\ producer)
    /\ \A c \in Consumers : WF_vars(demo = "queue" /\ consumer(c))
    /\ <>[][\A t \in Threads : ~SpuriousWakeup(t)]_vars
    /\ WF_cntVars(demo = "counters" /\ Cnt!section_main)
    /\ \A w \in Consumers : WF_cntVars(demo = "counters" /\ Cnt!thread(w))
    /\ WF_lifeVars(demo = "lives" /\ Life!main_thread)
    /\ \A t \in Life!Threads : WF_lifeVars(demo = "lives" /\ Life!thread(t))

MCSpec == MCInit /\ [][MCNext]_mcVars /\ MCFairness

-----------------------------------------------------------------------------
(***************************************************************************)
(* Increments are lost only where the program races on purpose, and there  *)
(* never so many that less than two are left.                              *)
(***************************************************************************)
CountRight == Cnt!CountRight

(***************************************************************************)
(* Heap objects pass from main to a thread and back without being used     *)
(* after free, freed twice or leaked, whichever malloc fails, and the      *)
(* detached thread raises its flag only when it is done with its argument. *)
(***************************************************************************)
Ownership == Life!NoUseAfterFree /\ Life!NoLeakNoDoubleFree /\ Life!FlagAfterWork

(***************************************************************************)
(* Whichever section runs, its joins and its spin loop return: no lock     *)
(* order, lost wake-up or lock kept at exit leaves main waiting.           *)
(***************************************************************************)
Terminates ==
    <>(\/ demo = "queue" /\ main = "done"
       \/ demo = "counters" /\ cnt_main = "done"
       \/ demo = "lives" /\ Life!Over)
=============================================================================
