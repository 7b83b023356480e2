------------------------------- MODULE SemPool -------------------------------
(***************************************************************************)
(* Exercise 30, section 4: NUM_WORKERS threads share POOL_SIZE resource    *)
(* slots through a counting semaphore; main creates them one by one with a *)
(* heap-allocated id each, joins them in order and destroys the semaphore. *)
(***************************************************************************)
EXTENDS Naturals, FiniteSets

CONSTANTS POOL_SIZE,     \* slots (3 in the code)
          NUM_WORKERS    \* threads (6 in the code)

ASSUME PoolAssumption == POOL_SIZE \in Nat \ {0}
ASSUME WorkersAssumption == NUM_WORKERS \in Nat \ {0}

Workers == 1 .. NUM_WORKERS

VARIABLES g_pool,      \* the semaphore's value
          destroyed,   \* sem_destroy has been called
          ids,         \* workers whose heap-allocated id is live
          pc,          \* each worker: unborn, start, wait, using, exited
          main, i      \* section4_counting: its phase and loop index

vars == <<g_pool, destroyed, ids, pc, main, i>>

Init ==
    /\ g_pool = POOL_SIZE
    /\ destroyed = FALSE
    /\ ids = {}
    /\ pc = [w \in Workers |-> "unborn"]
    /\ main = "create" /\ i = 1

Goto(w, a, b) == pc[w] = a /\ pc' = [pc EXCEPT ![w] = b]

\* malloc the id, pthread_create; after the last worker the joins begin.
create_worker ==
    /\ main = "create"
    /\ ids' = ids \cup {i}
    /\ Goto(i, "unborn", "start")
    /\ main' = IF i < NUM_WORKERS THEN "create" ELSE "join"
    /\ i' = IF i < NUM_WORKERS THEN i + 1 ELSE 1
    /\ UNCHANGED <<g_pool, destroyed>>

\* malloc failed: exit(1).
create_fails ==
    /\ main = "create"
    /\ main' = "exit1"
    /\ UNCHANGED <<g_pool, destroyed, ids, pc, i>>

\* Wrong: the join loop stops one worker early.
join_worker_short ==
    /\ main = "join"
    /\ pc[i] = "exited"
    /\ main' = IF i + 1 < NUM_WORKERS THEN "join" ELSE "destroy"
    /\ i' = i + 1
    /\ UNCHANGED <<g_pool, destroyed, ids, pc>>

join_worker ==
    /\ main = "join"
    /\ pc[i] = "exited"
    /\ main' = IF i < NUM_WORKERS THEN "join" ELSE "destroy"
    /\ i' = i + 1
    /\ UNCHANGED <<g_pool, destroyed, ids, pc>>

destroy_pool ==
    /\ main = "destroy"
    /\ destroyed' = TRUE
    /\ main' = "return"
    /\ UNCHANGED <<g_pool, ids, pc, i>>

section4_counting == create_worker \/ join_worker \/ destroy_pool

-----------------------------------------------------------------------------
\* int id = *(int *)arg; free(arg)
take_id(w) ==
    /\ Goto(w, "start", "wait")
    /\ ids' = ids \ {w}
    /\ UNCHANGED <<g_pool, destroyed, main, i>>

\* Wrong: test and decrement are not one step, so the value is not tested.
sem_wait_pool_unguarded(w) ==
    /\ Goto(w, "wait", "using")
    /\ g_pool' = IF g_pool = 0 THEN 0 ELSE g_pool - 1
    /\ UNCHANGED <<destroyed, ids, main, i>>

\* sem_wait(&g_pool)
sem_wait_pool(w) ==
    /\ g_pool > 0
    /\ Goto(w, "wait", "using")
    /\ g_pool' = g_pool - 1
    /\ UNCHANGED <<destroyed, ids, main, i>>

\* Wrong: the slot is not given back.
sem_post_pool_missing(w) ==
    /\ Goto(w, "using", "exited")
    /\ UNCHANGED <<g_pool, destroyed, ids, main, i>>

\* sem_post(&g_pool); return NULL
sem_post_pool(w) ==
    /\ Goto(w, "using", "exited")
    /\ g_pool' = g_pool + 1
    /\ UNCHANGED <<destroyed, ids, main, i>>

worker(w) ==
    main # "exit1" /\ (take_id(w) \/ sem_wait_pool(w) \/ sem_post_pool(w))

Over == main \in {"return", "exit1"}

Next ==
    \/ section4_counting
    \/ create_fails
    \/ \E w \in Workers : worker(w)
    \/ Over /\ UNCHANGED vars

Spec == Init /\ [][Next]_vars

-----------------------------------------------------------------------------
Users == {w \in Workers : pc[w] = "using"}

TypeOK ==
    /\ g_pool \in 0 .. POOL_SIZE
    /\ destroyed \in BOOLEAN
    /\ ids \subseteq Workers
    /\ pc \in [Workers -> {"unborn", "start", "wait", "using", "exited"}]
    /\ main \in {"create", "join", "destroy", "return", "exit1"}
    /\ i \in 1 .. NUM_WORKERS + 1
    /\ main \in {"create", "join"} => i \in Workers

(***************************************************************************)
(* The semaphore counts exactly the slots not in use, so at most POOL_SIZE *)
(* workers are ever between their sem_wait and their sem_post: what line   *)
(* 153 of semaphores.c prints.                                             *)
(***************************************************************************)
SlotsAccounted ==
    /\ g_pool + Cardinality(Users) = POOL_SIZE
    /\ Cardinality(Users) <= POOL_SIZE

(***************************************************************************)
(* sem_destroy comes after every worker's last use of the semaphore, and   *)
(* by then every worker has freed its id.                                  *)
(***************************************************************************)
DestroyedAfterLastUse ==
    destroyed => /\ \A w \in Workers : pc[w] = "exited"
                 /\ ids = {}

==============================================================================
