------------------------------ MODULE Counters -------------------------------
(***************************************************************************)
(* The shared counters of exercises 24 (sections 2 and 3) and 29           *)
(* (sections 2 and 5): N threads each increment one long ITERS times,      *)
(*   "race"    with a plain ++  (unsafe_inc, unsafe_worker),               *)
(*   "mutex"   under pthread_mutex_lock  (safe_inc),                       *)
(*   "atomic"  with atomic_fetch_add  (safe_worker),                       *)
(*   "spin"    under a test-and-set spinlock  (spin_worker).               *)
(* A plain ++ is a load and a store, whatever lock is around it.  The data *)
(* race of the first variant is undefined behaviour in C11; the outcomes   *)
(* modelled are those of the volatile load/add/store code that the comment *)
(* in threads.c lists.                                                     *)
(***************************************************************************)
EXTENDS Naturals, FiniteSets

CONSTANTS Workers,    \* the threads (NTHREADS = 4 in the code)
          ITERS       \* increments per thread (500000 in the code)

\* There are threads, and each has something to do.
CountersAssumption ==
    IsFiniteSet(Workers) /\ Workers # {} /\ ITERS \in Nat \ {0}

VARIABLES section,   \* the variant running; chosen once
          counter,   \* g_unsafe, g_safe or g_spin_count
          locked,    \* g_mutex held, or g_spin.flag set
          pc, n,     \* each thread: place in the loop body, iterations left
          reg,       \* each thread: the loaded value
          main       \* section_*: creating, joining, finished

vars == <<section, counter, locked, pc, n, reg, main>>

Variants == {"race", "mutex", "atomic", "spin"}
Expected == Cardinality(Workers) * ITERS

Init ==
    /\ section \in Variants
    /\ counter = 0
    /\ locked = FALSE
    /\ pc = [w \in Workers |-> "unborn"]
    /\ n = [w \in Workers |-> ITERS]
    /\ reg = [w \in Workers |-> 0]
    /\ main = "create"

\* The head of the loop body in each variant.
Top == CASE section = "race" -> "load" [] section = "atomic" -> "fetch_add"
         [] OTHER -> "lock"

Move(w, a, b) == pc[w] = a /\ pc' = [pc EXCEPT ![w] = b]

\* One iteration is over: the loop goes on or the thread function returns.
EndOfBody(w, a) ==
    /\ Move(w, a, IF n[w] = 1 THEN "exited" ELSE Top)
    /\ n' = [n EXCEPT ![w] = @ - 1]

-----------------------------------------------------------------------------
create(w) ==
    /\ main = "create"
    /\ Move(w, "unborn", Top)
    /\ UNCHANGED <<section, counter, locked, n, reg, main>>

all_created ==
    /\ main = "create"
    /\ \A w \in Workers : pc[w] # "unborn"
    /\ main' = "join"
    /\ UNCHANGED <<section, counter, locked, pc, n, reg>>

join_all ==
    /\ main = "join"
    /\ \A w \in Workers : pc[w] = "exited"
    /\ main' = "done"
    /\ UNCHANGED <<section, counter, locked, pc, n, reg>>

\* Wrong: the flag is tested, then set in a second step.
acquire_in_two_steps(w) ==
    \/ /\ ~locked
       /\ Move(w, "lock", "taking")
       /\ UNCHANGED <<section, counter, locked, n, reg, main>>
    \/ /\ Move(w, "taking", "load")
       /\ locked' = TRUE
       /\ UNCHANGED <<section, counter, n, reg, main>>

\* pthread_mutex_lock, or the test_and_set that finds the flag clear; a
\* test_and_set that finds it set writes back what is there and tries again.
acquire(w) ==
    /\ ~locked
    /\ Move(w, "lock", "load")
    /\ locked' = TRUE
    /\ UNCHANGED <<section, counter, n, reg, main>>

load(w) ==
    /\ Move(w, "load", "store")
    /\ reg' = [reg EXCEPT ![w] = counter]
    /\ UNCHANGED <<section, counter, locked, n, main>>

store(w) ==
    /\ counter' = reg[w] + 1
    /\ IF section = "race"
       THEN EndOfBody(w, "store")
       ELSE Move(w, "store", "unlock") /\ UNCHANGED n
    /\ UNCHANGED <<section, locked, reg, main>>

release(w) ==
    /\ locked' = FALSE
    /\ EndOfBody(w, "unlock")
    /\ UNCHANGED <<section, counter, reg, main>>

\* atomic_fetch_add: the read-modify-write is one step.
fetch_add(w) ==
    /\ counter' = counter + 1
    /\ EndOfBody(w, "fetch_add")
    /\ UNCHANGED <<section, locked, reg, main>>

-----------------------------------------------------------------------------
unsafe_inc(w) == section = "race" /\ (load(w) \/ store(w))

safe_inc(w) ==
    section = "mutex" /\ (acquire(w) \/ load(w) \/ store(w) \/ release(w))

safe_worker(w) == section = "atomic" /\ fetch_add(w)

spin_worker(w) ==
    section = "spin" /\ (acquire(w) \/ load(w) \/ store(w) \/ release(w))

thread(w) == unsafe_inc(w) \/ safe_inc(w) \/ safe_worker(w) \/ spin_worker(w)

create_and_join == all_created \/ join_all \/ \E w \in Workers : create(w)

section_race == section = "race" /\ create_and_join
section_mutex == section = "mutex" /\ create_and_join
section2_counter == section = "atomic" /\ create_and_join
section5_spinlock == section = "spin" /\ create_and_join

section_main ==
    section_race \/ section_mutex \/ section2_counter \/ section5_spinlock

Finished == main = "done" /\ UNCHANGED vars

Next == section_main \/ (\E w \in Workers : thread(w)) \/ Finished

Spec == Init /\ [][Next]_vars

-----------------------------------------------------------------------------

\* The increments whose store has happened, each thread's numbered from 1.
Stored(w) == (ITERS - n[w]) + (IF pc[w] = "unlock" THEN 1 ELSE 0)
Increments == {p \in Workers \X (1 .. ITERS) : p[2] <= Stored(p[1])}

(***************************************************************************)
(* With a mutex, a spinlock or fetch_add no increment is lost: at every    *)
(* moment the counter equals the increments completed so far, so the final *)
(* value is the expected one that sections 3, 2b and 5 print.              *)
(***************************************************************************)
NoLostUpdate ==
    section # "race" => /\ counter = Cardinality(Increments)
                        /\ main = "done" => counter = Expected

(***************************************************************************)
(* The unsynchronised counter can lose increments but not invent them, and *)
(* however unlucky the interleaving it ends at 2 or more once there are    *)
(* two threads with two iterations each: "lost" is never negative and      *)
(* never expected - 1.                                                     *)
(***************************************************************************)
RaceOutcome ==
    (section = "race" /\ main = "done") =>
      /\ counter <= Expected
      /\ counter >= (IF Cardinality(Workers) = 1 THEN ITERS
                     ELSE IF ITERS = 1 THEN 1 ELSE 2)

(***************************************************************************)
(* Increments are lost only where the program races on purpose, and there  *)
(* never so many that less than two are left.                              *)
(***************************************************************************)
CountRight == NoLostUpdate /\ RaceOutcome

==============================================================================
