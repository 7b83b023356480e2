----------------------------- MODULE ThreadLife ------------------------------
(***************************************************************************)
(* Exercise 24, sections 1, 5 and 6: who owns the heap objects handed to   *)
(* and returned by threads, when a detached thread has finished, and the   *)
(* order in which two threads take two locks.                              *)
(*                                                                         *)
(* A heap object is named by what it is and by the thread it belongs to:   *)
(* <<"arg", t>> is the malloc'ed argument, <<"res", t>> the result.        *)
(* heap is the set of live objects, freed counts the calls of free.        *)
(* malloc can fail; pthread_create is taken to succeed, as the code does.  *)
(***************************************************************************)
EXTENDS Naturals, Sequences, FiniteSets

CONSTANTS NTHREADS   \* workers of section 1 (4 in the code)

ThreadsAssumption == NTHREADS \in Nat \ {0}

\* Threads are numbered in the order in which main creates them.
detached == NTHREADS + 1
stacksz == NTHREADS + 2
first == NTHREADS + 3
second == NTHREADS + 4

Workers == 1 .. NTHREADS            \* section_basics
Extra == {detached, stacksz}        \* section_attrs
Lockers == {first, second}          \* section_pitfalls
Threads == Workers \cup Extra \cup Lockers

VARIABLES main,      \* where the main thread is
          m,         \* its loop index in section_basics
          pc,        \* where each created thread is
          ret,       \* value returned by each thread: "obj", "NULL" or "none"
          heap, freed,
          g_detached_done,
          lock_a, lock_b   \* owners of the two mutexes

vars == <<main, m, pc, ret, heap, freed, g_detached_done, lock_a, lock_b>>

Nobody == 0
Objects == {"arg", "res"} \X (Workers \cup Extra)

Init ==
    /\ main = "spawn" /\ m = 1
    /\ pc = [t \in Threads |-> "unborn"]
    /\ ret = [t \in Threads |-> "none"]
    /\ heap = {}
    /\ freed = [o \in Objects |-> 0]
    /\ g_detached_done = FALSE
    /\ lock_a = Nobody /\ lock_b = Nobody

Free(o) == heap' = heap \ {o} /\ freed' = [freed EXCEPT ![o] = @ + 1]
Goto(t, a, b) == pc[t] = a /\ pc' = [pc EXCEPT ![t] = b]

-----------------------------------------------------------------------------
(* The thread functions.                                                   *)

\* worker: the sum is computed from *a before the result is allocated.
worker_alloc(t) ==
    /\ Goto(t, "start", "fill")
    /\ heap' = heap \cup {<<"res", t>>}
    /\ UNCHANGED <<main, m, ret, freed, g_detached_done, lock_a, lock_b>>

\* malloc of the result failed: free(a); return NULL.
worker_alloc_fails(t) ==
    /\ Goto(t, "start", "exited")
    /\ Free(<<"arg", t>>)
    /\ ret' = [ret EXCEPT ![t] = "NULL"]
    /\ UNCHANGED <<main, m, g_detached_done, lock_a, lock_b>>

\* res->id = a->id; res->sum = sum; free(a); return res.
worker_return(t) ==
    /\ Goto(t, "fill", "exited")
    /\ Free(<<"arg", t>>)
    /\ ret' = [ret EXCEPT ![t] = "obj"]
    /\ UNCHANGED <<main, m, g_detached_done, lock_a, lock_b>>

worker(t) == worker_alloc(t) \/ worker_alloc_fails(t) \/ worker_return(t)

\* int n = *(int *)arg; free(arg)
read_and_free(t) ==
    /\ t \in Extra
    /\ Goto(t, "start", IF t = detached THEN "announce" ELSE "exited")
    /\ Free(<<"arg", t>>)
    /\ UNCHANGED <<main, m, ret, g_detached_done, lock_a, lock_b>>

\* Wrong: the flag is set before the argument is read and freed.
detached_fn_early ==
    \/ /\ Goto(detached, "start", "late")
       /\ g_detached_done' = TRUE
       /\ UNCHANGED <<main, m, ret, heap, freed, lock_a, lock_b>>
    \/ /\ Goto(detached, "late", "exited")
       /\ Free(<<"arg", detached>>)
       /\ UNCHANGED <<main, m, ret, g_detached_done, lock_a, lock_b>>

\* g_detached_done = 1, the last thing the detached thread does.
detached_fn ==
    \/ read_and_free(detached)
    \/ /\ Goto(detached, "announce", "exited")
       /\ g_detached_done' = TRUE
       /\ UNCHANGED <<main, m, ret, heap, freed, lock_a, lock_b>>

stacksz_fn == read_and_free(stacksz)

\* lock A, lock B, unlock B, unlock A.
safe_order(t) ==
    /\ t \in Lockers
    /\ \/ /\ lock_a = Nobody /\ Goto(t, "start", "has_a")
          /\ lock_a' = t /\ UNCHANGED lock_b
       \/ /\ lock_b = Nobody /\ Goto(t, "has_a", "has_both")
          /\ lock_b' = t /\ UNCHANGED lock_a
       \/ /\ Goto(t, "has_both", "release_a")
          /\ lock_b' = Nobody /\ UNCHANGED lock_a
       \/ /\ Goto(t, "release_a", "exited")
          /\ lock_a' = Nobody /\ UNCHANGED lock_b
    /\ UNCHANGED <<main, m, ret, heap, freed, g_detached_done>>

-----------------------------------------------------------------------------
(* The main thread: section_basics, section_attrs, section_pitfalls.       *)

MainGoto(a, b) == main = a /\ main' = b

\* malloc of an argument failed: exit(1) ends all threads.
arg_alloc_fails ==
    /\ main \in {"spawn", "spawn_detached", "spawn_stacksz"}
    /\ main' = "exit1"
    /\ UNCHANGED <<m, pc, ret, heap, freed, g_detached_done, lock_a, lock_b>>

spawn_worker ==
    /\ MainGoto("spawn", IF m < NTHREADS THEN "spawn" ELSE "join")
    /\ m' = IF m < NTHREADS THEN m + 1 ELSE 1
    /\ Goto(m, "unborn", "start")
    /\ heap' = heap \cup {<<"arg", m>>}
    /\ UNCHANGED <<ret, freed, g_detached_done, lock_a, lock_b>>

\* pthread_join of worker m; a NULL result is skipped, others are freed.
join_worker ==
    /\ pc[m] = "exited"
    /\ MainGoto("join", IF m < NTHREADS THEN "join" ELSE "spawn_detached")
    /\ m' = m + 1
    /\ IF ret[m] = "NULL" THEN UNCHANGED <<heap, freed>> ELSE Free(<<"res", m>>)
    /\ UNCHANGED <<pc, ret, g_detached_done, lock_a, lock_b>>

section_basics == spawn_worker \/ join_worker

spawn_extra(t, a, b) ==
    /\ MainGoto(a, b)
    /\ Goto(t, "unborn", "start")
    /\ heap' = heap \cup {<<"arg", t>>}
    /\ UNCHANGED <<m, ret, freed, g_detached_done, lock_a, lock_b>>

\* The spin on the flag and the join only wait.
wait_for(cond, a, b) ==
    /\ cond
    /\ MainGoto(a, b)
    /\ UNCHANGED <<m, pc, ret, heap, freed, g_detached_done, lock_a, lock_b>>

section_attrs ==
    \/ spawn_extra(detached, "spawn_detached", "spin")
    \/ wait_for(g_detached_done, "spin", "spawn_stacksz")
    \/ spawn_extra(stacksz, "spawn_stacksz", "join_stacksz")
    \/ wait_for(pc[stacksz] = "exited", "join_stacksz", "spawn_first")

spawn_locker(t, a, b) ==
    /\ MainGoto(a, b)
    /\ Goto(t, "unborn", "start")
    /\ UNCHANGED <<m, ret, heap, freed, g_detached_done, lock_a, lock_b>>

section_pitfalls ==
    \/ spawn_locker(first, "spawn_first", "spawn_second")
    \/ spawn_locker(second, "spawn_second", "join_lockers")
    \/ wait_for(\A t \in Lockers : pc[t] = "exited", "join_lockers", "return")

main_thread == section_basics \/ section_attrs \/ section_pitfalls

Over == main \in {"return", "exit1"}

\* A created thread runs until it ends or exit(1) ends the process.
thread(t) ==
    /\ main # "exit1"
    /\ \/ t \in Workers /\ worker(t)
       \/ t = detached /\ detached_fn
       \/ t = stacksz /\ stacksz_fn
       \/ safe_order(t)

Next ==
    \/ main_thread
    \/ arg_alloc_fails
    \/ \E t \in Threads : thread(t)
    \/ Over /\ UNCHANGED vars

Spec == Init /\ [][Next]_vars

-----------------------------------------------------------------------------

(***************************************************************************)
(* A thread that is about to read or free its argument, and the main       *)
(* thread about to read a result, find it allocated: ownership passes from *)
(* creator to thread and back without overlap, whichever malloc failed.    *)
(***************************************************************************)
NoUseAfterFree ==
    /\ \A t \in Workers \cup Extra : pc[t] = "start" => <<"arg", t>> \in heap
    /\ \A t \in Workers : pc[t] = "fill" => {<<"arg", t>>, <<"res", t>>} \subseteq heap
    /\ \A t \in Workers : (main = "join" /\ m <= t /\ ret[t] = "obj")
                            => <<"res", t>> \in heap

\* No object is ever freed twice and a freed one is gone; only a result that a
\* worker returned is freed. When main returns normally nothing is left: every
\* argument, and every result that was returned, has been freed exactly once.
NoLeakNoDoubleFree ==
    /\ \A o \in Objects : freed[o] <= 1 /\ (freed[o] = 1 => o \notin heap)
    /\ \A t \in Workers : freed[<<"res", t>>] = 1 => ret[t] = "obj"
    /\ main = "return" =>
         /\ heap = {}
         /\ \A t \in Workers \cup Extra : freed[<<"arg", t>>] = 1
         /\ \A t \in Workers : ret[t] = "obj" => freed[<<"res", t>>] = 1

\* The flag is up only after the detached thread is done with its argument,
\* which is all that main's spin loop waits for.
FlagAfterWork == g_detached_done => freed[<<"arg", detached>>] = 1

==============================================================================
