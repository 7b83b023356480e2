------------------------------- MODULE LFStack -------------------------------
(***************************************************************************)
(* Exercise 29, section 6: the Treiber stack.  lf_push and lf_pop load the *)
(* head, work on it privately, and publish with a weak compare-exchange    *)
(* that fails when head has changed, or spuriously.                        *)
(*                                                                         *)
(* Two programs use the stack.  A team of one thread is the exercise's own *)
(* section6_lockfree_stack, which frees every node it pops.  A larger team *)
(* is a client that lf_push and lf_pop are written for and the exercise    *)
(* does not contain: threads that push and pop at the same time and keep   *)
(* what they pop.  Freeing or pushing a popped node again among several    *)
(* threads (the ABA problem) is outside both: the exercise says that it is *)
(* "not fixed here".                                                       *)
(***************************************************************************)
EXTENDS Naturals, Sequences, FiniteSets, Functions

CONSTANTS Threads, Mine, NULL,
          Teams        \* sets of threads that may run together

VARIABLES team,        \* the threads that run; chosen once
          head, next,  \* s->head and every node's next field
          live,        \* nodes allocated and not freed
          pc, k,       \* each thread's place; how many nodes it has pushed
          old_head, new_head,  \* the locals of lf_push and lf_pop
          popped       \* each thread's results of lf_pop

vars == <<team, head, next, live, pc, k, old_head, new_head, popped>>

Nodes == UNION {Range(Mine[t]) : t \in Threads}

\* Each thread has something to push, and malloc gives out no block twice.
NodesAssumption ==
    /\ Teams \subseteq SUBSET Threads
    /\ Mine \in [Threads -> Seq(Nodes)]
    /\ \A t \in Threads : Mine[t] # << >>
    /\ \A t, u \in Threads : \A i \in 1 .. Len(Mine[t]), j \in 1 .. Len(Mine[u]) :
         Mine[t][i] = Mine[u][j] => t = u /\ i = j
    /\ NULL \notin Nodes
    /\ IsFiniteSet(Nodes)

Init ==
    /\ team \in Teams
    /\ head = NULL
    /\ next = [n \in Nodes |-> NULL]
    /\ live = {}
    /\ pc = [t \in Threads |-> IF t \in team THEN "malloc" ELSE "absent"]
    /\ k = [t \in Threads |-> 0]
    /\ old_head = [t \in Threads |-> NULL]
    /\ new_head = [t \in Threads |-> NULL]
    /\ popped = [t \in Threads |-> << >>]

Goto(t, a, b) == pc[t] = a /\ pc' = [pc EXCEPT ![t] = b]

node(t) == Mine[t][k[t] + 1]

-----------------------------------------------------------------------------
\* Node *n = malloc(sizeof *n)
malloc_node(t) ==
    /\ Goto(t, "malloc", "push_load")
    /\ live' = live \cup {node(t)}
    /\ UNCHANGED <<team, head, next, k, old_head, new_head, popped>>

\* malloc returned NULL: exit(1) ends every thread of the process.
malloc_fails(t) ==
    /\ pc[t] = "malloc"
    /\ pc' = [u \in Threads |->
               IF pc[u] \in {"absent", "done"} THEN pc[u] ELSE "exit1"]
    /\ UNCHANGED <<team, head, next, live, k, old_head, new_head, popped>>

\* old_head = atomic_load(&s->head); node->next = old_head
lf_push_load(t) ==
    /\ Goto(t, "push_load", "push_cas")
    /\ old_head' = [old_head EXCEPT ![t] = head]
    /\ next' = [next EXCEPT ![node(t)] = head]
    /\ UNCHANGED <<team, head, live, k, new_head, popped>>

\* Wrong: the head is stored without comparing it.
lf_push_store(t) ==
    /\ Goto(t, "push_cas", IF k[t] + 1 < Len(Mine[t]) THEN "malloc" ELSE "pop_load")
    /\ head' = node(t)
    /\ k' = [k EXCEPT ![t] = @ + 1]
    /\ UNCHANGED <<team, next, live, old_head, new_head, popped>>

lf_push_cas(t) ==
    /\ head = old_head[t]
    /\ Goto(t, "push_cas", IF k[t] + 1 < Len(Mine[t]) THEN "malloc" ELSE "pop_load")
    /\ head' = node(t)
    /\ k' = [k EXCEPT ![t] = @ + 1]
    /\ UNCHANGED <<team, next, live, old_head, new_head, popped>>

\* The weak exchange fails and the do-while loop starts over.
lf_push_retry(t) ==
    /\ Goto(t, "push_cas", "push_load")
    /\ UNCHANGED <<team, head, next, live, k, old_head, new_head, popped>>

\* old_head = atomic_load(&s->head); an empty stack ends the popping loop.
lf_pop_load(t) ==
    /\ Goto(t, "pop_load", IF head = NULL THEN "done" ELSE "pop_next")
    /\ old_head' = [old_head EXCEPT ![t] = head]
    /\ UNCHANGED <<team, head, next, live, k, new_head, popped>>

\* new_head = old_head->next
lf_pop_next(t) ==
    /\ Goto(t, "pop_next", "pop_cas")
    /\ new_head' = [new_head EXCEPT ![t] = next[old_head[t]]]
    /\ UNCHANGED <<team, head, next, live, k, old_head, popped>>

\* Wrong: the new head is stored without comparing the old one.
lf_pop_store(t) ==
    /\ Goto(t, "pop_cas", "use")
    /\ head' = new_head[t]
    /\ popped' = [popped EXCEPT ![t] = Append(@, old_head[t])]
    /\ UNCHANGED <<team, next, live, k, old_head, new_head>>

lf_pop_cas(t) ==
    /\ head = old_head[t]
    /\ Goto(t, "pop_cas", "use")
    /\ head' = new_head[t]
    /\ popped' = [popped EXCEPT ![t] = Append(@, old_head[t])]
    /\ UNCHANGED <<team, next, live, k, old_head, new_head>>

lf_pop_retry(t) ==
    /\ Goto(t, "pop_cas", "pop_load")
    /\ UNCHANGED <<team, head, next, live, k, old_head, new_head, popped>>

\* printf("%d ", n->value); free(n)
use_and_free(t) ==
    /\ Goto(t, "use", "pop_load")
    /\ live' = live \ {old_head[t]}
    /\ UNCHANGED <<team, head, next, k, old_head, new_head, popped>>

\* A client that shares the stack reads the node and keeps it.
use_and_keep(t) ==
    /\ Goto(t, "use", "pop_load")
    /\ UNCHANGED <<team, head, next, live, k, old_head, new_head, popped>>

lf_push(t) == lf_push_load(t) \/ lf_push_cas(t) \/ lf_push_retry(t)

lf_pop(t) ==
    lf_pop_load(t) \/ lf_pop_next(t) \/ lf_pop_cas(t) \/ lf_pop_retry(t)

section6_lockfree_stack(t) ==
    malloc_node(t) \/ malloc_fails(t) \/ lf_push(t) \/ lf_pop(t) \/ use_and_free(t)

sharing_client(t) ==
    malloc_node(t) \/ malloc_fails(t) \/ lf_push(t) \/ lf_pop(t) \/ use_and_keep(t)

thread(t) ==
    \/ team = {t} /\ section6_lockfree_stack(t)
    \/ team # {t} /\ sharing_client(t)

AllDone == \A t \in Threads : pc[t] \in {"done", "absent", "exit1"}

Next ==
    \/ \E t \in Threads : thread(t)
    \/ AllDone /\ UNCHANGED vars

Spec == Init /\ [][Next]_vars

-----------------------------------------------------------------------------
\* The nodes reached from h through the next pointers nx, in that order.
From(h, nx) ==
    LET walk[d \in 0 .. Cardinality(Nodes)] ==
          IF d = 0 THEN h
          ELSE IF walk[d - 1] = NULL THEN NULL ELSE nx[walk[d - 1]]
        reached == {d \in 0 .. Cardinality(Nodes) : walk[d] # NULL}
    IN [d \in 1 .. Cardinality(reached) |-> walk[d - 1]]

\* The stack, top first.
Contents == From(head, next)

Pushed == UNION {{Mine[t][i] : i \in 1 .. k[t]} : t \in Threads}
Popped == UNION {Range(popped[t]) : t \in Threads}
OnStack == Range(Contents)

\* Nobody's loop, and no printf, reads a node that has been freed.
NoUseAfterFree ==
    /\ \A t \in Threads :
         /\ pc[t] \in {"pop_next", "use"} => old_head[t] \in live
         /\ pc[t] \in {"push_load", "push_cas"} => node(t) \in live
    /\ OnStack \subseteq live

\* A node that was pushed is on the stack or has been popped, by one thread and once.
PoppedOnce ==
    /\ Pushed = OnStack \cup Popped
    /\ OnStack \cap Popped = {}
    /\ \A t, u \in Threads : \A i \in DOMAIN popped[t], j \in DOMAIN popped[u] :
         popped[t][i] = popped[u][j] => t = u /\ i = j

\* section6 has freed every node it allocated when it has found the stack empty.
NothingLeaked == \A t \in Threads : team = {t} /\ pc[t] = "done" => live = {}

(***************************************************************************)
(* Whatever the interleaving of the exchanges of lf_push and lf_pop, no    *)
(* node is lost, handed out twice or touched after its free, and section6  *)
(* frees them all.                                                         *)
(***************************************************************************)
NodesAccounted == NoUseAfterFree /\ PoppedOnce /\ NothingLeaked

\* The compare-exchange loops implement the stack of atomic pushes and pops.
Atomic == INSTANCE AtomicStack WITH
    stack <- Contents, sent <- k, popped <- popped,
    gone <- {t \in Threads : pc[t] = "done"}
ImplementsStack == Atomic!StackSpec

==============================================================================
