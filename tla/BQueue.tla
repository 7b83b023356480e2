------------------------------- MODULE BQueue --------------------------------
(***************************************************************************)
(* Exercise 24, section 4 (threads.c): a ring buffer guarded by one mutex  *)
(* and two condition variables, one producer thread, several consumer      *)
(* threads, and the main thread that creates and joins them.               *)
(*                                                                         *)
(* One action is one step between two points where another thread can     *)
(* interfere: taking the mutex, testing the wait condition, each access to *)
(* the ring, signalling, unlocking.  The ring is read and written in steps *)
(* of its own although the mutex is held, so that losing mutual exclusion  *)
(* would show.                                                             *)
(*                                                                         *)
(* A condition variable is the set of threads blocked on it.  A thread     *)
(* leaves the set by a signal, a broadcast or spuriously, and must retake  *)
(* the mutex before pthread_cond_wait returns.                             *)
(***************************************************************************)
EXTENDS Naturals, Sequences, FiniteSets

CONSTANTS
    QCAP,        \* slots of the ring (8 in the code)
    NITEMS,      \* items the producer pushes (20 in the code)
    Consumers,   \* the consumer threads (two in the code)
    Producer,    \* the producer thread
    NoThread     \* the owner of a free mutex

ASSUME QcapAssumption == QCAP \in Nat \ {0}
ASSUME NitemsAssumption == NITEMS \in Nat
ASSUME ThreadAssumption ==
    /\ Producer \notin Consumers
    /\ NoThread \notin Consumers \cup {Producer}

VARIABLES
    data, head, tail, count, closed,   \* the BQueue fields
    mu,                                \* owner of q->mu
    not_full, not_empty,               \* threads blocked on each condition
    pc,                                \* where each thread is
    i,                                 \* producer's loop index
    val,                               \* consumer's local: last item read
    got,                               \* what each consumer accumulated
    main                               \* progress of section_condvar

vars == <<data, head, tail, count, closed, mu, not_full, not_empty,
          pc, i, val, got, main>>

queueVars == <<data, head, tail, count, closed>>

Threads == Consumers \cup {Producer}
Slots == 0 .. QCAP - 1
Items == 0 .. NITEMS - 1

ProducerPoints ==
    {"unborn", "push_lock", "push_test", "push_wait", "push_adv", "push_sig",
     "push_unlock", "close_lock", "close_set", "close_bcast",
     "close_unlock", "exited"}
ConsumerPoints ==
    {"unborn", "pop_lock", "pop_test", "pop_wait", "pop_read", "pop_adv",
     "pop_sig", "pop_unlock", "pop_ret0", "exited"}

\* The points of the code at which a thread owns q->mu.
Critical ==
    {"push_test", "push_adv", "push_sig", "push_unlock", "close_set",
     "close_bcast", "close_unlock", "pop_test", "pop_read", "pop_adv",
     "pop_sig", "pop_unlock", "pop_ret0"}

\* The static initialiser of bq and the reset at the top of the section.
Init ==
    /\ data = [s \in Slots |-> 0]
    /\ head = 0 /\ tail = 0 /\ count = 0
    /\ closed = FALSE
    /\ mu = NoThread
    /\ not_full = {} /\ not_empty = {}
    /\ pc = [t \in Threads |-> "unborn"]
    /\ i = 0
    /\ val = [c \in Consumers |-> 0]
    /\ got = [c \in Consumers |-> << >>]
    /\ main = "create"

-----------------------------------------------------------------------------
(* Mutexes and condition variables, as POSIX specifies them.               *)

\* pthread_mutex_lock: thread t moves from point a to b once the mutex is free.
Lock(t, a, b) ==
    /\ pc[t] = a
    /\ mu = NoThread
    /\ mu' = t
    /\ pc' = [pc EXCEPT ![t] = b]

\* pthread_mutex_unlock.
Unlock(t, a, b) ==
    /\ pc[t] = a
    /\ mu' = NoThread
    /\ pc' = [pc EXCEPT ![t] = b]

Goto(t, a, b) ==
    /\ pc[t] = a
    /\ pc' = [pc EXCEPT ![t] = b]

\* pthread_cond_signal: one of the blocked threads is woken, if there is one.
Signalled(waiting, after) ==
    IF waiting = {} THEN after = {} ELSE \E w \in waiting : after = waiting \ {w}

\* pthread_cond_wait may return although nobody signalled.
SpuriousWakeup(t) ==
    /\ t \in not_full \cup not_empty
    /\ not_full' = not_full \ {t}
    /\ not_empty' = not_empty \ {t}
    /\ UNCHANGED <<queueVars, mu, pc, i, val, got, main>>

-----------------------------------------------------------------------------
(* bq_push(q, i), called by the producer.                                  *)

bq_push_lock ==
    /\ Lock(Producer, "push_lock", "push_test")
    /\ UNCHANGED <<queueVars, not_full, not_empty, i, val, got, main>>

\* while (q->count == QCAP) pthread_cond_wait(&q->not_full, &q->mu)
bq_push_wait ==
    /\ count = QCAP
    /\ Unlock(Producer, "push_test", "push_wait")
    /\ not_full' = not_full \cup {Producer}
    /\ UNCHANGED <<queueVars, not_empty, i, val, got, main>>

\* pthread_cond_wait returns with the mutex held; the loop tests again.
bq_push_woken ==
    /\ Producer \notin not_full
    /\ Lock(Producer, "push_wait", "push_test")
    /\ UNCHANGED <<queueVars, not_full, not_empty, i, val, got, main>>

bq_push_store ==
    /\ count # QCAP
    /\ Goto(Producer, "push_test", "push_adv")
    /\ data' = [data EXCEPT ![tail] = i]
    /\ UNCHANGED <<head, tail, count, closed, mu, not_full, not_empty, i, val,
                   got, main>>

bq_push_advance ==
    /\ Goto(Producer, "push_adv", "push_sig")
    /\ tail' = (tail + 1) % QCAP
    /\ count' = count + 1
    /\ UNCHANGED <<data, head, closed, mu, not_full, not_empty, i, val, got,
                   main>>

bq_push_signal ==
    /\ Goto(Producer, "push_sig", "push_unlock")
    /\ Signalled(not_empty, not_empty')
    /\ UNCHANGED <<queueVars, mu, not_full, i, val, got, main>>

\* Unlock, return, and the producer's loop goes on to the next item or closes.
bq_push_unlock ==
    /\ Unlock(Producer, "push_unlock",
              IF i + 1 < NITEMS THEN "push_lock" ELSE "close_lock")
    /\ i' = i + 1
    /\ UNCHANGED <<queueVars, not_full, not_empty, val, got, main>>

-----------------------------------------------------------------------------
(* bq_close(q), called by the producer after its loop.                     *)

bq_close_lock ==
    /\ Lock(Producer, "close_lock", "close_set")
    /\ UNCHANGED <<queueVars, not_full, not_empty, i, val, got, main>>

bq_close_set ==
    /\ Goto(Producer, "close_set", "close_bcast")
    /\ closed' = TRUE
    /\ UNCHANGED <<data, head, tail, count, mu, not_full, not_empty, i, val,
                   got, main>>

\* A signal here would leave all consumers but one asleep for ever.
bq_close_signal_one ==
    /\ Goto(Producer, "close_bcast", "close_unlock")
    /\ Signalled(not_empty, not_empty')
    /\ UNCHANGED <<queueVars, mu, not_full, i, val, got, main>>

bq_close_broadcast ==
    /\ Goto(Producer, "close_bcast", "close_unlock")
    /\ not_empty' = {}
    /\ UNCHANGED <<queueVars, mu, not_full, i, val, got, main>>

bq_close_unlock ==
    /\ Unlock(Producer, "close_unlock", "exited")
    /\ UNCHANGED <<queueVars, not_full, not_empty, i, val, got, main>>

-----------------------------------------------------------------------------
(* bq_pop(q, &val), called by consumer c until it returns 0.               *)

bq_pop_lock(c) ==
    /\ Lock(c, "pop_lock", "pop_test")
    /\ UNCHANGED <<queueVars, not_full, not_empty, i, val, got, main>>

\* while (q->count == 0 && !q->closed) pthread_cond_wait(&q->not_empty, ..)
bq_pop_wait(c) ==
    /\ count = 0 /\ ~closed
    /\ Unlock(c, "pop_test", "pop_wait")
    /\ not_empty' = not_empty \cup {c}
    /\ UNCHANGED <<queueVars, not_full, i, val, got, main>>

\* The bug the comment at lines 193-196 warns of: an if instead of a while.
bq_pop_woken_no_retest(c) ==
    /\ c \notin not_empty
    /\ Lock(c, "pop_wait", "pop_read")
    /\ UNCHANGED <<queueVars, not_full, not_empty, i, val, got, main>>

bq_pop_woken(c) ==
    /\ c \notin not_empty
    /\ Lock(c, "pop_wait", "pop_test")
    /\ UNCHANGED <<queueVars, not_full, not_empty, i, val, got, main>>

\* The loop ends; with nothing left in a closed queue the call returns 0.
bq_pop_leave_loop(c) ==
    /\ count # 0 \/ closed
    /\ Goto(c, "pop_test", IF count = 0 THEN "pop_ret0" ELSE "pop_read")
    /\ UNCHANGED <<queueVars, mu, not_full, not_empty, i, val, got, main>>

bq_pop_read(c) ==
    /\ Goto(c, "pop_read", "pop_adv")
    /\ val' = [val EXCEPT ![c] = data[head]]
    /\ UNCHANGED <<queueVars, mu, not_full, not_empty, i, got, main>>

\* Wrong: head is advanced although the item was not counted out.
bq_pop_advance_uncounted(c) ==
    /\ Goto(c, "pop_adv", "pop_sig")
    /\ head' = (head + 1) % QCAP
    /\ UNCHANGED <<data, tail, count, closed, mu, not_full, not_empty, i, val,
                   got, main>>

bq_pop_advance(c) ==
    /\ Goto(c, "pop_adv", "pop_sig")
    /\ head' = (head + 1) % QCAP
    /\ count' = count - 1
    /\ UNCHANGED <<data, tail, closed, mu, not_full, not_empty, i, val, got,
                   main>>

bq_pop_no_signal(c) ==
    /\ Goto(c, "pop_sig", "pop_unlock")
    /\ UNCHANGED <<queueVars, mu, not_full, not_empty, i, val, got, main>>

bq_pop_signal(c) ==
    /\ Goto(c, "pop_sig", "pop_unlock")
    /\ Signalled(not_full, not_full')
    /\ UNCHANGED <<queueVars, mu, not_empty, i, val, got, main>>

\* return 1; the consumer's loop does sum += val; n++ and pops again.
bq_pop_unlock(c) ==
    /\ Unlock(c, "pop_unlock", "pop_lock")
    /\ got' = [got EXCEPT ![c] = Append(@, val[c])]
    /\ UNCHANGED <<queueVars, not_full, not_empty, i, val, main>>

\* return 0; the consumer prints its totals and its thread ends.
bq_pop_return0(c) ==
    /\ Unlock(c, "pop_ret0", "exited")
    /\ UNCHANGED <<queueVars, not_full, not_empty, i, val, got, main>>

-----------------------------------------------------------------------------
(* section_condvar: create the consumers, then the producer, join them all.*)

create_consumer(c) ==
    /\ main = "create"
    /\ Goto(c, "unborn", "pop_lock")
    /\ UNCHANGED <<queueVars, mu, not_full, not_empty, i, val, got, main>>

create_producer ==
    /\ main = "create"
    /\ \A c \in Consumers : pc[c] # "unborn"
    /\ Goto(Producer, "unborn", IF 0 < NITEMS THEN "push_lock" ELSE "close_lock")
    /\ main' = "join"
    /\ UNCHANGED <<queueVars, mu, not_full, not_empty, i, val, got>>

\* The joins only block: together they wait for every thread to end.
join_all ==
    /\ main = "join"
    /\ \A t \in Threads : pc[t] = "exited"
    /\ main' = "done"
    /\ UNCHANGED <<queueVars, mu, not_full, not_empty, pc, i, val, got>>

Finished == main = "done" /\ UNCHANGED vars

-----------------------------------------------------------------------------
producer ==
    \/ bq_push_lock \/ bq_push_wait \/ bq_push_woken \/ bq_push_store
    \/ bq_push_advance \/ bq_push_signal \/ bq_push_unlock
    \/ bq_close_lock \/ bq_close_set \/ bq_close_broadcast \/ bq_close_unlock

consumer(c) ==
    \/ bq_pop_lock(c) \/ bq_pop_wait(c) \/ bq_pop_woken(c)
    \/ bq_pop_leave_loop(c) \/ bq_pop_read(c) \/ bq_pop_advance(c)
    \/ bq_pop_signal(c) \/ bq_pop_unlock(c) \/ bq_pop_return0(c)

section_condvar ==
    create_producer \/ join_all \/ \E c \in Consumers : create_consumer(c)

Next ==
    \/ section_condvar
    \/ producer
    \/ \E c \in Consumers : consumer(c)
    \/ \E t \in Threads : SpuriousWakeup(t)
    \/ Finished

Spec == Init /\ [][Next]_vars

-----------------------------------------------------------------------------
(* What the queue guarantees.                                              *)

\* Items written to the ring so far: i counts only completed calls.
pushed == IF pc[Producer] \in {"push_sig", "push_unlock"} THEN i + 1 ELSE i

\* Consumer c has taken an item out of the ring and not yet added it up.
Holding(c) == pc[c] \in {"pop_sig", "pop_unlock"}

\* The items consumer c has taken out of the ring, the one still in val too.
TakenBy(c) ==
    {got[c][n] : n \in 1 .. Len(got[c])} \cup
    (IF Holding(c) THEN {val[c]} ELSE {})

Consumed == UNION {TakenBy(c) : c \in Consumers}

(***************************************************************************)
(* Types of the BQueue fields and of every thread's locals, with the       *)
(* indices head and tail inside the array and count at most QCAP.          *)
(***************************************************************************)
TypeOK ==
    /\ data \in [Slots -> Nat]
    /\ head \in Slots /\ tail \in Slots /\ count \in 0 .. QCAP
    /\ closed \in BOOLEAN
    /\ mu \in Threads \cup {NoThread}
    /\ not_full \subseteq {Producer} /\ not_empty \subseteq Consumers
    /\ pc \in [Threads -> ProducerPoints \cup ConsumerPoints]
    /\ pc[Producer] \in ProducerPoints
    /\ \A c \in Consumers : pc[c] \in ConsumerPoints
    /\ i \in 0 .. NITEMS
    /\ val \in [Consumers -> Nat]
    /\ got \in [Consumers -> Seq(Nat)]
    /\ main \in {"create", "join", "done"}

(***************************************************************************)
(* A thread is inside a critical section of bq_push, bq_pop or bq_close    *)
(* exactly when it owns q->mu: every path out of a call, pthread_cond_wait *)
(* and the early return of bq_pop included, has released the mutex.        *)
(***************************************************************************)
MutualExclusion == \A t \in Threads : pc[t] \in Critical <=> mu = t

(***************************************************************************)
(* What a thread's place in the code says of the queue: a slot is free     *)
(* when the producer is about to fill it, an item is there when a consumer *)
(* is about to take it, bq_pop returns 0 only from a closed, empty queue,  *)
(* and a thread is in a wait set only while inside pthread_cond_wait.      *)
(***************************************************************************)
ControlInv ==
    /\ pc[Producer] = "push_adv" => count < QCAP /\ data[tail] = i
    /\ pc[Producer] = "unborn" => i = 0
    /\ pc[Producer] \in {"push_lock", "push_test", "push_wait", "push_adv",
                         "push_sig", "push_unlock"} => i < NITEMS
    /\ pc[Producer] \in {"close_lock", "close_set", "close_bcast",
                         "close_unlock", "exited"} => i = NITEMS
    /\ closed <=> pc[Producer] \in {"close_bcast", "close_unlock", "exited"}
    /\ Producer \in not_full => pc[Producer] = "push_wait"
    /\ \A c \in Consumers :
          /\ pc[c] \in {"pop_read", "pop_adv"} => count > 0
          /\ pc[c] = "pop_adv" => val[c] = data[head]
          /\ pc[c] \in {"pop_ret0", "exited"} => closed /\ count = 0
          /\ c \in not_empty => pc[c] = "pop_wait"
    /\ main = "create" <=> pc[Producer] = "unborn"
    /\ main = "done" => \A t \in Threads : pc[t] = "exited"

\* The n slots of ring d from h on hold p - n, .., p - 1.
Window(d, h, n, p) ==
    \A k \in 0 .. n - 1 : d[(h + k) % QCAP] = (p - n) + k

(***************************************************************************)
(* The occupied part of the ring, from head, holds exactly the last count  *)
(* items pushed, oldest first, and tail is where the next one goes: the    *)
(* wrap-around of both indices never overwrites or skips an item.          *)
(***************************************************************************)
RingHoldsWindow ==
    /\ tail = (head + count) % QCAP
    /\ count <= pushed
    /\ Window(data, head, count, pushed)

(***************************************************************************)
(* Every item that left the ring was received by exactly one consumer, and *)
(* each consumer received its items in the order they were pushed.         *)
(***************************************************************************)
ExactlyOnceInOrder ==
    /\ Consumed = 0 .. (pushed - count) - 1
    /\ \A c, d \in Consumers : c # d => TakenBy(c) \cap TakenBy(d) = {}
    /\ \A c \in Consumers : \A m, n \in 1 .. Len(got[c]) :
          m < n => got[c][m] < got[c][n]
    /\ \A c \in Consumers : \A n \in 1 .. Len(got[c]) :
          Holding(c) => got[c][n] < val[c]

(***************************************************************************)
(* When the joins of section_condvar have returned, the consumers have     *)
(* split all NITEMS items between them, which is what the printed          *)
(* "expected sum across consumers" relies on.                              *)
(***************************************************************************)
AllConsumedAtJoin == main = "done" => Consumed = Items

(***************************************************************************)
(* No wake-up is lost.  A producer asleep on not_full means the ring is    *)
(* full or a consumer is about to signal; items in the ring mean a live    *)
(* consumer is awake or the producer is about to signal; and once bq_close *)
(* has broadcast nobody sleeps on not_empty.                               *)
(***************************************************************************)
NoLostWakeup ==
    /\ Producer \in not_full =>
          count = QCAP \/ \E c \in Consumers : pc[c] = "pop_sig"
    /\ (count > 0 /\ Consumers # {}) =>
          \/ pc[Producer] = "push_sig"
          \/ \E c \in Consumers : c \notin not_empty /\ pc[c] # "exited"
    /\ pc[Producer] \in {"close_unlock", "exited"} => not_empty = {}

(***************************************************************************)
(* Refinement: the ring read from head is the abstract channel, an item    *)
(* counts as received as soon as bq_pop has advanced head.                 *)
(***************************************************************************)
Fifo == INSTANCE BoundedFifo WITH
    channel <- [k \in 1 .. count |-> data[(head + k - 1) % QCAP]],
    taken <- [c \in Consumers |->
                IF Holding(c) THEN Append(got[c], val[c]) ELSE got[c]],
    sent <- pushed,
    open <- ~closed

\* bq_push, bq_pop and bq_close with their locks implement a bounded FIFO
\* channel whose put, get and close are atomic.
ImplementsFifo == Fifo!FifoSpec

==============================================================================
