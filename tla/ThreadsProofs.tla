---------------------------- MODULE ThreadsProofs ----------------------------
(***************************************************************************)
(* Proofs about exercise 24, and the counters of exercise 29, for every    *)
(* value of the constants: any ring size, number of items and consumers,   *)
(* any number of counting threads and iterations, any number of workers.   *)
(*                                                                         *)
(* The queue.  The inductive invariant is built in layers: CoreInv (types, *)
(* mutual exclusion and what each program point implies), then the         *)
(* contents of the ring, then who received what, then the wake-ups.        *)
(* The counters (Cnt) and the threads' heap objects (Life) follow, each    *)
(* with an invariant of its own: the sections share no variable.           *)
(***************************************************************************)
EXTENDS MCThreads, FiniteSetTheorems, TLAPS

\* The index arithmetic of the ring: an index plus at most QCAP wraps once.
LEMMA Wrap ==
    ASSUME NEW x \in Slots, NEW k \in 0 .. QCAP
    PROVE  (x + k) % QCAP = IF x + k < QCAP THEN x + k ELSE (x + k) - QCAP
  BY QcapAssumption, SMT DEF Slots

\* An index of the array is its own remainder.
LEMMA WrapZero ==
    ASSUME NEW x \in Slots
    PROVE  (x + 0) % QCAP = x
<1>1. x \in Nat /\ x < QCAP
  BY QcapAssumption DEF Slots
<1> QED
  BY <1>1, QcapAssumption, SMT

\* Advancing head or tail stays inside the array.
LEMMA WrapInSlots ==
    ASSUME NEW x \in Slots
    PROVE  (x + 1) % QCAP \in Slots
  BY Wrap, QcapAssumption, SMT DEF Slots

\* Indices of the occupied slots: in range, distinct from the next free slot,
\* and moved along by one when head is.
LEMMA WrapSlots ==
    ASSUME NEW x \in Slots, NEW n \in 0 .. QCAP
    PROVE  /\ (x + n) % QCAP \in Slots
           /\ n < QCAP => /\ (((x + n) % QCAP) + 1) % QCAP = (x + (n + 1)) % QCAP
                          /\ (((x + 1) % QCAP) + n) % QCAP = (x + (n + 1)) % QCAP
           /\ n < QCAP => \A k \in 0 .. n - 1 : (x + k) % QCAP # (x + n) % QCAP
<1> DEFINE W(y, m) == IF y + m < QCAP THEN y + m ELSE (y + m) - QCAP
<1>1. \A y \in Slots, m \in 0 .. QCAP : (y + m) % QCAP = W(y, m)
  BY Wrap
<1>2. \A y \in Slots, m \in 0 .. QCAP : W(y, m) \in Slots
  BY QcapAssumption DEF Slots
<1>3. (x + n) % QCAP = W(x, n) /\ (x + 1) % QCAP = W(x, 1)
  BY <1>1, QcapAssumption
<1>4. ASSUME n < QCAP
      PROVE  /\ W(W(x, n), 1) = W(x, n + 1) /\ W(W(x, 1), n) = W(x, n + 1)
             /\ \A k \in 0 .. n - 1 : W(x, k) # W(x, n)
  BY <1>4, QcapAssumption DEF Slots
<1>5. n < QCAP => n + 1 \in 0 .. QCAP
  BY QcapAssumption
<1>6. 1 \in 0 .. QCAP /\ \A k \in 0 .. n - 1 : k \in 0 .. QCAP
  BY QcapAssumption
<1> HIDE DEF W
<1> QED
  BY <1>1, <1>2, <1>3, <1>4, <1>5, <1>6

\* Writing the next free slot leaves the window as it is.
LEMMA WindowStore ==
    ASSUME NEW d \in [Slots -> Nat], NEW h \in Slots, NEW n \in 0 .. QCAP - 1,
           NEW p \in Nat, NEW v, Window(d, h, n, p)
    PROVE  Window([d EXCEPT ![(h + n) % QCAP] = v], h, n, p)
<1>1. n \in 0 .. QCAP /\ n < QCAP
  BY QcapAssumption
<1>2. \A k \in 0 .. n - 1 : k \in 0 .. QCAP /\ (h + k) % QCAP \in Slots
  BY QcapAssumption, WrapSlots
<1>3. \A k \in 0 .. n - 1 : (h + k) % QCAP # (h + n) % QCAP
  BY <1>1, WrapSlots
<1> QED
  BY <1>2, <1>3 DEF Window

\* Counting the slot just written in makes the window one longer.
LEMMA WindowPush ==
    ASSUME NEW d \in [Slots -> Nat], NEW h \in Slots, NEW n \in 0 .. QCAP - 1,
           NEW p \in Nat, Window(d, h, n, p), d[(h + n) % QCAP] = p
    PROVE  Window(d, h, n + 1, p + 1)
<1> SUFFICES ASSUME NEW k \in 0 .. (n + 1) - 1
             PROVE  d[(h + k) % QCAP] = ((p + 1) - (n + 1)) + k
  BY DEF Window
<1>1. CASE k = n
  BY <1>1, QcapAssumption
<1>2. CASE k # n
  <2>1. k \in 0 .. n - 1
    BY <1>2, QcapAssumption
  <2>2. d[(h + k) % QCAP] = (p - n) + k
    BY <2>1 DEF Window
  <2> QED
    BY <2>2, QcapAssumption
<1> QED
  BY <1>1, <1>2

\* Advancing head makes the window one shorter at its old end.
LEMMA WindowPop ==
    ASSUME NEW d \in [Slots -> Nat], NEW h \in Slots, NEW n \in 1 .. QCAP,
           NEW p \in Nat, Window(d, h, n, p)
    PROVE  Window(d, (h + 1) % QCAP, n - 1, p)
<1> SUFFICES ASSUME NEW k \in 0 .. (n - 1) - 1
             PROVE  d[(((h + 1) % QCAP) + k) % QCAP] = (p - (n - 1)) + k
  BY DEF Window
<1>1. k \in 0 .. QCAP /\ k < QCAP /\ k + 1 \in 0 .. n - 1
  BY QcapAssumption
<1>2. (((h + 1) % QCAP) + k) % QCAP = (h + (k + 1)) % QCAP
  BY <1>1, WrapSlots
<1>3. d[(h + (k + 1)) % QCAP] = (p - n) + (k + 1)
  BY <1>1 DEF Window
<1> QED
  BY <1>2, <1>3, QcapAssumption

CoreInv == TypeOK /\ MutualExclusion /\ ControlInv

-----------------------------------------------------------------------------
\* The reset queue, with no thread created, satisfies the core invariant.
LEMMA CoreInit == Init => CoreInv
  BY QcapAssumption, NitemsAssumption, ThreadAssumption, SMT
  DEF Init, CoreInv, TypeOK, MutualExclusion, ControlInv, Slots, Threads,
      Critical, ProducerPoints, ConsumerPoints

\* Every step of every thread preserves the core invariant.
LEMMA CoreStep == CoreInv /\ [Next]_vars => CoreInv'
<1> SUFFICES ASSUME CoreInv, [Next]_vars PROVE CoreInv'
  OBVIOUS
<1> USE QcapAssumption, NitemsAssumption, ThreadAssumption, WrapInSlots
    DEF CoreInv, TypeOK, MutualExclusion, ControlInv, Slots, Threads,
        Critical, ProducerPoints, ConsumerPoints, Lock, Unlock, Goto,
        queueVars
<1>1. CASE bq_push_lock
  BY <1>1 DEF bq_push_lock
<1>2. CASE bq_push_wait
  BY <1>2 DEF bq_push_wait
<1>3. CASE bq_push_woken
  BY <1>3 DEF bq_push_woken
<1>4. CASE bq_push_store
  BY <1>4 DEF bq_push_store
<1>5. CASE bq_push_advance
  BY <1>5 DEF bq_push_advance
<1>6. CASE bq_push_signal
  BY <1>6 DEF bq_push_signal, Signalled
<1>7. CASE bq_push_unlock
  BY <1>7 DEF bq_push_unlock
<1>8. CASE bq_close_lock
  BY <1>8 DEF bq_close_lock
<1>9. CASE bq_close_set
  BY <1>9 DEF bq_close_set
<1>10. CASE bq_close_broadcast
  BY <1>10 DEF bq_close_broadcast
<1>11. CASE bq_close_unlock
  BY <1>11 DEF bq_close_unlock
<1>12. ASSUME NEW c \in Consumers, bq_pop_lock(c) PROVE CoreInv'
  BY <1>12 DEF bq_pop_lock
<1>13. ASSUME NEW c \in Consumers, bq_pop_wait(c) PROVE CoreInv'
  BY <1>13 DEF bq_pop_wait
<1>14. ASSUME NEW c \in Consumers, bq_pop_woken(c) PROVE CoreInv'
  BY <1>14 DEF bq_pop_woken
<1>15. ASSUME NEW c \in Consumers, bq_pop_leave_loop(c) PROVE CoreInv'
  BY <1>15 DEF bq_pop_leave_loop
<1>16. ASSUME NEW c \in Consumers, bq_pop_read(c) PROVE CoreInv'
  BY <1>16 DEF bq_pop_read
<1>17. ASSUME NEW c \in Consumers, bq_pop_advance(c) PROVE CoreInv'
  BY <1>17 DEF bq_pop_advance
<1>18. ASSUME NEW c \in Consumers, bq_pop_signal(c) PROVE CoreInv'
  BY <1>18 DEF bq_pop_signal, Signalled
<1>19. ASSUME NEW c \in Consumers, bq_pop_unlock(c) PROVE CoreInv'
  BY <1>19 DEF bq_pop_unlock
<1>20. ASSUME NEW c \in Consumers, bq_pop_return0(c) PROVE CoreInv'
  BY <1>20 DEF bq_pop_return0
<1>21. ASSUME NEW c \in Consumers, create_consumer(c) PROVE CoreInv'
  BY <1>21 DEF create_consumer
<1>22. CASE create_producer
  BY <1>22 DEF create_producer
<1>23. CASE join_all
  BY <1>23 DEF join_all
<1>24. ASSUME NEW t \in Threads, SpuriousWakeup(t) PROVE CoreInv'
  BY <1>24 DEF SpuriousWakeup
<1>25. CASE UNCHANGED vars
  BY <1>25 DEF vars
<1> QED
  BY <1>1, <1>2, <1>3, <1>4, <1>5, <1>6, <1>7, <1>8, <1>9, <1>10, <1>11, <1>12,
     <1>13, <1>14, <1>15, <1>16, <1>17, <1>18, <1>19, <1>20, <1>21, <1>22, <1>23,
     <1>24, <1>25 DEF Next, producer, consumer, section_condvar, Finished

\* Types, mutual exclusion and the program-point facts hold throughout.
THEOREM CoreCorrect == Spec => []CoreInv
  BY CoreInit, CoreStep, PTL DEF Spec

\* The fields of the queue stay in range: no index leaves the array and count
\* never exceeds QCAP, whatever the interleaving.
THEOREM TypeCorrect == Spec => []TypeOK
  BY CoreCorrect, PTL DEF CoreInv

\* The mutex is held exactly inside the critical sections.
THEOREM MutexCorrect == Spec => []MutualExclusion
  BY CoreCorrect, PTL DEF CoreInv

-----------------------------------------------------------------------------
\* The ring's contents, as an invariant relative to CoreInv.
LEMMA RingInit == Init => RingHoldsWindow
  BY QcapAssumption, ThreadAssumption, SMT
  DEF Init, RingHoldsWindow, Window, pushed, Threads, Slots

(***************************************************************************)
(* The ring keeps holding the unpopped items through every step: bq_push   *)
(* writes the slot just past the window and bq_pop drops the first one.    *)
(***************************************************************************)
LEMMA RingStep == CoreInv /\ RingHoldsWindow /\ [Next]_vars => RingHoldsWindow'
<1> SUFFICES ASSUME CoreInv, RingHoldsWindow, [Next]_vars
             PROVE RingHoldsWindow'
  OBVIOUS
<1> USE QcapAssumption, NitemsAssumption, ThreadAssumption
    DEF CoreInv, TypeOK, MutualExclusion, ControlInv, Slots, Threads,
        Critical, ProducerPoints, ConsumerPoints, Lock, Unlock, Goto,
        queueVars, RingHoldsWindow, pushed
<1>1. CASE bq_push_lock
  BY <1>1 DEF bq_push_lock
<1>2. CASE bq_push_wait
  BY <1>2 DEF bq_push_wait
<1>3. CASE bq_push_woken
  BY <1>3 DEF bq_push_woken
<1>4. CASE bq_push_store
  <2>1. /\ data' = [data EXCEPT ![tail] = i] /\ count \in 0 .. QCAP - 1
        /\ UNCHANGED <<head, tail, count>> /\ pushed' = pushed
        /\ pushed \in Nat
    BY <1>4 DEF bq_push_store
  <2>2. Window(data', head, count, pushed)
    BY <2>1, WindowStore
  <2> QED
    BY <2>1, <2>2
<1>5. CASE bq_push_advance
  <2>1. /\ tail' = (tail + 1) % QCAP /\ count' = count + 1
        /\ count \in 0 .. QCAP - 1 /\ data[tail] = pushed
        /\ UNCHANGED <<head, data>> /\ pushed' = pushed + 1
        /\ pushed \in Nat
    BY <1>5 DEF bq_push_advance
  <2>2. /\ data \in [Slots -> Nat] /\ head \in Slots
        /\ tail = (head + count) % QCAP /\ count <= pushed
        /\ Window(data, head, count, pushed)
    OBVIOUS
  <2> HIDE DEF CoreInv, RingHoldsWindow, pushed, Slots
  <2>3. Window(data, head, count + 1, pushed + 1)
    BY <2>1, <2>2, WindowPush
  <2>4. count \in 0 .. QCAP /\ count < QCAP
    BY <2>1
  <2>5. tail' = (head + (count + 1)) % QCAP
    BY <2>1, <2>2, <2>4, WrapSlots
  <2> QED
    BY <2>1, <2>2, <2>3, <2>5 DEF RingHoldsWindow
<1>6. CASE bq_push_signal
  BY <1>6 DEF bq_push_signal, Signalled
<1>7. CASE bq_push_unlock
  BY <1>7 DEF bq_push_unlock
<1>8. CASE bq_close_lock
  BY <1>8 DEF bq_close_lock
<1>9. CASE bq_close_set
  BY <1>9 DEF bq_close_set
<1>10. CASE bq_close_broadcast
  BY <1>10 DEF bq_close_broadcast
<1>11. CASE bq_close_unlock
  BY <1>11 DEF bq_close_unlock
<1>12. ASSUME NEW c \in Consumers, bq_pop_lock(c) PROVE RingHoldsWindow'
  BY <1>12 DEF bq_pop_lock
<1>13. ASSUME NEW c \in Consumers, bq_pop_wait(c) PROVE RingHoldsWindow'
  BY <1>13 DEF bq_pop_wait
<1>14. ASSUME NEW c \in Consumers, bq_pop_woken(c) PROVE RingHoldsWindow'
  BY <1>14 DEF bq_pop_woken
<1>15. ASSUME NEW c \in Consumers, bq_pop_leave_loop(c) PROVE RingHoldsWindow'
  BY <1>15 DEF bq_pop_leave_loop
<1>16. ASSUME NEW c \in Consumers, bq_pop_read(c) PROVE RingHoldsWindow'
  BY <1>16 DEF bq_pop_read
<1>17. ASSUME NEW c \in Consumers, bq_pop_advance(c) PROVE RingHoldsWindow'
  <2>1. /\ head' = (head + 1) % QCAP /\ count' = count - 1
        /\ count \in 1 .. QCAP /\ UNCHANGED <<tail, data>>
        /\ pushed' = pushed /\ pushed \in Nat
    BY <1>17 DEF bq_pop_advance
  <2>2. /\ data \in [Slots -> Nat] /\ head \in Slots
        /\ tail = (head + count) % QCAP /\ count <= pushed
        /\ Window(data, head, count, pushed)
    OBVIOUS
  <2> HIDE DEF CoreInv, RingHoldsWindow, pushed, Slots
  <2>3. Window(data, (head + 1) % QCAP, count - 1, pushed)
    BY <2>1, <2>2, WindowPop
  <2>4. /\ count - 1 \in 0 .. QCAP /\ count - 1 < QCAP
        /\ (count - 1) + 1 = count
    BY <2>1
  <2>5. tail = (((head + 1) % QCAP) + (count - 1)) % QCAP
    BY <2>2, <2>4, WrapSlots
  <2> QED
    BY <2>1, <2>2, <2>3, <2>5 DEF RingHoldsWindow
<1>18. ASSUME NEW c \in Consumers, bq_pop_signal(c) PROVE RingHoldsWindow'
  BY <1>18 DEF bq_pop_signal, Signalled
<1>19. ASSUME NEW c \in Consumers, bq_pop_unlock(c) PROVE RingHoldsWindow'
  BY <1>19 DEF bq_pop_unlock
<1>20. ASSUME NEW c \in Consumers, bq_pop_return0(c) PROVE RingHoldsWindow'
  BY <1>20 DEF bq_pop_return0
<1>21. ASSUME NEW c \in Consumers, create_consumer(c) PROVE RingHoldsWindow'
  BY <1>21 DEF create_consumer
<1>22. CASE create_producer
  BY <1>22 DEF create_producer
<1>23. CASE join_all
  BY <1>23 DEF join_all
<1>24. ASSUME NEW t \in Threads, SpuriousWakeup(t) PROVE RingHoldsWindow'
  BY <1>24 DEF SpuriousWakeup
<1>25. CASE UNCHANGED vars
  BY <1>25 DEF vars
<1> QED
  BY <1>1, <1>2, <1>3, <1>4, <1>5, <1>6, <1>7, <1>8, <1>9, <1>10, <1>11, <1>12,
     <1>13, <1>14, <1>15, <1>16, <1>17, <1>18, <1>19, <1>20, <1>21, <1>22, <1>23,
     <1>24, <1>25 DEF Next, producer, consumer, section_condvar, Finished

\* The ring always holds exactly the items pushed and not yet taken, in order.
THEOREM RingCorrect == Spec => []RingHoldsWindow
  BY CoreCorrect, RingInit, RingStep, PTL DEF Spec

-----------------------------------------------------------------------------
\* No wake-up is lost: an invariant relative to CoreInv.
LEMMA WakeupInit == Init => NoLostWakeup
  BY ThreadAssumption, SMT DEF Init, NoLostWakeup, Threads

(***************************************************************************)
(* No step strands a sleeper: whoever makes the awaited condition true, in *)
(* bq_push, bq_pop or bq_close, also wakes somebody up.                    *)
(***************************************************************************)
LEMMA WakeupStep == CoreInv /\ NoLostWakeup /\ [Next]_vars => NoLostWakeup'
<1> SUFFICES ASSUME CoreInv, NoLostWakeup, [Next]_vars
             PROVE NoLostWakeup'
  OBVIOUS
<1> USE QcapAssumption, NitemsAssumption, ThreadAssumption
    DEF CoreInv, TypeOK, MutualExclusion, ControlInv, Slots, Threads,
        Critical, ProducerPoints, ConsumerPoints, Lock, Unlock, Goto,
        queueVars, NoLostWakeup
<1>1. CASE bq_push_lock
  BY <1>1 DEF bq_push_lock
<1>2. CASE bq_push_wait
  BY <1>2 DEF bq_push_wait
<1>3. CASE bq_push_woken
  BY <1>3 DEF bq_push_woken
<1>4. CASE bq_push_store
  BY <1>4 DEF bq_push_store
<1>5. CASE bq_push_advance
  BY <1>5 DEF bq_push_advance
<1>6. CASE bq_push_signal
  BY <1>6 DEF bq_push_signal, Signalled
<1>7. CASE bq_push_unlock
  BY <1>7 DEF bq_push_unlock
<1>8. CASE bq_close_lock
  BY <1>8 DEF bq_close_lock
<1>9. CASE bq_close_set
  BY <1>9 DEF bq_close_set
<1>10. CASE bq_close_broadcast
  BY <1>10 DEF bq_close_broadcast
<1>11. CASE bq_close_unlock
  BY <1>11 DEF bq_close_unlock
<1>12. ASSUME NEW c \in Consumers, bq_pop_lock(c) PROVE NoLostWakeup'
  BY <1>12 DEF bq_pop_lock
<1>13. ASSUME NEW c \in Consumers, bq_pop_wait(c) PROVE NoLostWakeup'
  BY <1>13 DEF bq_pop_wait
<1>14. ASSUME NEW c \in Consumers, bq_pop_woken(c) PROVE NoLostWakeup'
  BY <1>14 DEF bq_pop_woken
<1>15. ASSUME NEW c \in Consumers, bq_pop_leave_loop(c) PROVE NoLostWakeup'
  BY <1>15 DEF bq_pop_leave_loop
<1>16. ASSUME NEW c \in Consumers, bq_pop_read(c) PROVE NoLostWakeup'
  BY <1>16 DEF bq_pop_read
<1>17. ASSUME NEW c \in Consumers, bq_pop_advance(c) PROVE NoLostWakeup'
  BY <1>17 DEF bq_pop_advance
<1>18. ASSUME NEW c \in Consumers, bq_pop_signal(c) PROVE NoLostWakeup'
  BY <1>18 DEF bq_pop_signal, Signalled
<1>19. ASSUME NEW c \in Consumers, bq_pop_unlock(c) PROVE NoLostWakeup'
  BY <1>19 DEF bq_pop_unlock
<1>20. ASSUME NEW c \in Consumers, bq_pop_return0(c) PROVE NoLostWakeup'
  BY <1>20 DEF bq_pop_return0
<1>21. ASSUME NEW c \in Consumers, create_consumer(c) PROVE NoLostWakeup'
  BY <1>21 DEF create_consumer
<1>22. CASE create_producer
  BY <1>22 DEF create_producer
<1>23. CASE join_all
  BY <1>23 DEF join_all
<1>24. ASSUME NEW t \in Threads, SpuriousWakeup(t) PROVE NoLostWakeup'
  BY <1>24 DEF SpuriousWakeup
<1>25. CASE UNCHANGED vars
  BY <1>25 DEF vars
<1> QED
  BY <1>1, <1>2, <1>3, <1>4, <1>5, <1>6, <1>7, <1>8, <1>9, <1>10, <1>11, <1>12,
     <1>13, <1>14, <1>15, <1>16, <1>17, <1>18, <1>19, <1>20, <1>21, <1>22, <1>23,
     <1>24, <1>25 DEF Next, producer, consumer, section_condvar, Finished

\* Whatever the interleaving and the spurious wake-ups, nobody sleeps on a
\* condition that holds without a wake-up being on its way.
THEOREM WakeupCorrect == Spec => []NoLostWakeup
  BY CoreCorrect, WakeupInit, WakeupStep, PTL DEF Spec

-----------------------------------------------------------------------------
\* Who received what: an invariant relative to CoreInv and the ring's contents.
LEMMA OnceInit == Init => ExactlyOnceInOrder
  BY ThreadAssumption, SMT
  DEF Init, ExactlyOnceInOrder, Consumed, TakenBy, Holding, pushed, Threads

\* A step that takes nothing out of the ring and finishes no bq_pop.
NothingTaken ==
    /\ got' = got
    /\ \A c \in Consumers : /\ Holding(c)' = Holding(c)
                            /\ Holding(c) => val'[c] = val[c]
    /\ (pushed - count)' = pushed - count

(***************************************************************************)
(* A step that takes no item out of the queue leaves the bookkeeping of    *)
(* delivered items as it was.                                              *)
(***************************************************************************)
LEMMA OnceFrame == ExactlyOnceInOrder /\ NothingTaken => ExactlyOnceInOrder'
<1> SUFFICES ASSUME ExactlyOnceInOrder, NothingTaken PROVE ExactlyOnceInOrder'
  OBVIOUS
<1>1. \A c \in Consumers : TakenBy(c)' = TakenBy(c)
  BY DEF NothingTaken, TakenBy
<1>2. Consumed' = Consumed
  BY <1>1 DEF Consumed
<1> HIDE DEF TakenBy, Consumed
<1> QED
  BY <1>1, <1>2 DEF ExactlyOnceInOrder, NothingTaken

\* bq_pop_advance hands the oldest item, and only that one, to its consumer.
LEMMA OnceAdvance ==
    ASSUME CoreInv, RingHoldsWindow, ExactlyOnceInOrder,
           NEW c \in Consumers, bq_pop_advance(c)
    PROVE  ExactlyOnceInOrder'
<1> DEFINE next == pushed - count
<1>1. /\ next \in Nat /\ (pushed - count)' = next + 1 /\ val[c] = next
      /\ got' = got /\ val' = val /\ ~Holding(c) /\ Holding(c)'
      /\ \A d \in Consumers : d # c => Holding(d)' = Holding(d)
  <2>a. pushed \in Nat /\ count <= pushed
    BY NitemsAssumption DEF CoreInv, TypeOK, pushed, RingHoldsWindow
  <2>b. pc[c] = "pop_adv"
    BY DEF bq_pop_advance, Goto
  <2>c. count > 0 /\ val[c] = data[head]
    BY <2>b DEF CoreInv, ControlInv
  <2>d. count \in 0 .. QCAP /\ head \in Slots
    BY DEF CoreInv, TypeOK
  <2>1. /\ pushed \in Nat /\ count \in 1 .. QCAP /\ head \in Slots
        /\ val[c] = data[head] /\ count <= pushed
    BY <2>a, <2>c, <2>d, QcapAssumption
  <2>2. (head + 0) % QCAP = head
    BY <2>1, WrapZero
  <2>3. val[c] = pushed - count
    <3>1. 0 \in 0 .. count - 1
      BY <2>1, QcapAssumption
    <3>2. data[(head + 0) % QCAP] = (pushed - count) + 0
      BY <3>1 DEF RingHoldsWindow, Window
    <3> QED
      BY <2>1, <2>2, <3>2, QcapAssumption
  <2>4. /\ got' = got /\ val' = val /\ ~Holding(c) /\ Holding(c)'
        /\ \A d \in Consumers : d # c => Holding(d)' = Holding(d)
        /\ pushed' = pushed /\ count' = count - 1
    BY ThreadAssumption
    DEF bq_pop_advance, Goto, CoreInv, TypeOK, Holding, pushed, Threads
  <2> QED
    BY <2>1, <2>3, <2>4, QcapAssumption
<1>2. TakenBy(c)' = TakenBy(c) \cup {next}
  BY <1>1 DEF TakenBy
<1>3. \A d \in Consumers : d # c => TakenBy(d)' = TakenBy(d)
  BY <1>1 DEF TakenBy
<1>4. Consumed' = Consumed \cup {next}
  BY <1>2, <1>3 DEF Consumed
<1>5. Consumed = 0 .. next - 1 /\ \A d \in Consumers : TakenBy(d) \subseteq Consumed
  BY DEF ExactlyOnceInOrder, Consumed
<1>6. \A d \in Consumers : next \notin TakenBy(d)
  BY <1>1, <1>5
<1>7. Consumed' = 0 .. (pushed - count)' - 1
  BY <1>1, <1>4, <1>5
<1>8. \A a, b \in Consumers : a # b => TakenBy(a)' \cap TakenBy(b)' = {}
  BY <1>2, <1>3, <1>6 DEF ExactlyOnceInOrder
<1>9. \A n \in 1 .. Len(got[c]) : got[c][n] \in TakenBy(c)
  BY DEF TakenBy
<1>10. \A n \in 1 .. Len(got[c]) : got[c][n] < val[c]
  BY <1>1, <1>5, <1>9
<1> QED
  BY <1>1, <1>7, <1>8, <1>10 DEF ExactlyOnceInOrder

\* bq_pop_unlock moves the item from val to what the consumer has added up.
LEMMA OnceUnlock ==
    ASSUME CoreInv, ExactlyOnceInOrder, NEW c \in Consumers, bq_pop_unlock(c)
    PROVE  ExactlyOnceInOrder'
<1>1. /\ Holding(c) /\ ~Holding(c)' /\ val' = val
      /\ got[c] \in Seq(Nat) /\ val[c] \in Nat
      /\ got' = [got EXCEPT ![c] = Append(got[c], val[c])]
      /\ got'[c] = Append(got[c], val[c])
      /\ \A d \in Consumers : d # c => /\ Holding(d)' = Holding(d)
                                      /\ got'[d] = got[d]
      /\ pushed' = pushed /\ count' = count
  BY ThreadAssumption
  DEF bq_pop_unlock, Unlock, CoreInv, TypeOK, Holding, pushed, Threads, queueVars
<1>2. /\ Len(got'[c]) = Len(got[c]) + 1 /\ Len(got[c]) \in Nat
      /\ \A n \in 1 .. Len(got[c]) : got'[c][n] = got[c][n]
      /\ got'[c][Len(got[c]) + 1] = val[c]
  BY <1>1
<1>3. TakenBy(c)' = TakenBy(c)
  <2> SUFFICES ASSUME NEW x PROVE x \in TakenBy(c)' <=> x \in TakenBy(c)
    OBVIOUS
  <2> QED
    BY <1>1, <1>2 DEF TakenBy
<1>4. \A d \in Consumers : d # c => TakenBy(d)' = TakenBy(d)
  BY <1>1 DEF TakenBy
<1>5. Consumed' = Consumed
  BY <1>3, <1>4 DEF Consumed
<1>6. \A m, n \in 1 .. Len(got'[c]) : m < n => got'[c][m] < got'[c][n]
  <2> SUFFICES ASSUME NEW m \in 1 .. Len(got'[c]), NEW n \in 1 .. Len(got'[c]),
                      m < n
               PROVE  got'[c][m] < got'[c][n]
    OBVIOUS
  <2>1. m \in 1 .. Len(got[c])
    BY <1>2
  <2>2. CASE n = Len(got[c]) + 1
    BY <1>1, <1>2, <2>1, <2>2 DEF ExactlyOnceInOrder
  <2>3. CASE n # Len(got[c]) + 1
    BY <1>1, <1>2, <2>1, <2>3 DEF ExactlyOnceInOrder
  <2> QED
    BY <2>2, <2>3
<1> QED
  BY <1>1, <1>3, <1>4, <1>5, <1>6 DEF ExactlyOnceInOrder

(***************************************************************************)
(* A pop delivers the next item to one consumer, and no other step         *)
(* delivers anything.                                                      *)
(***************************************************************************)
LEMMA OnceStep ==
    CoreInv /\ RingHoldsWindow /\ ExactlyOnceInOrder /\ [Next]_vars
      => ExactlyOnceInOrder'
<1> SUFFICES ASSUME CoreInv, RingHoldsWindow, ExactlyOnceInOrder, [Next]_vars
             PROVE ExactlyOnceInOrder'
  OBVIOUS
<1>a. SUFFICES \/ NothingTaken
               \/ \E c \in Consumers : bq_pop_advance(c) \/ bq_pop_unlock(c)
  BY OnceFrame, OnceAdvance, OnceUnlock
<1> DEFINE Safe == \/ NothingTaken
                   \/ \E c \in Consumers : bq_pop_advance(c) \/ bq_pop_unlock(c)
<1> USE QcapAssumption, NitemsAssumption, ThreadAssumption
    DEF CoreInv, TypeOK, ControlInv, Slots, Threads, ProducerPoints,
        ConsumerPoints, Lock, Unlock, Goto, queueVars, NothingTaken, Holding,
        pushed
<1>1. CASE bq_push_lock
  BY <1>1 DEF bq_push_lock
<1>2. CASE bq_push_wait
  BY <1>2 DEF bq_push_wait
<1>3. CASE bq_push_woken
  BY <1>3 DEF bq_push_woken
<1>4. CASE bq_push_store
  BY <1>4 DEF bq_push_store
<1>5. CASE bq_push_advance
  BY <1>5 DEF bq_push_advance
<1>6. CASE bq_push_signal
  BY <1>6 DEF bq_push_signal, Signalled
<1>7. CASE bq_push_unlock
  BY <1>7 DEF bq_push_unlock
<1>8. CASE bq_close_lock
  BY <1>8 DEF bq_close_lock
<1>9. CASE bq_close_set
  BY <1>9 DEF bq_close_set
<1>10. CASE bq_close_broadcast
  BY <1>10 DEF bq_close_broadcast
<1>11. CASE bq_close_unlock
  BY <1>11 DEF bq_close_unlock
<1>12. ASSUME NEW c \in Consumers, bq_pop_lock(c) PROVE Safe
  BY <1>12 DEF bq_pop_lock
<1>13. ASSUME NEW c \in Consumers, bq_pop_wait(c) PROVE Safe
  BY <1>13 DEF bq_pop_wait
<1>14. ASSUME NEW c \in Consumers, bq_pop_woken(c) PROVE Safe
  BY <1>14 DEF bq_pop_woken
<1>15. ASSUME NEW c \in Consumers, bq_pop_leave_loop(c) PROVE Safe
  BY <1>15 DEF bq_pop_leave_loop
<1>16. ASSUME NEW c \in Consumers, bq_pop_read(c) PROVE Safe
  BY <1>16 DEF bq_pop_read
<1>17. ASSUME NEW c \in Consumers, bq_pop_advance(c) PROVE Safe
  BY <1>17
<1>18. ASSUME NEW c \in Consumers, bq_pop_signal(c) PROVE Safe
  BY <1>18 DEF bq_pop_signal, Signalled
<1>19. ASSUME NEW c \in Consumers, bq_pop_unlock(c) PROVE Safe
  BY <1>19
<1>20. ASSUME NEW c \in Consumers, bq_pop_return0(c) PROVE Safe
  BY <1>20 DEF bq_pop_return0
<1>21. ASSUME NEW c \in Consumers, create_consumer(c) PROVE Safe
  BY <1>21 DEF create_consumer
<1>22. CASE create_producer
  BY <1>22 DEF create_producer
<1>23. CASE join_all
  BY <1>23 DEF join_all
<1>24. ASSUME NEW t \in Threads, SpuriousWakeup(t) PROVE Safe
  BY <1>24 DEF SpuriousWakeup
<1>25. CASE UNCHANGED vars
  BY <1>25 DEF vars
<1> QED
  BY <1>1, <1>2, <1>3, <1>4, <1>5, <1>6, <1>7, <1>8, <1>9, <1>10, <1>11, <1>12,
     <1>13, <1>14, <1>15, <1>16, <1>17, <1>18, <1>19, <1>20, <1>21, <1>22, <1>23,
     <1>24, <1>25 DEF Next, producer, consumer, section_condvar, Finished

\* Every item reaches exactly one consumer, each consumer in pushing order.
THEOREM OnceCorrect == Spec => []ExactlyOnceInOrder
  BY CoreCorrect, RingCorrect, OnceInit, OnceStep, PTL DEF Spec

\* When section_condvar has joined its threads, all items were consumed.
THEOREM JoinCorrect ==
    ASSUME Consumers # {}
    PROVE  Spec => []AllConsumedAtJoin
<1>1. CoreInv /\ ExactlyOnceInOrder => AllConsumedAtJoin
  BY NitemsAssumption, ThreadAssumption
  DEF CoreInv, ControlInv, TypeOK, ExactlyOnceInOrder, AllConsumedAtJoin, Items,
      pushed, Threads
<1> QED
  BY <1>1, CoreCorrect, OnceCorrect, PTL

-----------------------------------------------------------------------------
(* The locked ring implements the atomic bounded channel.                  *)

\* The sequence a, a + 1, .., a + n - 1.
Run(a, n) == [k \in 1 .. n |-> a + (k - 1)]

(***************************************************************************)
(* What a run is as a sequence: its type and length, and what appending    *)
(* the next number and dropping the first one make of it.                  *)
(***************************************************************************)
LEMMA RunFacts ==
    ASSUME NEW a \in Nat, NEW n \in Nat
    PROVE  /\ Run(a, n) \in Seq(Nat) /\ Len(Run(a, n)) = n
           /\ Append(Run(a, n), a + n) = Run(a, n + 1)
           /\ n > 0 => /\ Run(a, n) # << >> /\ Head(Run(a, n)) = a
                       /\ Tail(Run(a, n)) = Run(a + 1, n - 1)
<1>1. Run(a, n) \in Seq(Nat) /\ Len(Run(a, n)) = n
  BY DEF Run
<1>2. Append(Run(a, n), a + n) = Run(a, n + 1)
  <2>1. /\ Append(Run(a, n), a + n) \in Seq(Nat) /\ Run(a, n + 1) \in Seq(Nat)
        /\ Len(Append(Run(a, n), a + n)) = n + 1 /\ Len(Run(a, n + 1)) = n + 1
    BY <1>1 DEF Run
  <2>2. \A k \in 1 .. n + 1 : Append(Run(a, n), a + n)[k] = Run(a, n + 1)[k]
    BY <1>1 DEF Run
  <2> QED
    BY <2>1, <2>2
<1>3. ASSUME n > 0
      PROVE  /\ Run(a, n) # << >> /\ Head(Run(a, n)) = a
             /\ Tail(Run(a, n)) = Run(a + 1, n - 1)
  <2>1. Run(a, n) # << >> /\ Head(Run(a, n)) = a
    BY <1>1, <1>3 DEF Run
  <2>2. /\ Tail(Run(a, n)) \in Seq(Nat) /\ Run(a + 1, n - 1) \in Seq(Nat)
        /\ Len(Tail(Run(a, n))) = n - 1 /\ Len(Run(a + 1, n - 1)) = n - 1
    BY <1>1, <1>3, <2>1 DEF Run
  <2>3. \A k \in 1 .. n - 1 : Tail(Run(a, n))[k] = Run(a + 1, n - 1)[k]
    BY <1>1, <1>3, <2>1 DEF Run
  <2> QED
    BY SMTT(30), <2>1, <2>2, <2>3
<1> QED
  BY <1>1, <1>2, <1>3

\* The instance's substituted variables.
Chan == [k \in 1 .. count |-> data[(head + k - 1) % QCAP]]
Received == [c \in Consumers |->
               IF Holding(c) THEN Append(got[c], val[c]) ELSE got[c]]

\* The occupied slots, read from head, are a run of consecutive items.
LEMMA ChanIsRun ==
    CoreInv /\ RingHoldsWindow
      => Chan = Run(pushed - count, count) /\ pushed - count \in Nat
<1> SUFFICES ASSUME CoreInv, RingHoldsWindow
             PROVE  Chan = Run(pushed - count, count) /\ pushed - count \in Nat
  OBVIOUS
<1>1. pushed - count \in Nat /\ count \in Nat
  BY NitemsAssumption, QcapAssumption DEF CoreInv, TypeOK, pushed, RingHoldsWindow
<1>2. ASSUME NEW k \in 1 .. count
      PROVE  data[(head + k - 1) % QCAP] = (pushed - count) + (k - 1)
  <2>1. k - 1 \in 0 .. count - 1 /\ head + (k - 1) = head + k - 1
    BY <1>1, QcapAssumption DEF CoreInv, TypeOK, Slots
  <2>2. data[(head + (k - 1)) % QCAP] = (pushed - count) + (k - 1)
    BY <2>1 DEF RingHoldsWindow, Window
  <2> QED
    BY <2>1, <2>2
<1> QED
  BY <1>1, <1>2 DEF Chan, Run

(***************************************************************************)
(* After a step, the channel's contents are again the run of items not yet *)
(* popped, read in the primed state.                                       *)
(***************************************************************************)
LEMMA ChanIsRunNext ==
    CoreInv' /\ RingHoldsWindow' => Chan' = Run((pushed - count)', count')
<1>1. (CoreInv /\ RingHoldsWindow)'
        => (Chan = Run(pushed - count, count) /\ pushed - count \in Nat)'
  BY ChanIsRun, PTL
<1> QED
  BY <1>1 DEF Run

\* Steps that the abstract channel does not see.
Invisible ==
    /\ pushed' = pushed /\ count' = count /\ closed' = closed
    /\ Received' = Received

(***************************************************************************)
(* A step that neither pushes, pops nor closes leaves the abstract channel *)
(* as it is.                                                               *)
(***************************************************************************)
LEMMA InvisibleStutters ==
    ASSUME CoreInv, RingHoldsWindow, CoreInv', RingHoldsWindow', Invisible
    PROVE  UNCHANGED Fifo!fifoVars
<1>1. Chan' = Chan
  BY ChanIsRun, ChanIsRunNext DEF Invisible
<1> QED
  BY <1>1 DEF Invisible, Fifo!fifoVars, Chan, Received

\* bq_push_advance is the abstract Put.
LEMMA AdvanceIsPut ==
    ASSUME CoreInv, RingHoldsWindow, CoreInv', RingHoldsWindow', bq_push_advance
    PROVE  Fifo!Put
<1>a. /\ pc[Producer] = "push_adv" /\ pc'[Producer] = "push_sig" /\ i' = i
      /\ closed' = closed /\ count' = count + 1
  BY DEF bq_push_advance, Goto, CoreInv, TypeOK, Threads
<1>b. ~closed /\ i < NITEMS /\ count < QCAP
  BY <1>a DEF CoreInv, ControlInv
<1>1. /\ ~closed /\ closed' = closed /\ pushed < NITEMS /\ count < QCAP
      /\ count' = count + 1 /\ pushed' = pushed + 1
      /\ pushed \in Nat /\ count \in Nat
  BY <1>a, <1>b, NitemsAssumption, QcapAssumption DEF CoreInv, TypeOK, pushed
<1>2. Received' = Received
  BY ThreadAssumption
  DEF bq_push_advance, Goto, CoreInv, TypeOK, Received, Holding, Threads
<1>3. /\ Chan = Run(pushed - count, count) /\ pushed - count \in Nat
      /\ Chan' = Run((pushed + 1) - (count + 1), count + 1)
  BY <1>1, ChanIsRun, ChanIsRunNext
<1>4. /\ (pushed + 1) - (count + 1) = pushed - count
      /\ (pushed - count) + count = pushed
  BY <1>1
<1>5. /\ Len(Run(pushed - count, count)) = count
      /\ Append(Run(pushed - count, count), (pushed - count) + count)
           = Run(pushed - count, count + 1)
  BY <1>1, <1>3, RunFacts
<1>6. Len(Chan) < QCAP /\ Chan' = Append(Chan, pushed)
  BY <1>1, <1>3, <1>4, <1>5
<1> QED
  BY <1>1, <1>2, <1>6 DEF Fifo!Put, Chan, Received

\* bq_pop_advance is the abstract Get.
LEMMA AdvanceIsGet ==
    ASSUME CoreInv, RingHoldsWindow, CoreInv', RingHoldsWindow',
           NEW c \in Consumers, bq_pop_advance(c)
    PROVE  Fifo!Get(c)
<1>1. pc[c] = "pop_adv" /\ c # Producer
  BY ThreadAssumption DEF bq_pop_advance, Goto
<1>2. count > 0 /\ val[c] = data[head] /\ count \in Nat /\ head \in Slots
  BY <1>1, QcapAssumption DEF CoreInv, ControlInv, TypeOK
<1>3. /\ closed' = closed /\ count' = count - 1 /\ pushed' = pushed
      /\ pushed \in Nat
  BY <1>1, NitemsAssumption, ThreadAssumption
  DEF bq_pop_advance, Goto, CoreInv, TypeOK, pushed, Threads
<1>4. /\ got' = got /\ val' = val /\ ~Holding(c) /\ Holding(c)'
      /\ \A d \in Consumers : d # c => Holding(d)' = Holding(d)
  BY ThreadAssumption
  DEF bq_pop_advance, Goto, CoreInv, TypeOK, Holding, Threads
<1>5. /\ Chan = Run(pushed - count, count) /\ pushed - count \in Nat
      /\ Chan' = Run(pushed - (count - 1), count - 1)
  BY <1>3, ChanIsRun, ChanIsRunNext
<1>6. pushed - (count - 1) = (pushed - count) + 1
  BY <1>2, <1>3
<1>7. Chan # << >> /\ Head(Chan) = pushed - count /\ Chan' = Tail(Chan)
  BY <1>2, <1>5, <1>6, RunFacts
<1>8. val[c] = Head(Chan)
  <2>1. Chan[1] = data[(head + 1 - 1) % QCAP]
    BY <1>2 DEF Chan
  <2>2. head + 1 - 1 = head + 0
    BY <1>2, QcapAssumption DEF Slots
  <2>3. Chan[1] = val[c]
    BY <1>2, <2>1, <2>2, WrapZero
  <2>4. Chan[1] = pushed - count
    BY <1>2, <1>5 DEF Run
  <2> QED
    BY <2>3, <2>4, <1>7
<1>9. Received' = [Received EXCEPT ![c] = Append(@, Head(Chan))]
  BY <1>4, <1>8 DEF Received
<1> QED
  BY <1>3, <1>7, <1>9 DEF Fifo!Get, Chan, Received

\* bq_close_set is the abstract Close.
LEMMA SetIsClose ==
    ASSUME CoreInv, RingHoldsWindow, CoreInv', RingHoldsWindow', bq_close_set
    PROVE  Fifo!Close
<1>1. /\ ~closed /\ closed' /\ pushed = NITEMS /\ count' = count
      /\ pushed' = pushed /\ Received' = Received
  BY NitemsAssumption, ThreadAssumption
  DEF bq_close_set, Goto, CoreInv, TypeOK, ControlInv, pushed, Threads, Received,
      Holding
<1>2. Chan' = Chan
  BY <1>1, ChanIsRun, ChanIsRunNext
<1> QED
  BY <1>1, <1>2 DEF Fifo!Close, Chan, Received

\* bq_pop_unlock moves an item that already counts as received.
LEMMA UnlockInvisible ==
    ASSUME CoreInv, NEW c \in Consumers, bq_pop_unlock(c)
    PROVE  Invisible
<1>1. /\ Holding(c) /\ ~Holding(c)' /\ val' = val
      /\ got'[c] = Append(got[c], val[c])
      /\ \A d \in Consumers : d # c => /\ Holding(d)' = Holding(d)
                                      /\ got'[d] = got[d]
      /\ pushed' = pushed /\ count' = count /\ closed' = closed
  BY ThreadAssumption
  DEF bq_pop_unlock, Unlock, CoreInv, TypeOK, Holding, pushed, Threads, queueVars
<1> QED
  BY <1>1 DEF Invisible, Received

\* Every other step, and stuttering, is invisible.
LEMMA RefinedStep ==
    CoreInv /\ RingHoldsWindow /\ [Next]_vars =>
      \/ Invisible
      \/ bq_push_advance \/ bq_close_set
      \/ \E c \in Consumers : bq_pop_advance(c)
<1> DEFINE Visible == \/ Invisible
                      \/ bq_push_advance \/ bq_close_set
                      \/ \E c \in Consumers : bq_pop_advance(c)
<1> SUFFICES ASSUME CoreInv, RingHoldsWindow, [Next]_vars PROVE Visible
  OBVIOUS
<1> USE ThreadAssumption
    DEF CoreInv, TypeOK, Threads, ProducerPoints, ConsumerPoints, Lock, Unlock,
        Goto, queueVars, Invisible, Received, Holding, pushed
<1>1. CASE bq_push_lock
  BY <1>1 DEF bq_push_lock
<1>2. CASE bq_push_wait
  BY <1>2 DEF bq_push_wait
<1>3. CASE bq_push_woken
  BY <1>3 DEF bq_push_woken
<1>4. CASE bq_push_store
  BY <1>4 DEF bq_push_store
<1>5. CASE bq_push_advance
  BY <1>5
<1>6. CASE bq_push_signal
  BY <1>6 DEF bq_push_signal, Signalled
<1>7. CASE bq_push_unlock
  BY <1>7 DEF bq_push_unlock
<1>8. CASE bq_close_lock
  BY <1>8 DEF bq_close_lock
<1>9. CASE bq_close_set
  BY <1>9
<1>10. CASE bq_close_broadcast
  BY <1>10 DEF bq_close_broadcast
<1>11. CASE bq_close_unlock
  BY <1>11 DEF bq_close_unlock
<1>12. ASSUME NEW c \in Consumers, bq_pop_lock(c) PROVE Visible
  BY <1>12 DEF bq_pop_lock
<1>13. ASSUME NEW c \in Consumers, bq_pop_wait(c) PROVE Visible
  BY <1>13 DEF bq_pop_wait
<1>14. ASSUME NEW c \in Consumers, bq_pop_woken(c) PROVE Visible
  BY <1>14 DEF bq_pop_woken
<1>15. ASSUME NEW c \in Consumers, bq_pop_leave_loop(c) PROVE Visible
  BY <1>15 DEF bq_pop_leave_loop
<1>16. ASSUME NEW c \in Consumers, bq_pop_read(c) PROVE Visible
  BY <1>16 DEF bq_pop_read
<1>17. ASSUME NEW c \in Consumers, bq_pop_advance(c) PROVE Visible
  BY <1>17
<1>18. ASSUME NEW c \in Consumers, bq_pop_signal(c) PROVE Visible
  BY <1>18 DEF bq_pop_signal, Signalled
<1>19. ASSUME NEW c \in Consumers, bq_pop_unlock(c) PROVE Visible
  BY <1>19, UnlockInvisible
<1>20. ASSUME NEW c \in Consumers, bq_pop_return0(c) PROVE Visible
  BY <1>20 DEF bq_pop_return0
<1>21. ASSUME NEW c \in Consumers, create_consumer(c) PROVE Visible
  BY <1>21 DEF create_consumer
<1>22. CASE create_producer
  BY <1>22 DEF create_producer
<1>23. CASE join_all
  BY <1>23 DEF join_all
<1>24. ASSUME NEW t \in Threads, SpuriousWakeup(t) PROVE Visible
  BY <1>24 DEF SpuriousWakeup
<1>25. CASE UNCHANGED vars
  BY <1>25 DEF vars
<1> QED
  BY <1>1, <1>2, <1>3, <1>4, <1>5, <1>6, <1>7, <1>8, <1>9, <1>10, <1>11, <1>12,
     <1>13, <1>14, <1>15, <1>16, <1>17, <1>18, <1>19, <1>20, <1>21, <1>22, <1>23,
     <1>24, <1>25 DEF Next, producer, consumer, section_condvar, Finished

\* The ring buffer with its mutex and condition variables implements the
\* bounded FIFO channel, for every capacity, item count and set of consumers.
THEOREM Refinement == Spec => ImplementsFifo
<1>1. Init => Fifo!FifoInit
  BY ThreadAssumption
  DEF Init, Fifo!FifoInit, pushed, Holding, Threads
<1>2. CoreInv /\ RingHoldsWindow /\ CoreInv' /\ RingHoldsWindow' /\ [Next]_vars
        => [Fifo!FifoNext]_(Fifo!fifoVars)
  BY RefinedStep, InvisibleStutters, AdvanceIsPut, AdvanceIsGet, SetIsClose
  DEF Fifo!FifoNext
<1> QED
  BY <1>1, <1>2, CoreCorrect, RingCorrect, PTL
  DEF Spec, ImplementsFifo, Fifo!FifoSpec

-----------------------------------------------------------------------------
\* Where a counting thread can be.
Points == {"unborn", "lock", "load", "store", "unlock", "fetch_add", "exited"}

\* Types of the counters' state.
CntTypeOK ==
    /\ cnt_section \in Cnt!Variants
    /\ cnt_counter \in Nat
    /\ cnt_locked \in BOOLEAN
    /\ cnt_pc \in [Consumers -> Points]
    /\ cnt_n \in [Consumers -> 0 .. ITERS]
    /\ cnt_reg \in [Consumers -> Nat]
    /\ cnt_main \in {"create", "join", "done"}

\* Each variant keeps to its own loop body, and n counts the way to the end.
CntPlaces ==
    /\ \A w \in Consumers :
         /\ cnt_pc[w] = "exited" <=> cnt_n[w] = 0
         /\ cnt_section = "race" => cnt_pc[w] \in {"unborn", "load", "store", "exited"}
         /\ cnt_section = "atomic" => cnt_pc[w] \in {"unborn", "fetch_add", "exited"}
         /\ cnt_section \in {"mutex", "spin"} => cnt_pc[w] # "fetch_add"
    /\ cnt_main = "done" => \A w \in Consumers : cnt_pc[w] = "exited"

\* Between acquire and release.
InBody(w) == cnt_pc[w] \in {"load", "store", "unlock"}

\* The lock is held by the one thread between acquire and release, and what
\* that thread has loaded is still what the counter holds.
CntLock ==
    cnt_section \in {"mutex", "spin"} =>
      /\ \A w \in Consumers : InBody(w) => cnt_locked
      /\ \A v, w \in Consumers : InBody(v) /\ InBody(w) => v = w
      /\ \A w \in Consumers : cnt_pc[w] = "store" => cnt_reg[w] = cnt_counter

\* Without a race the counter is the number of increments stored so far.
CntSum == cnt_section # "race" => cnt_counter = Cardinality(Cnt!Increments)

\* What the racing threads cannot undo: a value once loaded is at most the
\* number of stores, and at least 1 after the thread's own first store.
CntRace ==
    cnt_section = "race" =>
      /\ cnt_counter <= Cardinality(Cnt!Increments)
      /\ \A w \in Consumers :
           /\ cnt_n[w] < ITERS => cnt_counter >= 1
           /\ cnt_pc[w] = "store" => cnt_reg[w] <= Cardinality(Cnt!Increments)
           /\ cnt_pc[w] = "store" /\ cnt_n[w] < ITERS => cnt_reg[w] >= 1
      /\ ITERS >= 2 /\ (\A w \in Consumers : cnt_pc[w] = "exited") => cnt_counter >= 2
      /\ \A w \in Consumers : Consumers = {w} =>
           /\ cnt_counter = ITERS - cnt_n[w]
           /\ cnt_pc[w] = "store" => cnt_reg[w] = cnt_counter

(***************************************************************************)
(* The inductive invariant of the counters: who holds the lock, what the   *)
(* loaded values may be, and how the counter relates to the increments     *)
(* already stored.                                                         *)
(***************************************************************************)
CntInv == CntTypeOK /\ CntPlaces /\ CntLock /\ CntSum /\ CntRace

\* The finite sets and cardinalities of the instance are the usual ones.
LEMMA CntSets ==
    ASSUME NEW S
    PROVE  (Cnt!IsFiniteSet(S) <=> IsFiniteSet(S)) /\ Cnt!Cardinality(S) = Cardinality(S)
  BY DEF Cnt!IsFiniteSet, IsFiniteSet, Cnt!Cardinality, Cardinality

\* There are finitely many increments, so they can be counted.
LEMMA IncrementsFinite ==
    ASSUME Cnt!CountersAssumption
    PROVE  IsFiniteSet(Cnt!Increments) /\ Cardinality(Cnt!Increments) \in Nat
<1>1. IsFiniteSet(1 .. ITERS)
  BY FS_Interval DEF Cnt!CountersAssumption
<1>2. IsFiniteSet(Consumers \X (1 .. ITERS))
  BY <1>1, CntSets, FS_Product DEF Cnt!CountersAssumption
<1>3. IsFiniteSet(Cnt!Increments)
  BY <1>2, FS_Subset DEF Cnt!Increments
<1> QED
  BY <1>3, FS_CardinalityType

\* A store by thread w (the end of a loop body) is exactly one increment more.
LEMMA OneMore ==
    ASSUME Cnt!CountersAssumption, CntTypeOK, NEW w \in Consumers,
           Cnt!Stored(w) < ITERS, Cnt!Stored(w) \in Nat, Cnt!Stored(w)' = Cnt!Stored(w) + 1,
           \A v \in Consumers \ {w} : Cnt!Stored(v)' = Cnt!Stored(v)
    PROVE  Cardinality(Cnt!Increments') = Cardinality(Cnt!Increments) + 1
<1> DEFINE p == <<w, Cnt!Stored(w) + 1>>
<1>1. p \in Consumers \X (1 .. ITERS) /\ p \notin Cnt!Increments
  BY DEF Cnt!Increments, Cnt!CountersAssumption
<1>2. Cnt!Increments' = Cnt!Increments \cup {p}
  <2>1. ASSUME NEW q \in Consumers \X (1 .. ITERS)
        PROVE  q[2] <= Cnt!Stored(q[1])' <=> q[2] <= Cnt!Stored(q[1]) \/ q = p
    <3>1. CASE q[1] # w
      BY <2>1, <3>1
    <3>2. CASE q[1] = w
      BY <2>1, <3>2 DEF Cnt!CountersAssumption
    <3> QED
      BY <3>1, <3>2
  <2> QED
    BY <1>1, <2>1 DEF Cnt!Increments
<1> QED
  BY <1>1, <1>2, IncrementsFinite, FS_AddElement

\* A step in which no thread finishes a loop body leaves the increments as they are.
LEMMA SameIncrements ==
    ASSUME \A w \in Consumers : Cnt!Stored(w)' = Cnt!Stored(w)
    PROVE  Cnt!Increments' = Cnt!Increments
<1>1. ASSUME NEW q \in Consumers \X (1 .. ITERS)
      PROVE  Cnt!Stored(q[1])' = Cnt!Stored(q[1])
  OBVIOUS
<1> QED
  BY <1>1 DEF Cnt!Increments

\* The invariant holds when section_race, section_mutex or their siblings start.
LEMMA CntInit == Cnt!CountersAssumption /\ Cnt!Init => CntInv
<1> SUFFICES ASSUME Cnt!CountersAssumption, Cnt!Init PROVE CntInv
  OBVIOUS
<1>0. cnt_locked \in BOOLEAN
  BY Zenon DEF Cnt!Init
<1>1. CntTypeOK /\ CntPlaces /\ CntLock
  BY <1>0 DEF Cnt!CountersAssumption, Cnt!Init, CntTypeOK, CntPlaces, CntLock,
              InBody, Points
<1>2. \A w \in Consumers : Cnt!Stored(w) = 0
  BY DEF Cnt!Init, Cnt!Stored, Cnt!CountersAssumption
<1>3. Cnt!Increments = {}
  BY <1>2 DEF Cnt!Increments
<1>4. Cardinality(Cnt!Increments) = 0
  BY <1>3, FS_EmptySet
<1> QED
  BY <1>1, <1>4 DEF Cnt!Init, CntInv, CntSum, CntRace, Cnt!CountersAssumption


(***************************************************************************)
(* Every step of main, unsafe_inc, safe_inc, safe_worker and spin_worker   *)
(* keeps the invariant: the loads and stores of a plain ++ apart from each *)
(* other, the lock taken and released, the fetch-and-add in one piece.     *)
(***************************************************************************)
LEMMA CntStep ==
    ASSUME Cnt!CountersAssumption, CntInv, [Cnt!Next]_Cnt!vars
    PROVE  CntInv'
<1> USE DEF CntInv
<1> DEFINE N == Cardinality(Cnt!Increments)
<1>0. N \in Nat
  BY IncrementsFinite
<1>1. ASSUME NEW w \in Consumers, Cnt!create(w) PROVE CntInv'
  <2>1. CntTypeOK' /\ CntPlaces' /\ CntLock'
    BY <1>1 DEF Cnt!create, Cnt!Move, Cnt!Top, Cnt!Variants, CntTypeOK, CntPlaces,
                CntLock, InBody, Points
  <2>2. \A v \in Consumers : Cnt!Stored(v)' = Cnt!Stored(v)
    BY <1>1 DEF Cnt!create, Cnt!Move, Cnt!Top, Cnt!Variants, Cnt!Stored, CntTypeOK
  <2>3. Cardinality(Cnt!Increments') = N
    BY <2>2, SameIncrements
  <2>4. CntSum' /\ CntRace'
    BY <1>0, <1>1, <2>3 DEF Cnt!create, Cnt!Move, Cnt!Top, Cnt!Variants, CntSum,
                            CntRace, CntTypeOK, Cnt!CountersAssumption
  <2> QED
    BY <2>1, <2>4
<1>2. CASE Cnt!all_created \/ Cnt!join_all \/ UNCHANGED Cnt!vars
  <2>1. CntTypeOK' /\ CntPlaces' /\ CntLock'
    BY <1>2 DEF Cnt!all_created, Cnt!join_all, Cnt!vars, CntTypeOK, CntPlaces,
                CntLock, InBody, Points
  <2>2. \A v \in Consumers : Cnt!Stored(v)' = Cnt!Stored(v)
    BY <1>2 DEF Cnt!all_created, Cnt!join_all, Cnt!vars, Cnt!Stored
  <2>3. Cardinality(Cnt!Increments') = N
    BY <2>2, SameIncrements
  <2>4. CntSum' /\ CntRace'
    BY <1>2, <2>3 DEF Cnt!all_created, Cnt!join_all, Cnt!vars, CntSum, CntRace
  <2> QED
    BY <2>1, <2>4
<1>3. ASSUME NEW w \in Consumers, cnt_section \in {"mutex", "spin"}, Cnt!acquire(w) PROVE CntInv'
  <2>1. CntTypeOK' /\ CntPlaces' /\ CntLock'
    BY <1>3 DEF Cnt!acquire, Cnt!Move, CntTypeOK, CntPlaces, CntLock, InBody, Points
  <2>2. \A v \in Consumers : Cnt!Stored(v)' = Cnt!Stored(v)
    BY <1>3 DEF Cnt!acquire, Cnt!Move, Cnt!Stored, CntTypeOK
  <2>3. Cardinality(Cnt!Increments') = N
    BY <2>2, SameIncrements
  <2>4. CntSum' /\ CntRace'
    BY <1>3, <2>3 DEF Cnt!acquire, CntSum, CntRace
  <2> QED
    BY <2>1, <2>4
<1>4. ASSUME NEW w \in Consumers, Cnt!load(w) PROVE CntInv'
  <2>1. CntTypeOK' /\ CntPlaces' /\ CntLock'
    BY <1>4 DEF Cnt!load, Cnt!Move, CntTypeOK, CntPlaces, CntLock, InBody, Points
  <2>2. \A v \in Consumers : Cnt!Stored(v)' = Cnt!Stored(v)
    BY <1>4 DEF Cnt!load, Cnt!Move, Cnt!Stored, CntTypeOK
  <2>3. Cardinality(Cnt!Increments') = N
    BY <2>2, SameIncrements
  <2>4. CntSum'
    BY <1>4, <2>3 DEF Cnt!load, CntSum
  <2>5. CntRace'
    BY <1>0, <1>4, <2>3 DEF Cnt!load, Cnt!Move, CntRace, CntTypeOK
  <2> QED
    BY <2>1, <2>4, <2>5
<1>5. ASSUME NEW w \in Consumers, cnt_section \in {"mutex", "spin"}, Cnt!store(w) PROVE CntInv'
  <2>1. CntTypeOK' /\ CntPlaces' /\ CntLock'
    BY <1>5 DEF Cnt!store, Cnt!Move, CntTypeOK, CntPlaces, CntLock, InBody, Points
  <2>2. /\ Cnt!Stored(w)' = Cnt!Stored(w) + 1 /\ Cnt!Stored(w) \in Nat /\ Cnt!Stored(w) < ITERS
        /\ \A v \in Consumers \ {w} : Cnt!Stored(v)' = Cnt!Stored(v)
    BY <1>5 DEF Cnt!store, Cnt!Move, Cnt!Stored, CntTypeOK, CntPlaces,
                Cnt!CountersAssumption
  <2>3. Cardinality(Cnt!Increments') = N + 1
    BY <2>2, OneMore
  <2>4. cnt_reg[w] = cnt_counter
    BY <1>5 DEF Cnt!store, Cnt!Move, CntLock
  <2>5. CntSum' /\ CntRace'
    BY <1>0, <1>5, <2>3, <2>4 DEF Cnt!store, CntSum, CntRace
  <2> QED
    BY <2>1, <2>5
<1>6. ASSUME NEW w \in Consumers, cnt_section = "race", Cnt!store(w) PROVE CntInv'
  <2>1. CntTypeOK' /\ CntPlaces' /\ CntLock'
    BY <1>6 DEF Cnt!store, Cnt!EndOfBody, Cnt!Move, Cnt!Top, CntTypeOK, CntPlaces,
                CntLock, InBody, Points, Cnt!CountersAssumption
  <2>2. /\ Cnt!Stored(w)' = Cnt!Stored(w) + 1 /\ Cnt!Stored(w) \in Nat /\ Cnt!Stored(w) < ITERS
        /\ \A v \in Consumers \ {w} : Cnt!Stored(v)' = Cnt!Stored(v)
    BY <1>6 DEF Cnt!store, Cnt!EndOfBody, Cnt!Move, Cnt!Top, Cnt!Stored, CntTypeOK,
                CntPlaces, Cnt!CountersAssumption
  <2>3. Cardinality(Cnt!Increments') = N + 1
    BY <2>2, OneMore
  <2>4. CntSum'
    BY <1>6 DEF Cnt!store, CntSum
  <2>5. CntRace'
    <3>1. cnt_counter' <= N + 1 /\ cnt_counter' >= 1 /\ cnt_counter' \in Nat
      BY <1>0, <1>6 DEF Cnt!store, Cnt!EndOfBody, Cnt!Move, CntRace, CntTypeOK
    <3>2. ASSUME NEW v \in Consumers, cnt_pc'[v] = "store" PROVE v # w /\ cnt_pc[v] = "store" /\ cnt_n'[v] = cnt_n[v] /\ cnt_reg'[v] = cnt_reg[v]
      BY <1>6, <3>2 DEF Cnt!store, Cnt!EndOfBody, Cnt!Move, Cnt!Top, CntTypeOK
    <3>3. ASSUME NEW v \in Consumers, cnt_pc'[v] = "store"
          PROVE  cnt_reg'[v] <= N + 1 /\ (cnt_n'[v] < ITERS => cnt_reg'[v] >= 1)
      BY <1>0, <1>6, <3>2, <3>3 DEF CntRace, CntTypeOK
    <3>4. ASSUME ITERS >= 2, \A v \in Consumers : cnt_pc'[v] = "exited" PROVE cnt_counter' >= 2
      <4>1. cnt_n[w] = 1 /\ cnt_pc[w] = "store"
        BY <1>6, <3>4 DEF Cnt!store, Cnt!EndOfBody, Cnt!Move, Cnt!Top, CntTypeOK
      <4>2. cnt_reg[w] >= 1
        BY <1>6, <3>4, <4>1 DEF CntRace, Cnt!CountersAssumption
      <4> QED
        BY <1>6, <4>2 DEF Cnt!store, CntTypeOK
    <3>5. ASSUME NEW v \in Consumers, Consumers = {v}
          PROVE  cnt_counter' = ITERS - cnt_n'[v] /\ cnt_pc'[v] # "store"
      <4>1. v = w
        BY <3>5
      <4> QED
        BY <1>6, <3>5, <4>1 DEF Cnt!store, Cnt!EndOfBody, Cnt!Move, Cnt!Top,
                                CntRace, CntTypeOK, Cnt!CountersAssumption
    <3> QED
      BY <2>3, <3>1, <3>3, <3>4, <3>5 DEF CntRace
  <2> QED
    BY <2>1, <2>4, <2>5
<1>7. ASSUME NEW w \in Consumers, cnt_section \in {"mutex", "spin"}, Cnt!release(w) PROVE CntInv'
  <2>0. cnt_locked' \in BOOLEAN
    BY <1>7, Zenon DEF Cnt!release
  <2>1. CntTypeOK' /\ CntPlaces' /\ CntLock'
    BY <1>7, <2>0 DEF Cnt!release, Cnt!EndOfBody, Cnt!Move, Cnt!Top, CntTypeOK,
                      CntPlaces, CntLock, InBody, Points, Cnt!CountersAssumption
  <2>2. \A v \in Consumers : Cnt!Stored(v)' = Cnt!Stored(v)
    BY <1>7 DEF Cnt!release, Cnt!EndOfBody, Cnt!Move, Cnt!Top, Cnt!Stored,
                CntTypeOK, CntPlaces, Cnt!CountersAssumption
  <2>3. Cardinality(Cnt!Increments') = N
    BY <2>2, SameIncrements
  <2>4. CntSum' /\ CntRace'
    BY <1>7, <2>3 DEF Cnt!release, CntSum, CntRace
  <2> QED
    BY <2>1, <2>4
<1>8. ASSUME NEW w \in Consumers, cnt_section = "atomic", Cnt!fetch_add(w) PROVE CntInv'
  <2>1. CntTypeOK' /\ CntPlaces' /\ CntLock'
    BY <1>8 DEF Cnt!fetch_add, Cnt!EndOfBody, Cnt!Move, Cnt!Top, CntTypeOK,
                CntPlaces, CntLock, InBody, Points, Cnt!CountersAssumption
  <2>2. /\ Cnt!Stored(w)' = Cnt!Stored(w) + 1 /\ Cnt!Stored(w) \in Nat /\ Cnt!Stored(w) < ITERS
        /\ \A v \in Consumers \ {w} : Cnt!Stored(v)' = Cnt!Stored(v)
    BY <1>8 DEF Cnt!fetch_add, Cnt!EndOfBody, Cnt!Move, Cnt!Top, Cnt!Stored,
                CntTypeOK, CntPlaces, Cnt!CountersAssumption
  <2>3. Cardinality(Cnt!Increments') = N + 1
    BY <2>2, OneMore
  <2>4. CntSum' /\ CntRace'
    BY <1>0, <1>8, <2>3 DEF Cnt!fetch_add, CntSum, CntRace
  <2> QED
    BY <2>1, <2>4
<1> QED
  BY <1>1, <1>2, <1>3, <1>4, <1>5, <1>6, <1>7, <1>8
  DEF Cnt!Next, Cnt!section_main, Cnt!section_race, Cnt!section_mutex, Cnt!section2_counter, Cnt!section5_spinlock,
      Cnt!create_and_join, Cnt!thread, Cnt!unsafe_inc, Cnt!safe_inc, Cnt!safe_worker, Cnt!spin_worker, Cnt!Finished

\* When all threads have returned, every increment there is has been stored.
LEMMA AllStored ==
    ASSUME Cnt!CountersAssumption, CntInv, \A w \in Consumers : cnt_pc[w] = "exited"
    PROVE  Cardinality(Cnt!Increments) = Cnt!Expected
<1>1. \A w \in Consumers : Cnt!Stored(w) = ITERS
  BY DEF Cnt!Stored, CntInv, CntTypeOK, CntPlaces, Cnt!CountersAssumption
<1>2. Cnt!Increments = Consumers \X (1 .. ITERS)
  BY <1>1 DEF Cnt!Increments, Cnt!CountersAssumption
<1>3. IsFiniteSet(1 .. ITERS) /\ Cardinality(1 .. ITERS) = ITERS
  BY FS_Interval DEF Cnt!CountersAssumption
<1>4. IsFiniteSet(Consumers) /\ Cnt!Expected = Cardinality(Consumers) * ITERS
  BY CntSets DEF Cnt!Expected, Cnt!CountersAssumption
<1> QED
  BY <1>2, <1>3, <1>4, FS_Product

\* What section_race and the others print at the end follows from the invariant.
LEMMA CntInvImplies ==
    ASSUME Cnt!CountersAssumption, CntInv
    PROVE  Cnt!CountRight
<1>1. Cnt!NoLostUpdate
  BY AllStored, CntSets DEF Cnt!NoLostUpdate, CntInv, CntSum, CntPlaces
<1>2. ASSUME cnt_section = "race", cnt_main = "done" PROVE Cnt!RaceOutcome
  <2>1. \A w \in Consumers : cnt_pc[w] = "exited" /\ cnt_n[w] = 0
    BY <1>2 DEF CntInv, CntPlaces
  <2>2. cnt_counter <= Cnt!Expected
    BY <1>2, <2>1, AllStored DEF CntInv, CntRace
  <2>3. PICK w \in Consumers : TRUE
    BY DEF Cnt!CountersAssumption
  <2>4. cnt_counter >= 1 /\ (ITERS >= 2 => cnt_counter >= 2)
    BY <1>2, <2>1, <2>3 DEF CntInv, CntRace, Cnt!CountersAssumption
  <2>5. CASE Cardinality(Consumers) = 1
    <3>1. PICK v : Consumers = {v}
      BY <2>5, CntSets, FS_Singleton DEF Cnt!CountersAssumption
    <3>2. cnt_counter = ITERS
      BY <1>2, <2>1, <3>1 DEF CntInv, CntRace, Cnt!CountersAssumption
    <3> QED
      BY <2>2, <2>5, <3>2, CntSets DEF Cnt!RaceOutcome, Cnt!CountersAssumption
  <2>6. CASE Cardinality(Consumers) # 1
    BY <2>2, <2>4, <2>6, CntSets DEF Cnt!RaceOutcome, Cnt!CountersAssumption
  <2> QED
    BY <2>5, <2>6
<1> QED
  BY <1>1, <1>2 DEF Cnt!CountRight, Cnt!RaceOutcome

(***************************************************************************)
(* With a mutex, a spinlock or atomic_fetch_add no increment is lost, and  *)
(* the plain ++ of unsafe_inc leaves between 2 (1 for a single iteration)  *)
(* and all of them, for any number of threads and iterations.              *)
(***************************************************************************)
THEOREM CountCorrect == Cnt!Spec => []CountRight
<1>1. Cnt!Init => CntInv
  BY CountersConstants, CntInit
<1>2. CntInv /\ [Cnt!Next]_Cnt!vars => CntInv'
  BY CountersConstants, CntStep
<1>3. CntInv => CountRight
  BY CountersConstants, CntInvImplies DEF CountRight
<1> QED
  BY <1>1, <1>2, <1>3, PTL DEF Cnt!Spec

-----------------------------------------------------------------------------
\* Where main can be in the sections that hand over heap objects, and what lies behind it.
MainPoints == {"spawn", "join", "spawn_detached", "spin", "spawn_stacksz", "join_stacksz",
               "spawn_first", "spawn_second", "join_lockers", "return", "exit1"}
AfterBasics == MainPoints \ {"spawn", "join", "exit1"}
AfterSpin == AfterBasics \ {"spawn_detached", "spin"}
AfterAttrs == AfterSpin \ {"spawn_stacksz", "join_stacksz"}

\* Types of the thread-lifetime state.
LifeTypeOK ==
    /\ life_main \in MainPoints
    /\ life_m \in Nat
    /\ life_main \in {"spawn", "join"} => life_m \in Life!Workers
    /\ life_pc \in [Life!Threads -> {"unborn", "start", "fill", "announce", "exited",
                                     "has_a", "has_both", "release_a"}]
    /\ life_ret \in [Life!Threads -> {"none", "NULL", "obj"}]
    /\ life_heap \subseteq Life!Objects
    /\ life_freed \in [Life!Objects -> {0, 1}]

\* The life of a worker's two objects follows the worker's own steps ...
WorkerHeap(t) ==
    /\ life_pc[t] \in {"unborn", "start", "fill", "exited"}
    /\ <<"arg", t>> \in life_heap <=> life_pc[t] \in {"start", "fill"}
    /\ life_freed[<<"arg", t>>] = IF life_pc[t] = "exited" THEN 1 ELSE 0
    /\ life_ret[t] = "none" <=> life_pc[t] # "exited"
    /\ (life_pc[t] \in {"unborn", "start"} \/ life_ret[t] = "NULL")
         => <<"res", t>> \notin life_heap /\ life_freed[<<"res", t>>] = 0
    /\ life_pc[t] = "fill" => <<"res", t>> \in life_heap /\ life_freed[<<"res", t>>] = 0
    /\ life_ret[t] = "obj" => (<<"res", t>> \in life_heap <=> life_freed[<<"res", t>>] = 0)

\* ... and main's loops over the workers.
WorkerTurn(t) ==
    /\ life_main = "spawn" => (life_pc[t] = "unborn" <=> t >= life_m)
    /\ life_main = "join" => life_pc[t] # "unborn"
    /\ (life_main = "spawn" \/ (life_main = "join" /\ t >= life_m)) /\ life_ret[t] = "obj"
         => <<"res", t>> \in life_heap
    /\ ((life_main = "join" /\ t < life_m) \/ life_main \in AfterBasics)
         => life_pc[t] = "exited" /\ <<"res", t>> \notin life_heap

LifeWorkers == \A t \in Life!Workers : WorkerHeap(t) /\ WorkerTurn(t)

\* The argument of the detached and of the large-stack thread; they return no object.
ExtraHeap(t) ==
    /\ life_pc[t] \in {"unborn", "start", "announce", "exited"}
    /\ <<"arg", t>> \in life_heap <=> life_pc[t] = "start"
    /\ life_freed[<<"arg", t>>] = IF life_pc[t] \in {"announce", "exited"} THEN 1 ELSE 0
    /\ <<"res", t>> \notin life_heap /\ life_freed[<<"res", t>>] = 0

\* What the spin on g_detached_done and the join wait for.
LifeExtra ==
    /\ \A t \in Life!Extra : ExtraHeap(t)
    /\ life_g_detached_done => life_pc[Life!detached] = "exited"
    /\ life_main \in AfterSpin => life_pc[Life!detached] = "exited"
    /\ life_main \in AfterAttrs => life_pc[Life!stacksz] = "exited"

(***************************************************************************)
(* The inductive invariant of the hand-over: for each thread, where its    *)
(* argument and result are, as a function of its own program point and of  *)
(* how far main's loops have come.                                         *)
(***************************************************************************)
LifeInv == LifeTypeOK /\ LifeWorkers /\ LifeExtra

\* The threads of the three sections are different threads, with objects of their own.
LEMMA ThreadNumbers ==
    ASSUME Life!ThreadsAssumption
    PROVE  /\ Life!detached \notin Life!Workers /\ Life!stacksz \notin Life!Workers /\ Life!detached # Life!stacksz
           /\ \A t \in Life!Lockers : t \notin Life!Workers \cup Life!Extra
           /\ \A t \in Life!Workers : t \in Nat /\ t \in 1 .. NTHREADS
           /\ 1 \in Life!Workers
           /\ \A t \in Life!Workers \cup Life!Extra : <<"arg", t>> \in Life!Objects /\ <<"res", t>> \in Life!Objects
           /\ Life!Workers \subseteq Life!Threads /\ Life!Extra \subseteq Life!Threads /\ Life!Lockers \subseteq Life!Threads
           /\ Life!Extra = {Life!detached, Life!stacksz}
           /\ NTHREADS \in Nat
BY DEF Life!ThreadsAssumption, Life!detached, Life!stacksz, Life!first,
   Life!second, Life!Workers, Life!Extra, Life!Lockers, Life!Threads, Life!Objects

\* Before main spawns the first worker nothing is allocated.
LEMMA LifeInit == ASSUME Life!ThreadsAssumption, Life!Init PROVE LifeInv
<1>1. LifeTypeOK
  BY ThreadNumbers DEF Life!Init, LifeTypeOK, MainPoints
<1>2. ASSUME NEW t \in Life!Workers PROVE WorkerHeap(t) /\ WorkerTurn(t)
  <2>1. /\ life_pc[t] = "unborn" /\ life_ret[t] = "none" /\ life_main = "spawn" /\ t >= life_m /\ life_heap = {}
        /\ life_freed[<<"arg", t>>] = 0 /\ life_freed[<<"res", t>>] = 0
    BY ThreadNumbers DEF Life!Init
  <2> QED
    BY <2>1 DEF WorkerHeap, WorkerTurn, AfterBasics
<1>3. LifeExtra
  BY ThreadNumbers DEF Life!Init, LifeExtra, ExtraHeap, AfterBasics, AfterSpin,
                       AfterAttrs
<1> QED
  BY <1>1, <1>2, <1>3 DEF LifeInv, LifeWorkers

\* A step that leaves a worker and its objects alone.
LEMMA SameWorker ==
    ASSUME NEW t, WorkerHeap(t), life_pc'[t] = life_pc[t], life_ret'[t] = life_ret[t],
           <<"arg", t>> \in life_heap' <=> <<"arg", t>> \in life_heap,
           <<"res", t>> \in life_heap' <=> <<"res", t>> \in life_heap,
           life_freed'[<<"arg", t>>] = life_freed[<<"arg", t>>],
           life_freed'[<<"res", t>>] = life_freed[<<"res", t>>]
    PROVE  WorkerHeap(t)' /\ (life_main' = life_main /\ life_m' = life_m /\ WorkerTurn(t) => WorkerTurn(t)')
BY DEF WorkerHeap, WorkerTurn

\* free(o) of an object not freed before takes it, and nothing else, out of the heap.
LEMMA Frees ==
    ASSUME LifeTypeOK, NEW o \in Life!Objects, life_freed[o] = 0, Life!Free(o)
    PROVE  /\ life_heap' \subseteq Life!Objects /\ o \notin life_heap'
           /\ life_freed' \in [Life!Objects -> {0, 1}] /\ life_freed'[o] = 1
           /\ \A p \in Life!Objects : p # o => life_freed'[p] = life_freed[p] /\ (p \in life_heap' <=> p \in life_heap)
BY DEF LifeTypeOK, Life!Free

\* A step of one thread (or of main for it) touches that thread's objects only.
Apart(t) ==
    \A u \in Life!Workers \cup Life!Extra : u # t =>
      /\ life_pc'[u] = life_pc[u] /\ life_ret'[u] = life_ret[u]
      /\ \A s \in {"arg", "res"} : /\ <<s, u>> \in life_heap' <=> <<s, u>> \in life_heap
                                   /\ life_freed'[<<s, u>>] = life_freed[<<s, u>>]

\* So a step of one thread has to be looked at for that thread only.
LEMMA OnlyThread ==
    ASSUME Life!ThreadsAssumption, LifeInv, NEW t, Apart(t), life_main' = life_main, life_m' = life_m,
           t \in Life!Workers => WorkerHeap(t)' /\ WorkerTurn(t)',
           t \in Life!Extra => ExtraHeap(t)' /\ (life_pc[t] = "exited" => life_pc'[t] = "exited"),
           life_g_detached_done' => life_pc'[Life!detached] = "exited"
    PROVE  LifeWorkers' /\ LifeExtra'
<1>1. ASSUME NEW u \in Life!Workers, u # t PROVE WorkerHeap(u)' /\ WorkerTurn(u)'
  <2>1. WorkerHeap(u) /\ WorkerTurn(u)
    BY DEF LifeInv, LifeWorkers
  <2> QED
    BY <1>1, <2>1, SameWorker DEF Apart
<1>2. ASSUME NEW u \in Life!Extra, u # t PROVE ExtraHeap(u)' /\ life_pc'[u] = life_pc[u]
  BY <1>2 DEF Apart, LifeInv, LifeExtra, ExtraHeap
<1>3. LifeWorkers'
  BY <1>1 DEF LifeWorkers
<1>4. LifeExtra'
  BY <1>2, ThreadNumbers DEF LifeInv, LifeExtra
<1> QED
  BY <1>3, <1>4

\* Every step of worker, detached_fn, stacksz_fn and safe_order keeps the invariant.
LEMMA LifeThreads ==
    ASSUME Life!ThreadsAssumption, LifeInv, NEW t \in Life!Threads, Life!thread(t)
    PROVE  LifeInv'
<1> USE ThreadNumbers DEF LifeInv, Life!Goto
<1>1. CASE t \in Life!Workers /\ Life!worker_alloc(t)
  <2>1. /\ life_pc[t] = "start" /\ life_pc' = [life_pc EXCEPT ![t] = "fill"]
        /\ life_heap' = life_heap \cup {<<"res", t>>}
        /\ UNCHANGED <<life_main, life_m, life_ret, life_freed,
                       life_g_detached_done, life_lock_a, life_lock_b>>
    BY <1>1 DEF Life!worker_alloc
  <2>2. LifeTypeOK'
    BY <1>1, <2>1 DEF LifeTypeOK
  <2>3. Apart(t)
    BY <2>1 DEF Apart, LifeTypeOK
  <2>4. WorkerHeap(t)' /\ WorkerTurn(t)'
    <3>1. WorkerHeap(t) /\ WorkerTurn(t)
      BY <1>1 DEF LifeWorkers
    <3>2. life_pc'[t] = "fill" /\ <<"res", t>> \in life_heap' /\ (<<"arg", t>> \in life_heap' <=> <<"arg", t>> \in life_heap)
      BY <1>1, <2>1 DEF LifeTypeOK
    <3> QED
      BY <2>1, <3>1, <3>2 DEF WorkerHeap, WorkerTurn
  <2> QED
    BY <1>1, <2>1, <2>2, <2>3, <2>4, OnlyThread DEF LifeExtra
<1>2. CASE t \in Life!Workers /\ (Life!worker_alloc_fails(t) \/ Life!worker_return(t))
  <2>1. /\ \/ life_pc[t] = "start" /\ life_ret' = [life_ret EXCEPT ![t] = "NULL"]
           \/ life_pc[t] = "fill" /\ life_ret' = [life_ret EXCEPT ![t] = "obj"]
        /\ life_pc' = [life_pc EXCEPT ![t] = "exited"]
        /\ Life!Free(<<"arg", t>>)
        /\ UNCHANGED <<life_main, life_m, life_g_detached_done, life_lock_a,
                       life_lock_b>>
    BY <1>2 DEF Life!worker_alloc_fails, Life!worker_return
  <2>2. WorkerHeap(t) /\ WorkerTurn(t)
    BY <1>2 DEF LifeWorkers
  <2>3. /\ life_heap' \subseteq Life!Objects /\ <<"arg", t>> \notin life_heap'
        /\ life_freed' \in [Life!Objects -> {0, 1}] /\ life_freed'[<<"arg", t>>] = 1
        /\ \A p \in Life!Objects : p # <<"arg", t>> => life_freed'[p] = life_freed[p] /\ (p \in life_heap' <=> p \in life_heap)
    <3>1. <<"arg", t>> \in Life!Objects /\ life_freed[<<"arg", t>>] = 0
      BY <1>2, <2>1, <2>2 DEF WorkerHeap
    <3> QED
      BY <2>1, <3>1, Frees
  <2>4. LifeTypeOK'
    BY <1>2, <2>1, <2>3 DEF LifeTypeOK
  <2>5. Apart(t)
    <3>1. \A u \in Life!Workers \cup Life!Extra : u # t =>
            \A s \in {"arg", "res"} : <<s, u>> \in Life!Objects /\ <<s, u>> # <<"arg", t>>
      BY DEF Life!Objects
    <3> QED
      BY <2>1, <2>3, <3>1 DEF Apart, LifeTypeOK
  <2>6. WorkerHeap(t)' /\ WorkerTurn(t)'
    <3>1. /\ life_pc'[t] = "exited"
          /\ life_freed'[<<"res", t>>] = life_freed[<<"res", t>>]
          /\ (<<"res", t>> \in life_heap' <=> <<"res", t>> \in life_heap)
      BY <1>2, <2>1, <2>3 DEF LifeTypeOK
    <3>2. \/ life_pc[t] = "start" /\ life_ret'[t] = "NULL"
          \/ life_pc[t] = "fill" /\ life_ret'[t] = "obj"
      BY <1>2, <2>1 DEF LifeTypeOK
    <3> QED
      BY <2>1, <2>2, <2>3, <3>1, <3>2 DEF WorkerHeap, WorkerTurn
  <2> QED
    BY <1>2, <2>1, <2>4, <2>5, <2>6, OnlyThread DEF LifeExtra
<1>3. CASE t \in Life!Extra /\ Life!read_and_free(t)
  <2>1. /\ life_pc[t] = "start"
        /\ life_pc' = [life_pc EXCEPT ![t] = IF t = Life!detached THEN "announce" ELSE "exited"]
        /\ Life!Free(<<"arg", t>>)
        /\ UNCHANGED <<life_main, life_m, life_ret, life_g_detached_done,
                       life_lock_a, life_lock_b>>
    BY <1>3 DEF Life!read_and_free
  <2>2. ExtraHeap(t)
    BY <1>3 DEF LifeExtra
  <2>3. /\ life_heap' \subseteq Life!Objects /\ <<"arg", t>> \notin life_heap'
        /\ life_freed' \in [Life!Objects -> {0, 1}] /\ life_freed'[<<"arg", t>>] = 1
        /\ \A p \in Life!Objects : p # <<"arg", t>> => life_freed'[p] = life_freed[p] /\ (p \in life_heap' <=> p \in life_heap)
    <3>1. <<"arg", t>> \in Life!Objects /\ life_freed[<<"arg", t>>] = 0
      BY <1>3, <2>1, <2>2 DEF ExtraHeap
    <3> QED
      BY <2>1, <3>1, Frees
  <2>4. LifeTypeOK'
    BY <1>3, <2>1, <2>3 DEF LifeTypeOK
  <2>5. Apart(t)
    <3>1. \A u \in Life!Workers \cup Life!Extra : u # t =>
            \A s \in {"arg", "res"} : <<s, u>> \in Life!Objects /\ <<s, u>> # <<"arg", t>>
      BY DEF Life!Objects
    <3> QED
      BY <2>1, <2>3, <3>1 DEF Apart, LifeTypeOK
  <2>6. ExtraHeap(t)'
    <3>1. /\ life_pc'[t] \in {"announce", "exited"}
          /\ life_freed'[<<"res", t>>] = life_freed[<<"res", t>>]
          /\ (<<"res", t>> \in life_heap' <=> <<"res", t>> \in life_heap)
      BY <1>3, <2>1, <2>3 DEF LifeTypeOK
    <3> QED
      BY <2>2, <2>3, <3>1 DEF ExtraHeap
  <2>7. life_g_detached_done' => life_pc'[Life!detached] = "exited"
    BY <1>3, <2>1 DEF LifeExtra, LifeTypeOK
  <2> QED
    BY <1>3, <2>1, <2>4, <2>5, <2>6, <2>7, OnlyThread
<1>4. CASE /\ t = Life!detached /\ Life!Goto(Life!detached, "announce", "exited")
           /\ life_g_detached_done' = TRUE /\ UNCHANGED <<life_main, life_m,
                                                          life_ret, life_heap,
                                                          life_freed, life_lock_a,
                                                          life_lock_b>>
  <2>1. LifeTypeOK'
    BY <1>4 DEF LifeTypeOK
  <2>2. Apart(t)
    BY <1>4 DEF Apart, LifeTypeOK
  <2>3. ExtraHeap(t)' /\ life_pc'[Life!detached] = "exited"
    BY <1>4 DEF LifeExtra, ExtraHeap, LifeTypeOK
  <2> QED
    BY <1>4, <2>1, <2>2, <2>3, OnlyThread
<1>5. CASE Life!safe_order(t)
  <2>1. /\ t \in Life!Lockers /\ UNCHANGED <<life_main, life_m, life_ret,
                                             life_heap, life_freed,
                                             life_g_detached_done>>
        /\ \E b \in {"has_a", "has_both", "release_a", "exited"} : life_pc' = [life_pc EXCEPT ![t] = b]
    BY <1>5 DEF Life!safe_order
  <2>2. LifeTypeOK'
    BY <2>1 DEF LifeTypeOK
  <2>3. Apart(t) /\ life_pc'[Life!detached] = life_pc[Life!detached]
    BY <2>1 DEF Apart, LifeTypeOK
  <2> QED
    BY <2>1, <2>2, <2>3, OnlyThread DEF LifeExtra
<1> QED
  BY <1>1, <1>2, <1>3, <1>4, <1>5 DEF Life!thread, Life!worker, Life!detached_fn,
                                      Life!stacksz_fn

(***************************************************************************)
(* Every step of main keeps it: a spawn with or without a successful       *)
(* malloc of the argument, a join that frees the result, the spin on the   *)
(* flag of the detached thread.                                            *)
(***************************************************************************)
LEMMA LifeMain ==
    ASSUME Life!ThreadsAssumption, LifeInv, Life!main_thread \/ Life!arg_alloc_fails
    PROVE  LifeInv'
<1> USE ThreadNumbers DEF LifeInv, Life!Goto, Life!MainGoto
<1>0. ASSUME NEW t, Apart(t), NEW u \in Life!Workers, u # t PROVE WorkerHeap(u)'
  <2>1. WorkerHeap(u)
    BY DEF LifeWorkers
  <2> QED
    BY <1>0, <2>1, SameWorker DEF Apart
<1>1. ASSUME NEW t, Apart(t)
      PROVE  /\ \A u \in Life!Workers : u # t => life_pc'[u] = life_pc[u] /\ life_ret'[u] = life_ret[u]
                                                 /\ (<<"res", u>> \in life_heap' <=> <<"res", u>> \in life_heap)
             /\ \A u \in Life!Extra : u # t => ExtraHeap(u)' /\ life_pc'[u] = life_pc[u]
  <2>2. ASSUME NEW u \in Life!Extra, u # t PROVE ExtraHeap(u)'
    BY <1>1, <2>2 DEF Apart, LifeExtra, ExtraHeap
  <2> QED
    BY <1>1, <2>2 DEF Apart
<1>2. CASE Life!spawn_worker
  <2>1. PICK w : w = life_m
    OBVIOUS
  <2>2. /\ life_main = "spawn" /\ life_main' = (IF w < NTHREADS THEN "spawn" ELSE "join")
        /\ life_m' = (IF w < NTHREADS THEN w + 1 ELSE 1)
        /\ life_pc[w] = "unborn" /\ life_pc' = [life_pc EXCEPT ![w] = "start"]
        /\ life_heap' = life_heap \cup {<<"arg", w>>}
        /\ UNCHANGED <<life_ret, life_freed, life_g_detached_done, life_lock_a,
                       life_lock_b>>
        /\ w \in Life!Workers /\ w \in 1 .. NTHREADS
    BY <1>2, <2>1 DEF Life!spawn_worker, LifeTypeOK
  <2>3. LifeTypeOK'
    <3>1. life_main' \in MainPoints /\ life_m' \in Nat /\ life_m' \in Life!Workers
      BY <2>2 DEF MainPoints, Life!Workers
    <3> QED
      BY <2>2, <3>1 DEF LifeTypeOK
  <2>4. Apart(w)
    BY <2>2 DEF Apart, LifeTypeOK
  <2>5. life_pc'[w] = "start" /\ \A u \in Life!Workers : u # w => life_pc'[u] = life_pc[u]
    BY <2>2 DEF LifeTypeOK
  <2>6. WorkerHeap(w)'
    <3>1. WorkerHeap(w)
      BY <2>2 DEF LifeWorkers
    <3>2. <<"arg", w>> \in life_heap' /\ (<<"res", w>> \in life_heap' <=> <<"res", w>> \in life_heap)
      BY <2>2
    <3> QED
      BY <2>2, <2>5, <3>1, <3>2 DEF WorkerHeap
  <2>7. ASSUME NEW u \in Life!Workers PROVE WorkerTurn(u)'
    <3>1. /\ WorkerTurn(u) /\ WorkerHeap(w) /\ u \in 1 .. NTHREADS
          /\ (<<"res", u>> \in life_heap' <=> <<"res", u>> \in life_heap)
      BY <2>2 DEF LifeWorkers
    <3>2. /\ life_pc[u] = "unborn" <=> u >= w
          /\ life_ret[u] = "obj" => <<"res", u>> \in life_heap
      BY <2>1, <2>2, <3>1 DEF WorkerTurn
    <3>3. life_main' \in {"spawn", "join"} /\ life_main' \notin AfterBasics
      BY <2>2 DEF AfterBasics
    <3> QED
      BY <2>2, <2>5, <3>1, <3>2, <3>3 DEF WorkerTurn
  <2>8. LifeWorkers'
    <3>1. ASSUME NEW u \in Life!Workers PROVE WorkerHeap(u)'
      BY <1>0, <2>4, <2>6
    <3> QED
      BY <2>7, <3>1 DEF LifeWorkers
  <2>9. LifeExtra'
    BY <1>1, <2>2, <2>4 DEF LifeExtra, AfterAttrs, AfterSpin, AfterBasics
  <2> QED
    BY <2>3, <2>8, <2>9
<1>3. CASE Life!join_worker
  <2>1. PICK w : w = life_m
    OBVIOUS
  <2>2. /\ life_main = "join" /\ life_main' = (IF w < NTHREADS THEN "join" ELSE "spawn_detached")
        /\ life_m' = w + 1 /\ life_pc[w] = "exited"
        /\ IF life_ret[w] = "NULL" THEN UNCHANGED <<life_heap, life_freed>> ELSE Life!Free(<<"res", w>>)
        /\ UNCHANGED <<life_pc, life_ret, life_g_detached_done, life_lock_a,
                       life_lock_b>>
        /\ w \in Life!Workers /\ w \in 1 .. NTHREADS
    BY <1>3, <2>1 DEF Life!join_worker, LifeTypeOK
  <2>3. WorkerHeap(w) /\ WorkerTurn(w) /\ life_ret[w] \in {"NULL", "obj"}
    BY <2>2 DEF LifeWorkers, LifeTypeOK, WorkerHeap
  <2>4. /\ life_heap' \subseteq Life!Objects /\ <<"res", w>> \notin life_heap'
        /\ life_freed' \in [Life!Objects -> {0, 1}] /\ (life_ret[w] = "obj" => life_freed'[<<"res", w>>] = 1)
        /\ life_ret[w] = "NULL" => life_freed'[<<"res", w>>] = 0
        /\ \A p \in Life!Objects : p # <<"res", w>> => life_freed'[p] = life_freed[p] /\ (p \in life_heap' <=> p \in life_heap)
    <3>1. CASE life_ret[w] = "NULL"
      BY <2>2, <2>3, <3>1 DEF WorkerHeap, LifeTypeOK
    <3>2. CASE life_ret[w] = "obj"
      <4>1. <<"res", w>> \in Life!Objects /\ life_freed[<<"res", w>>] = 0
        BY <2>1, <2>2, <2>3, <3>2 DEF WorkerHeap, WorkerTurn
      <4> QED
        BY <2>2, <3>2, <4>1, Frees
    <3> QED
      BY <2>3, <3>1, <3>2
  <2>5. LifeTypeOK'
    <3>1. life_main' \in MainPoints /\ life_m' \in Nat /\ (life_main' \in {"spawn", "join"} => life_m' \in Life!Workers)
      BY <2>2 DEF MainPoints, Life!Workers
    <3> QED
      BY <2>2, <2>4, <3>1 DEF LifeTypeOK
  <2>6. Apart(w)
    <3>1. \A u \in Life!Workers \cup Life!Extra : u # w =>
            \A s \in {"arg", "res"} : <<s, u>> \in Life!Objects /\ <<s, u>> # <<"res", w>>
      BY DEF Life!Objects
    <3> QED
      BY <2>2, <2>4, <3>1 DEF Apart
  <2>7. WorkerHeap(w)'
    <3>1. life_freed'[<<"arg", w>>] = life_freed[<<"arg", w>>] /\ (<<"arg", w>> \in life_heap' <=> <<"arg", w>> \in life_heap)
      BY <2>2, <2>4
    <3> QED
      BY <2>2, <2>3, <2>4, <3>1 DEF WorkerHeap
  <2>8. ASSUME NEW u \in Life!Workers PROVE WorkerTurn(u)'
    <3>1. /\ WorkerTurn(u) /\ u \in 1 .. NTHREADS
          /\ u # w => (<<"res", u>> \in life_heap' <=> <<"res", u>> \in life_heap)
      BY <1>1, <2>6 DEF LifeWorkers
    <3>2. CASE u = w
      BY <2>2, <2>4, <3>1, <3>2 DEF WorkerTurn
    <3>3. CASE u # w
      <4>1. /\ u < w => life_pc[u] = "exited" /\ <<"res", u>> \notin life_heap
            /\ life_pc[u] # "unborn"
            /\ u >= w /\ life_ret[u] = "obj" => <<"res", u>> \in life_heap
        BY <2>1, <2>2, <3>1 DEF WorkerTurn
      <4>2. life_main' = "join" \/ (life_main' = "spawn_detached" /\ u < w)
        BY <2>2, <3>1, <3>3
      <4> QED
        BY <2>2, <3>1, <3>3, <4>1, <4>2 DEF WorkerTurn
    <3> QED
      BY <3>2, <3>3
  <2>9. LifeWorkers'
    <3>1. ASSUME NEW u \in Life!Workers PROVE WorkerHeap(u)'
      BY <1>0, <2>6, <2>7
    <3> QED
      BY <2>8, <3>1 DEF LifeWorkers
  <2>10. LifeExtra'
    BY <1>1, <2>2, <2>6 DEF LifeExtra, AfterAttrs, AfterSpin, AfterBasics
  <2> QED
    BY <2>5, <2>9, <2>10
<1>4. ASSUME NEW t \in Life!Extra, NEW a \in {"spawn_detached", "spawn_stacksz"},
             NEW b \in {"spin", "join_stacksz"}, Life!spawn_extra(t, a, b),
             a = "spawn_stacksz" <=> b = "join_stacksz", a = "spawn_stacksz" => t = Life!stacksz
      PROVE  LifeInv'
  <2>1. /\ life_main = a /\ life_main' = b /\ life_pc[t] = "unborn" /\ life_pc' = [life_pc EXCEPT ![t] = "start"]
        /\ life_heap' = life_heap \cup {<<"arg", t>>}
        /\ UNCHANGED <<life_m, life_ret, life_freed, life_g_detached_done,
                       life_lock_a, life_lock_b>>
    BY <1>4 DEF Life!spawn_extra
  <2>2. LifeTypeOK'
    BY ZenonT(60), <1>4, <2>1 DEF LifeTypeOK, MainPoints
  <2>3. Apart(t)
    BY <2>1 DEF Apart, LifeTypeOK
  <2>4. ExtraHeap(t)'
    <3>1. ExtraHeap(t) /\ life_pc'[t] = "start" /\ <<"arg", t>> \in life_heap'
          /\ (<<"res", t>> \in life_heap' <=> <<"res", t>> \in life_heap)
      BY <1>4, <2>1 DEF LifeExtra, LifeTypeOK
    <3> QED
      BY <2>1, <3>1 DEF ExtraHeap
  <2>5. ASSUME NEW u \in Life!Workers PROVE WorkerTurn(u)'
    <3>1. WorkerTurn(u) /\ u # t
      BY DEF LifeWorkers
    <3> QED
      BY <1>1, <1>4, <2>1, <2>3, <3>1 DEF WorkerTurn, AfterBasics, MainPoints
  <2>6. LifeWorkers'
    <3>1. ASSUME NEW u \in Life!Workers PROVE WorkerHeap(u)'
      BY <1>0, <2>3
    <3> QED
      BY <2>5, <3>1 DEF LifeWorkers
  <2>7. LifeExtra'
    <3>1. /\ life_g_detached_done => life_pc[Life!detached] = "exited"
          /\ a = "spawn_stacksz" => life_pc[Life!detached] = "exited" /\ Life!detached # t
      BY <1>4, <2>1 DEF LifeExtra, AfterSpin, AfterBasics, MainPoints
    <3>2. life_g_detached_done' => life_pc'[Life!detached] = "exited"
      BY <2>1, <3>1 DEF LifeTypeOK
    <3>3. life_main' \in AfterSpin => life_pc'[Life!detached] = "exited"
      BY <1>4, <2>1, <3>1 DEF LifeTypeOK, AfterSpin
    <3>4. life_main' \notin AfterAttrs
      BY <1>4, <2>1 DEF AfterAttrs, AfterSpin
    <3> QED
      BY <1>1, <2>3, <2>4, <3>2, <3>3, <3>4 DEF LifeExtra
  <2> QED
    BY <2>2, <2>6, <2>7
<1>5. ASSUME /\ Apart(0) /\ LifeTypeOK' /\ life_main \in MainPoints \ {"spawn", "join"}
             /\ life_pc'[Life!detached] = life_pc[Life!detached] /\ life_pc'[Life!stacksz] = life_pc[Life!stacksz]
             /\ life_g_detached_done' = life_g_detached_done
             /\ life_main' \in AfterBasics => life_main \in AfterBasics
             /\ life_main' \in AfterSpin => life_main \in AfterSpin \/ life_g_detached_done
             /\ life_main' \in AfterAttrs => life_main \in AfterAttrs \/ life_pc[Life!stacksz] = "exited"
             /\ life_main' \notin {"spawn", "join"}
      PROVE  LifeInv'
  <2>1. 0 \notin Life!Workers /\ 0 \notin Life!Extra
    BY DEF Life!Workers, Life!Extra, Life!detached, Life!stacksz
  <2>2. ASSUME NEW u \in Life!Workers PROVE WorkerTurn(u)'
    <3>1. WorkerTurn(u)
      BY DEF LifeWorkers
    <3> QED
      BY <1>1, <1>5, <2>1, <3>1 DEF WorkerTurn
  <2>3. LifeWorkers'
    <3>1. ASSUME NEW u \in Life!Workers PROVE WorkerHeap(u)'
      BY <1>0, <1>5, <2>1
    <3> QED
      BY <2>2, <3>1 DEF LifeWorkers
  <2>4. LifeExtra'
    BY <1>1, <1>5, <2>1 DEF LifeExtra
  <2> QED
    BY <1>5, <2>3, <2>4
<1>6. CASE \/ Life!wait_for(life_g_detached_done, "spin", "spawn_stacksz")
           \/ Life!wait_for(life_pc[Life!stacksz] = "exited", "join_stacksz", "spawn_first")
           \/ Life!wait_for(\A t \in Life!Lockers : life_pc[t] = "exited", "join_lockers", "return")
           \/ (Life!arg_alloc_fails /\ life_main # "spawn")
  <2>1. /\ UNCHANGED <<life_m, life_pc, life_ret, life_heap, life_freed,
                       life_g_detached_done, life_lock_a, life_lock_b>>
        /\ \/ life_main = "spin" /\ life_main' = "spawn_stacksz" /\ life_g_detached_done
           \/ life_main = "join_stacksz" /\ life_main' = "spawn_first" /\ life_pc[Life!stacksz] = "exited"
           \/ life_main = "join_lockers" /\ life_main' = "return"
           \/ life_main \in {"spawn_detached", "spawn_stacksz"} /\ life_main' = "exit1"
    BY <1>6 DEF Life!wait_for, Life!arg_alloc_fails
  <2>2. Apart(0) /\ LifeTypeOK'
    BY <2>1 DEF Apart, LifeTypeOK, MainPoints
  <2> QED
    BY <1>5, <2>1, <2>2 DEF MainPoints, AfterBasics, AfterSpin, AfterAttrs
<1>7. CASE \/ Life!spawn_locker(Life!first, "spawn_first", "spawn_second")
           \/ Life!spawn_locker(Life!second, "spawn_second", "join_lockers")
  <2>1. PICK t \in Life!Lockers : life_pc' = [life_pc EXCEPT ![t] = "start"]
    BY <1>7 DEF Life!spawn_locker, Life!Lockers
  <2>2. /\ UNCHANGED <<life_m, life_ret, life_heap, life_freed,
                       life_g_detached_done, life_lock_a, life_lock_b>>
        /\ \/ life_main = "spawn_first" /\ life_main' = "spawn_second"
           \/ life_main = "spawn_second" /\ life_main' = "join_lockers"
    BY <1>7 DEF Life!spawn_locker
  <2>3. /\ Apart(0) /\ LifeTypeOK'
        /\ life_pc'[Life!detached] = life_pc[Life!detached]
        /\ life_pc'[Life!stacksz] = life_pc[Life!stacksz]
    BY <2>1, <2>2 DEF Apart, LifeTypeOK, MainPoints
  <2> QED
    BY <1>5, <2>2, <2>3 DEF MainPoints, AfterBasics, AfterSpin, AfterAttrs
<1>8. CASE Life!arg_alloc_fails /\ life_main = "spawn"
  <2>1. /\ UNCHANGED <<life_m, life_pc, life_ret, life_heap, life_freed,
                       life_g_detached_done, life_lock_a, life_lock_b>>
        /\ life_main' = "exit1"
    BY <1>8 DEF Life!arg_alloc_fails
  <2>2. LifeTypeOK' /\ Apart(0) /\ 0 \notin Life!Workers /\ 0 \notin Life!Extra
    BY <2>1 DEF Apart, LifeTypeOK, MainPoints, Life!Workers, Life!Extra,
                Life!detached, Life!stacksz
  <2>3. ASSUME NEW u \in Life!Workers PROVE WorkerHeap(u)' /\ WorkerTurn(u)'
    BY <1>0, <2>1, <2>2 DEF WorkerTurn, AfterBasics
  <2>4. LifeWorkers'
    BY <2>3 DEF LifeWorkers
  <2>5. LifeExtra'
    BY <1>1, <2>1, <2>2 DEF LifeExtra, AfterBasics, AfterSpin, AfterAttrs
  <2> QED
    BY <2>2, <2>4, <2>5
<1> QED
  BY <1>2, <1>3, <1>4, <1>6, <1>7, <1>8
  DEF Life!main_thread, Life!section_basics, Life!section_attrs, Life!section_pitfalls

(***************************************************************************)
(* The heap objects of section_basics and section_attrs are never used     *)
(* after free and never freed twice, all are freed when main returns, and  *)
(* g_detached_done is set only after the detached thread has freed its     *)
(* argument, for any number of workers and any failing malloc.             *)
(***************************************************************************)
THEOREM HeapOwnership == Life!Spec => []Ownership
<1> USE ThreadsConstants
<1>1. Life!Init => LifeInv
  BY LifeInit
<1>2. LifeInv /\ [Life!Next]_Life!vars => LifeInv'
  <2> SUFFICES ASSUME LifeInv, [Life!Next]_Life!vars PROVE LifeInv'
    OBVIOUS
  <2>1. CASE UNCHANGED Life!vars
    BY <2>1 DEF Life!vars, LifeInv, LifeTypeOK, LifeWorkers, WorkerHeap,
                WorkerTurn, LifeExtra, ExtraHeap
  <2> QED
    BY <2>1, LifeThreads, LifeMain DEF Life!Next
<1>3. LifeInv => Ownership
  <2> SUFFICES ASSUME LifeInv PROVE Ownership
    OBVIOUS
  <2>1. ASSUME NEW t \in Life!Workers
        PROVE  /\ WorkerHeap(t) /\ WorkerTurn(t)
               /\ life_ret[t] \in {"none", "NULL", "obj"} /\ t \in Life!Threads
    BY ThreadNumbers DEF LifeInv, LifeTypeOK, LifeWorkers
  <2>2. ASSUME NEW t \in Life!Extra PROVE ExtraHeap(t)
    BY DEF LifeInv, LifeExtra
  <2>3. Life!NoUseAfterFree
    <3>1. \A t \in Life!Workers \cup Life!Extra : life_pc[t] = "start" => <<"arg", t>> \in life_heap
      BY <2>1, <2>2 DEF WorkerHeap, ExtraHeap
    <3>2. \A t \in Life!Workers : life_pc[t] = "fill" => <<"arg", t>> \in life_heap /\ <<"res", t>> \in life_heap
      BY <2>1 DEF WorkerHeap
    <3>3. \A t \in Life!Workers : (life_main = "join" /\ life_m <= t /\ life_ret[t] = "obj") => <<"res", t>> \in life_heap
      <4> SUFFICES ASSUME NEW t \in Life!Workers, life_main = "join", life_m <= t, life_ret[t] = "obj"
                   PROVE  <<"res", t>> \in life_heap
        OBVIOUS
      <4>1. t >= life_m
        BY ThreadNumbers DEF LifeInv, LifeTypeOK
      <4> QED
        BY <2>1, <4>1 DEF WorkerTurn
    <3> QED
      BY <3>1, <3>2, <3>3 DEF Life!NoUseAfterFree
  <2>4. Life!NoLeakNoDoubleFree
    <3>1. \A o \in Life!Objects : life_freed[o] = 1 => o \notin life_heap
      <4> SUFFICES ASSUME NEW t \in Life!Workers \cup Life!Extra
                   PROVE  /\ life_freed[<<"arg", t>>] = 1 => <<"arg", t>> \notin life_heap
                          /\ life_freed[<<"res", t>>] = 1 => <<"res", t>> \notin life_heap
        <5>1. \A o \in Life!Objects : \E t \in Life!Workers \cup Life!Extra : o = <<"arg", t>> \/ o = <<"res", t>>
          BY DEF Life!Objects
        <5> QED
          BY <5>1
      <4>1. CASE t \in Life!Workers
        <5>1. WorkerHeap(t) /\ life_ret[t] \in {"none", "NULL", "obj"}
          BY <2>1, <4>1
        <5> QED
          BY <5>1 DEF WorkerHeap
      <4>2. CASE t \in Life!Extra
        BY <2>2, <4>2 DEF ExtraHeap
      <4> QED
        BY <4>1, <4>2
    <3>2. ASSUME NEW t \in Life!Workers, life_freed[<<"res", t>>] = 1 PROVE life_ret[t] = "obj"
      <4>1. WorkerHeap(t) /\ life_ret[t] \in {"none", "NULL", "obj"}
        BY <2>1
      <4> QED
        BY <3>2, <4>1 DEF WorkerHeap
    <3>3. life_main = "return" => life_heap = {}
      <4> SUFFICES ASSUME life_main = "return", NEW s \in {"arg", "res"}, NEW t \in Life!Workers \cup Life!Extra
                   PROVE  <<s, t>> \notin life_heap
        BY DEF Life!Objects, LifeInv, LifeTypeOK
      <4> USE DEF MainPoints, AfterBasics, AfterSpin, AfterAttrs
      <4>1. CASE t \in Life!Workers
        BY <2>1, <4>1 DEF WorkerHeap, WorkerTurn
      <4>2. CASE t \in Life!Extra
        BY <2>2, <4>2, ThreadNumbers DEF LifeInv, LifeExtra, ExtraHeap
      <4> QED
        BY <4>1, <4>2
    <3>4. \A o \in Life!Objects : life_freed[o] <= 1
      BY DEF LifeInv, LifeTypeOK
    <3>5. ASSUME life_main = "return", NEW t \in Life!Workers
          PROVE  life_freed[<<"arg", t>>] = 1 /\ (life_ret[t] = "obj" => life_freed[<<"res", t>>] = 1)
      <4>1. WorkerHeap(t) /\ WorkerTurn(t) /\ <<"res", t>> \in Life!Objects
        BY <2>1, ThreadNumbers
      <4>2. life_pc[t] = "exited" /\ <<"res", t>> \notin life_heap
        BY <3>5, <4>1 DEF WorkerTurn, MainPoints, AfterBasics, AfterSpin, AfterAttrs
      <4>3. life_freed[<<"res", t>>] \in {0, 1}
        BY <4>1 DEF LifeInv, LifeTypeOK
      <4> QED
        BY <4>1, <4>2, <4>3 DEF WorkerHeap
    <3>6. ASSUME life_main = "return", NEW t \in Life!Extra PROVE life_freed[<<"arg", t>>] = 1
      <4>1. ExtraHeap(t) /\ life_pc[t] = "exited"
        BY <2>2, <3>6, ThreadNumbers DEF LifeInv, LifeExtra, MainPoints,
                                         AfterBasics, AfterSpin, AfterAttrs
      <4> QED
        BY <4>1 DEF ExtraHeap
    <3> QED
      BY <3>1, <3>2, <3>3, <3>4, <3>5, <3>6 DEF Life!NoLeakNoDoubleFree
  <2>5. Life!FlagAfterWork
    BY <2>2, ThreadNumbers DEF LifeInv, LifeExtra, ExtraHeap, Life!FlagAfterWork
  <2> QED
    BY <2>3, <2>4, <2>5 DEF Ownership
<1> QED
  BY <1>1, <1>2, <1>3, PTL DEF Life!Spec
==============================================================================
