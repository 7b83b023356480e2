------------------------------ MODULE SemBasics ------------------------------
(***************************************************************************)
(* Exercise 30, sections 2, 3 and 5, in the order main calls them: the     *)
(* value of an unnamed semaphore under wait, post and trywait; the         *)
(* producer-to-consumer handoff; and sem_timedwait with an absolute        *)
(* deadline.                                                               *)
(*                                                                         *)
(* Time is counted in ticks; SECOND ticks make a second, so a timespec is  *)
(* [sec, tick] with tick standing for tv_nsec.  sem_timedwait rejects a    *)
(* timespec whose tick is not below SECOND.                                *)
(***************************************************************************)
EXTENDS Naturals

CONSTANTS SECOND,    \* ticks per second (10^9 in the code)
          DELAY,     \* the first deadline's distance (10^8 in the code)
          LAG        \* bound on the ticks that pass between two calls

\* A second takes some ticks, and the first deadline lies within one.
ClockAssumption ==
    SECOND \in Nat \ {0} /\ DELAY \in 0 .. SECOND /\ LAG \in Nat

VARIABLES pc,        \* where main is
          sem,       \* value of the semaphore in use
          alive,     \* that semaphore is initialised and not destroyed
          g_value, seen,     \* section 3: the data, and what the consumer read
          prod,      \* section 3: the producer thread
          now,       \* CLOCK_REALTIME in ticks
          asked,     \* when clock_gettime was called
          ts,        \* the deadline
          rc         \* result of the last sem_trywait or sem_timedwait

vars == <<pc, sem, alive, g_value, seen, prod, now, asked, ts, rc>>

Ticks(t) == (t.sec * SECOND) + t.tick

Init ==
    /\ pc = "init2"
    /\ sem = 0 /\ alive = FALSE
    /\ g_value = 0 /\ seen = 0
    /\ prod = "unborn"
    /\ now \in 0 .. SECOND - 1
    /\ asked = 0
    /\ ts = [sec |-> 0, tick |-> 0]
    /\ rc = "none"

Goto(a, b) == pc = a /\ pc' = b

sem_init(v, a, b) ==
    /\ Goto(a, b)
    /\ sem' = v /\ alive' = TRUE
    /\ UNCHANGED <<g_value, seen, prod, now, asked, ts, rc>>

sem_destroy(a, b) ==
    /\ Goto(a, b)
    /\ alive' = FALSE
    /\ UNCHANGED <<sem, g_value, seen, prod, now, asked, ts, rc>>

sem_wait(a, b) ==
    /\ sem > 0
    /\ Goto(a, b)
    /\ sem' = sem - 1
    /\ UNCHANGED <<alive, g_value, seen, prod, now, asked, ts, rc>>

sem_post(a, b) ==
    /\ Goto(a, b)
    /\ sem' = sem + 1
    /\ UNCHANGED <<alive, g_value, seen, prod, now, asked, ts, rc>>

sem_trywait(a, b) ==
    /\ Goto(a, b)
    /\ sem' = IF sem > 0 THEN sem - 1 ELSE 0
    /\ rc' = IF sem > 0 THEN "ok" ELSE "EAGAIN"
    /\ UNCHANGED <<alive, g_value, seen, prod, now, asked, ts>>

-----------------------------------------------------------------------------

\* Section 2: 3, wait, wait, post, post, post, then trywait until it fails.
section2_basics ==
    \/ sem_init(3, "init2", "wait1")
    \/ sem_wait("wait1", "wait2")
    \/ sem_wait("wait2", "post1")
    \/ sem_post("post1", "post2")
    \/ sem_post("post2", "post3")
    \/ sem_post("post3", "try1")
    \/ sem_trywait("try1", "drain")
    \/ sem_trywait("drain", IF sem > 0 THEN "drain" ELSE "try_empty")
    \/ sem_trywait("try_empty", "destroy2")
    \/ sem_destroy("destroy2", "init3")

-----------------------------------------------------------------------------

\* g_value = 99; sem_post(&g_ready)
producer_thread ==
    \/ /\ prod = "start"
       /\ g_value' = 99
       /\ prod' = "post"
       /\ UNCHANGED <<pc, sem, alive, seen, now, asked, ts, rc>>
    \/ /\ prod = "post"
       /\ sem' = sem + 1
       /\ prod' = "exited"
       /\ UNCHANGED <<pc, alive, g_value, seen, now, asked, ts, rc>>

create_producer ==
    /\ Goto("create3", "wait3")
    /\ prod' = "start"
    /\ UNCHANGED <<sem, alive, g_value, seen, now, asked, ts, rc>>

read_value ==
    /\ Goto("read3", "join3")
    /\ seen' = g_value
    /\ UNCHANGED <<sem, alive, g_value, prod, now, asked, ts, rc>>

join_producer ==
    /\ prod = "exited"
    /\ Goto("join3", "destroy3")
    /\ UNCHANGED <<sem, alive, g_value, seen, prod, now, asked, ts, rc>>

section3_signal ==
    \/ sem_init(0, "init3", "create3")
    \/ create_producer
    \/ sem_wait("wait3", "read3")
    \/ read_value
    \/ join_producer
    \/ sem_destroy("destroy3", "init5")

-----------------------------------------------------------------------------
\* Wrong: > instead of >= in the carry.
first_deadline_off_by_one ==
    /\ Goto("clock5", "timedwait5")
    /\ asked' = now
    /\ LET raw == (now % SECOND) + DELAY
       IN ts' = IF raw > SECOND
                THEN [sec |-> (now \div SECOND) + 1, tick |-> raw - SECOND]
                ELSE [sec |-> now \div SECOND, tick |-> raw]
    /\ UNCHANGED <<sem, alive, g_value, seen, prod, now, rc>>

\* clock_gettime, then the deadline DELAY later; a full second is carried.
first_deadline ==
    /\ Goto("clock5", "timedwait5")
    /\ asked' = now
    /\ LET raw == (now % SECOND) + DELAY
       IN ts' = IF raw >= SECOND
                THEN [sec |-> (now \div SECOND) + 1, tick |-> raw - SECOND]
                ELSE [sec |-> now \div SECOND, tick |-> raw]
    /\ UNCHANGED <<sem, alive, g_value, seen, prod, now, rc>>

second_deadline ==
    /\ Goto("clock5b", "timedwait5b")
    /\ asked' = now
    /\ ts' = [sec |-> (now \div SECOND) + 2, tick |-> now % SECOND]
    /\ UNCHANGED <<sem, alive, g_value, seen, prod, now, rc>>

\* At most LAG ticks pass before the wait; then a token is taken at once, an
\* invalid timespec is refused, or the caller sleeps until the deadline.
sem_timedwait(a, b) ==
    /\ Goto(a, b)
    /\ \E lag \in 0 .. LAG :
         IF sem > 0
         THEN /\ rc' = "ok" /\ sem' = sem - 1 /\ now' = now + lag
         ELSE IF ts.tick >= SECOND
         THEN /\ rc' = "EINVAL" /\ now' = now + lag /\ UNCHANGED sem
         ELSE /\ rc' = "ETIMEDOUT" /\ UNCHANGED sem
              /\ now' = IF Ticks(ts) > now + lag THEN Ticks(ts) ELSE now + lag
    /\ UNCHANGED <<alive, g_value, seen, prod, asked, ts>>

section5_timedwait ==
    \/ sem_init(0, "init5", "clock5")
    \/ first_deadline
    \/ sem_timedwait("timedwait5", "post5")
    \/ sem_post("post5", "clock5b")
    \/ second_deadline
    \/ sem_timedwait("timedwait5b", "destroy5")
    \/ sem_destroy("destroy5", "done")

main == section2_basics \/ section3_signal \/ section5_timedwait

Next == main \/ producer_thread \/ (pc = "done" /\ UNCHANGED vars)

Spec == Init /\ [][Next]_vars

-----------------------------------------------------------------------------

(***************************************************************************)
(* No operation reaches a semaphore that is not initialised or already     *)
(* destroyed: main's own, and the post the producer thread still owes.     *)
(***************************************************************************)
OnlyLiveSemaphores ==
    /\ (prod \in {"start", "post"}) => alive
    /\ pc \notin {"init2", "init3", "init5", "done"} => alive

\* The consumer that got through sem_wait reads what the producer prepared.
HandoffSeesValue == pc \in {"join3", "destroy3"} => seen = 99

(***************************************************************************)
(* The deadline is a valid timespec exactly DELAY after the clock was      *)
(* read, whatever the clock read, so sem_timedwait neither returns EINVAL  *)
(* nor times out early; with a token there it does not time out at all.    *)
(***************************************************************************)
DeadlineRespected ==
    /\ pc = "timedwait5" => ts.tick < SECOND /\ Ticks(ts) = asked + DELAY
    /\ pc = "post5" => rc = "ETIMEDOUT" /\ now >= asked + DELAY
    /\ pc = "destroy5" => rc = "ok"

==============================================================================
