--------------------------- MODULE SemaphoresProofs ---------------------------
(***************************************************************************)
(* Proofs about exercise 30: the pool for every pool size and number of    *)
(* workers, the named semaphore (Named) for any number of runs and kills,  *)
(* and the other sections (Basic) for any clock.                           *)
(***************************************************************************)
EXTENDS MCSemaphores, FiniteSetTheorems, TLAPS

\* Workers that joins have already waited for.
Joined == IF main = "join" THEN 1 .. i - 1
          ELSE IF main \in {"destroy", "return"} THEN Workers ELSE {}

\* A worker owns its id from its creation until it frees it, and a joined
\* worker has exited.
LifeInv ==
    /\ \A w \in Workers : w \in ids <=> pc[w] = "start"
    /\ \A w \in Joined : pc[w] = "exited"
    /\ destroyed => main = "return"

PoolInv == TypeOK /\ SlotsAccounted /\ LifeInv

\* Any set of workers is finite.
LEMMA UsersFinite == IsFiniteSet(Users) /\ Cardinality(Users) \in Nat
<1>1. IsFiniteSet(Workers)
  BY WorkersAssumption, FS_Interval DEF Workers
<1>2. IsFiniteSet(Users)
  BY <1>1, FS_Subset DEF Users
<1> QED
  BY <1>2, FS_CardinalityType

(***************************************************************************)
(* The invariant of the pool holds before the workers are created.         *)
(***************************************************************************)
LEMMA PoolInit == Init => PoolInv
<1> SUFFICES ASSUME Init PROVE PoolInv
  OBVIOUS
<1>1. Users = {}
  BY DEF Init, Users
<1>2. Cardinality(Users) = 0
  BY <1>1, FS_EmptySet
<1>a. g_pool \in 0 .. POOL_SIZE /\ i \in Workers /\ i \in 1 .. NUM_WORKERS + 1
  BY PoolAssumption, WorkersAssumption DEF Init, Workers
<1>3. TypeOK
  BY <1>a DEF Init, TypeOK
<1>4. Joined = {}
  BY DEF Init, Joined
<1>5. LifeInv
  BY <1>4 DEF Init, LifeInv
<1> QED
  <2>1. g_pool = POOL_SIZE
    BY DEF Init
  <2>2. SlotsAccounted
    BY <1>2, <2>1, PoolAssumption DEF SlotsAccounted
  <2> QED
    BY <1>3, <1>5, <2>2 DEF PoolInv

\* Types and lifetimes are preserved by every step.
LEMMA LifeStep == TypeOK /\ SlotsAccounted /\ LifeInv /\ [Next]_vars => LifeInv'
<1> SUFFICES ASSUME TypeOK, SlotsAccounted, LifeInv, [Next]_vars PROVE LifeInv'
  OBVIOUS
<1> USE WorkersAssumption DEF TypeOK, LifeInv, Joined, Workers, Goto
<1>1. CASE create_worker
  BY <1>1 DEF create_worker
<1>2. CASE create_fails
  BY <1>2 DEF create_fails
<1>3. CASE join_worker
  BY <1>3 DEF join_worker
<1>4. CASE destroy_pool
  BY <1>4 DEF destroy_pool
<1>5. ASSUME NEW w \in Workers, take_id(w) PROVE LifeInv'
  BY <1>5 DEF take_id
<1>6. ASSUME NEW w \in Workers, sem_wait_pool(w) PROVE LifeInv'
  BY <1>6 DEF sem_wait_pool
<1>7. ASSUME NEW w \in Workers, sem_post_pool(w) PROVE LifeInv'
  BY <1>7 DEF sem_post_pool
<1>8. CASE UNCHANGED vars
  BY <1>8 DEF vars
<1> QED
  BY <1>1, <1>2, <1>3, <1>4, <1>5, <1>6, <1>7, <1>8
  DEF Next, section4_counting, worker

\* A wait moves one slot from the semaphore to a user, a post moves it back.
LEMMA SlotsStep ==
    TypeOK /\ SlotsAccounted /\ [Next]_vars => TypeOK' /\ SlotsAccounted'
<1> SUFFICES ASSUME TypeOK, SlotsAccounted, [Next]_vars
             PROVE  TypeOK' /\ SlotsAccounted'
  OBVIOUS
<1>0. /\ IsFiniteSet(Users) /\ Cardinality(Users) \in Nat
      /\ g_pool + Cardinality(Users) = POOL_SIZE
  BY UsersFinite DEF SlotsAccounted
<1>a. ASSUME Users' = Users, g_pool' = g_pool PROVE SlotsAccounted'
  BY <1>a DEF SlotsAccounted
<1>1. CASE create_worker
  <2>1. TypeOK' /\ Users' = Users /\ g_pool' = g_pool
    BY <1>1, WorkersAssumption DEF create_worker, TypeOK, Workers, Goto, Users
  <2> QED
    BY <2>1, <1>a
<1>2. CASE create_fails \/ join_worker \/ destroy_pool \/ UNCHANGED vars
  <2>1. Users' = Users /\ g_pool' = g_pool
    BY <1>2 DEF create_fails, join_worker, destroy_pool, vars, Users
  <2>2. CASE create_fails \/ destroy_pool \/ UNCHANGED vars
    BY <1>a, <2>1, <2>2 DEF create_fails, destroy_pool, vars, TypeOK
  <2>3. CASE join_worker
    <3>1. i \in Workers /\ i \in Nat /\ i' = i + 1
      BY <2>3, WorkersAssumption DEF join_worker, TypeOK, Workers
    <3>2. i' \in 1 .. NUM_WORKERS + 1
      BY <3>1, WorkersAssumption DEF Workers
    <3>3. main' = "join" => i' \in Workers
      BY <2>3, <3>1, WorkersAssumption DEF join_worker, Workers
    <3> QED
      BY <1>a, <2>1, <2>3, <3>2, <3>3 DEF join_worker, TypeOK
  <2> QED
    BY <1>2, <2>2, <2>3
<1>3. ASSUME NEW w \in Workers, take_id(w) PROVE TypeOK' /\ SlotsAccounted'
  <2>1. TypeOK' /\ Users' = Users /\ g_pool' = g_pool
    BY <1>3 DEF take_id, TypeOK, Goto, Users
  <2> QED
    BY <2>1, <1>a
<1>4. ASSUME NEW w \in Workers, sem_wait_pool(w) PROVE TypeOK' /\ SlotsAccounted'
  <2>1. /\ Users' = Users \cup {w} /\ w \notin Users
        /\ g_pool' = g_pool - 1 /\ g_pool \in 1 .. POOL_SIZE
    BY <1>4, PoolAssumption DEF sem_wait_pool, TypeOK, Goto, Users
  <2>2. Cardinality(Users \cup {w}) = Cardinality(Users) + 1
    BY <1>0, <2>1, FS_AddElement
  <2>3. TypeOK'
    BY <1>4, <2>1, PoolAssumption DEF sem_wait_pool, TypeOK, Goto
  <2>4. SlotsAccounted'
    BY <1>0, <2>1, <2>2, PoolAssumption DEF SlotsAccounted
  <2> QED
    BY <2>3, <2>4
<1>5. ASSUME NEW w \in Workers, sem_post_pool(w) PROVE TypeOK' /\ SlotsAccounted'
  <2>1. Users' = Users \ {w} /\ w \in Users /\ g_pool' = g_pool + 1
    BY <1>5 DEF sem_post_pool, TypeOK, Goto, Users
  <2>2. Cardinality(Users \ {w}) = Cardinality(Users) - 1
    BY <1>0, <2>1, FS_RemoveElement
  <2>3. Cardinality(Users \ {w}) \in Nat
    BY <1>0, FS_RemoveElement, FS_CardinalityType
  <2>4. g_pool \in Nat /\ g_pool' \in 0 .. POOL_SIZE
    BY <1>0, <2>1, <2>2, <2>3, PoolAssumption DEF TypeOK
  <2>5. TypeOK'
    BY <1>5, <2>4 DEF sem_post_pool, TypeOK, Goto
  <2>6. SlotsAccounted'
    BY <1>0, <2>1, <2>2, <2>4, PoolAssumption DEF SlotsAccounted
  <2> QED
    BY <2>5, <2>6
<1> QED
  BY <1>1, <1>2, <1>3, <1>4, <1>5 DEF Next, section4_counting, worker

\* The inductive invariant of the pool.
THEOREM PoolCorrect == Spec => []PoolInv
<1>1. PoolInv /\ [Next]_vars => PoolInv'
  BY LifeStep, SlotsStep DEF PoolInv
<1> QED
  BY PoolInit, <1>1, PTL DEF Spec

\* At most POOL_SIZE workers use a slot at the same time, for every pool size
\* and any number of workers.
THEOREM SlotsCorrect == Spec => []SlotsAccounted
  BY PoolCorrect, PTL DEF PoolInv

\* The semaphore is destroyed only when no worker will touch it again.
THEOREM DestroyCorrect == Spec => []DestroyedAfterLastUse
<1>1. PoolInv => DestroyedAfterLastUse
  BY DEF PoolInv, LifeInv, Joined, TypeOK, DestroyedAfterLastUse
<1> QED
  BY <1>1, PoolCorrect, PTL

-----------------------------------------------------------------------------
\* Where a parent and a child of the named section can be.
ParentPoints == {"idle", "open", "fork", "wait", "unlink", "waitpid"} \cup Named!Ended
ChildPoints == {"none", "open", "post", "exited", "killed"}

\* Types of the named semaphore's state.
NamTypeOK ==
    /\ nam_name \in 0 .. Runs + 1
    /\ nam_value \in [Named!Objects -> Nat]
    /\ nam_parent \in [Named!Executions -> ParentPoints]
    /\ nam_child \in [Named!Executions -> ChildPoints]
    /\ nam_cs \in [Named!Executions -> 0 .. Runs + 1]
    /\ nam_posted \in [Named!Executions -> SUBSET Named!Objects]
    /\ nam_crashes \in Nat

\* One program runs at a time, and the name is its own from sem_open to
\* sem_unlink.
NamTurns ==
    \A r \in Named!Executions :
      /\ nam_parent[r] # "idle" => \A q \in Named!Executions : q < r => nam_parent[q] \in Named!Ended
      /\ nam_parent[r] = "open" => nam_name = Named!NoObject
      /\ nam_parent[r] \in {"fork", "wait", "unlink"} => nam_name = r
      /\ nam_parent[r] \in {"idle", "waitpid", "done"} => nam_name # r
      /\ nam_parent[r] # "failed"
      /\ nam_parent[r] \in {"idle", "open", "fork"} => nam_child[r] = "none"

\* While nobody has been killed a child opens and posts its own parent's
\* semaphore, and nothing else is ever posted.
NamPosts ==
    nam_crashes = 0 =>
      \A r \in Named!Executions :
        /\ nam_parent[r] # "crashed"
        /\ nam_child[r] = "open" => nam_parent[r] = "wait"
        /\ nam_child[r] = "post" => nam_cs[r] = r
        /\ \A o \in nam_posted[r] : o = r
        /\ nam_value[r] > 0 => r \in nam_posted[r]
        /\ r \in nam_posted[r] => nam_child[r] \in {"exited", "killed"}
        /\ nam_parent[r] \in {"unlink", "waitpid", "done"} => r \in nam_posted[r]

(***************************************************************************)
(* The inductive invariant of the named semaphore: whose the name is, and  *)
(* which posts there can be while no parent has been killed.               *)
(***************************************************************************)
NamInv == NamTypeOK /\ NamTurns /\ NamPosts

\* It holds before the first run, with or without a name left by an older program.
LEMMA NamInit == ASSUME Named!RunsAssumption, Named!Init PROVE NamInv
<1> USE DEF Named!RunsAssumption, Named!Init, Named!Executions, Named!Objects, Named!NoObject, Named!OldObject, Named!Leftovers
<1>1. NamTypeOK
  BY DEF NamTypeOK, ParentPoints, ChildPoints
<1>2. NamTurns
  BY DEF NamTurns
<1>3. NamPosts
  BY DEF NamPosts
<1> QED
  BY <1>1, <1>2, <1>3 DEF NamInv

(***************************************************************************)
(* Every step of section6_named's parent and child keeps it, the kill of a *)
(* parent at any point and the posts of an orphaned child included.        *)
(***************************************************************************)
LEMMA NamStep == ASSUME Named!RunsAssumption, NamInv, [Named!Next]_Named!vars PROVE NamInv'
<1> USE DEF Named!RunsAssumption, NamInv, Named!Executions, Named!Objects, Named!NoObject, Named!Ended
<1>1. CASE UNCHANGED Named!vars
  BY <1>1 DEF Named!vars, NamTypeOK, NamTurns, NamPosts
<1>2. ASSUME NEW r \in Named!Executions, Named!section6_named(r) \/ Named!child_process(r) \/ Named!crash(r)
      PROVE  NamInv'
  <2> USE DEF Named!ParentGoto, Named!ChildGoto
  <2>1. CASE Named!unlink_leftover(r)
    <3> USE <2>1 DEF Named!unlink_leftover
    <3>1. NamTypeOK'
      BY DEF NamTypeOK, ParentPoints
    <3>2. NamTurns'
      <4>1. \A q \in Named!Executions : q < r => nam_parent[q] \in Named!Ended
        OBVIOUS
      <4>2. \A q \in Named!Executions : q > r => nam_parent[q] = "idle"
        BY DEF NamTurns
      <4>3. \A q \in Named!Executions : q # r => nam_parent'[q] = nam_parent[q] /\ (q < r \/ q > r)
        BY DEF NamTypeOK
      <4> QED
        BY <4>1, <4>2, <4>3 DEF NamTypeOK, NamTurns
    <3>3. NamPosts'
      BY DEF NamTypeOK, NamTurns, NamPosts
    <3> QED
      BY <3>1, <3>2, <3>3
  <2>2. CASE Named!create_semaphore(r)
    <3> USE <2>2 DEF Named!create_semaphore
    <3>1. NamTypeOK'
      BY DEF NamTypeOK, ParentPoints
    <3>2. NamTurns'
      BY DEF NamTypeOK, NamTurns
    <3>3. NamPosts'
      BY DEF NamTypeOK, NamTurns, NamPosts
    <3> QED
      BY <3>1, <3>2, <3>3
  <2>3. CASE Named!fork_child(r)
    <3> USE <2>3 DEF Named!fork_child
    <3>1. NamTypeOK'
      BY DEF NamTypeOK, ParentPoints, ChildPoints
    <3>2. NamTurns'
      BY DEF NamTypeOK, NamTurns
    <3>3. NamPosts'
      BY DEF NamTypeOK, NamTurns, NamPosts
    <3> QED
      BY <3>1, <3>2, <3>3
  <2>4. CASE Named!parent_sem_wait(r)
    <3> USE <2>4 DEF Named!parent_sem_wait
    <3>1. NamTypeOK'
      BY DEF NamTypeOK, ParentPoints
    <3>2. NamTurns'
      BY DEF NamTypeOK, NamTurns
    <3>3. NamPosts'
      <4> SUFFICES ASSUME nam_crashes = 0 PROVE NamPosts'
        BY DEF NamPosts
      <4>1. r \in nam_posted[r] /\ nam_child[r] # "open"
        BY DEF NamPosts
      <4>2. \A q \in Named!Executions : q # r => nam_value'[q] = nam_value[q] /\ nam_parent'[q] = nam_parent[q]
        BY DEF NamTypeOK
      <4>3. /\ nam_parent'[r] = "unlink" /\ nam_posted' = nam_posted
            /\ nam_child' = nam_child /\ nam_cs' = nam_cs
        BY DEF NamTypeOK
      <4> QED
        BY <4>1, <4>2, <4>3 DEF NamPosts
    <3> QED
      BY <3>1, <3>2, <3>3
  <2>5. CASE Named!parent_close_unlink(r)
    <3> USE <2>5 DEF Named!parent_close_unlink
    <3>1. NamTypeOK'
      BY DEF NamTypeOK, ParentPoints
    <3>2. NamTurns'
      BY DEF NamTypeOK, NamTurns
    <3>3. NamPosts'
      BY DEF NamTypeOK, NamTurns, NamPosts
    <3> QED
      BY <3>1, <3>2, <3>3
  <2>6. CASE Named!parent_waitpid(r)
    <3> USE <2>6 DEF Named!parent_waitpid
    <3>1. NamTypeOK'
      BY DEF NamTypeOK, ParentPoints
    <3>2. NamTurns'
      BY DEF NamTypeOK, NamTurns
    <3>3. NamPosts'
      BY DEF NamTypeOK, NamTurns, NamPosts
    <3> QED
      BY <3>1, <3>2, <3>3
  <2>7. CASE Named!child_open(r)
    <3> USE <2>7 DEF Named!child_open
    <3>1. NamTypeOK'
      BY DEF NamTypeOK, ChildPoints
    <3>2. NamTurns'
      BY DEF NamTypeOK, NamTurns
    <3>3. NamPosts'
      BY DEF NamTypeOK, NamTurns, NamPosts
    <3> QED
      BY <3>1, <3>2, <3>3
  <2>8. CASE Named!child_post(r)
    <3> USE <2>8 DEF Named!child_post
    <3>1. NamTypeOK'
      <4>1. CASE nam_cs[r] = Named!NoObject
        BY <4>1 DEF NamTypeOK, ChildPoints
      <4>2. CASE nam_cs[r] # Named!NoObject
        <5>1. nam_cs[r] \in Named!Objects
          BY <4>2 DEF NamTypeOK
        <5>2. /\ nam_value' \in [Named!Objects -> Nat]
              /\ nam_posted' \in [Named!Executions -> SUBSET Named!Objects]
          <6> HIDE DEF Named!Objects
          <6>1. /\ nam_value' = [nam_value EXCEPT ![nam_cs[r]] = @ + 1]
                /\ nam_posted' = [nam_posted EXCEPT ![r] = @ \cup {nam_cs[r]}]
            BY <4>2
          <6>2. nam_value[nam_cs[r]] + 1 \in Nat
            BY <5>1 DEF NamTypeOK
          <6>3. nam_posted[r] \cup {nam_cs[r]} \in SUBSET Named!Objects
            BY <5>1 DEF NamTypeOK
          <6> QED
            BY <6>1, <6>2, <6>3 DEF NamTypeOK
        <5>3. nam_child' \in [Named!Executions -> ChildPoints]
          BY DEF NamTypeOK, ChildPoints
        <5> QED
          BY <5>2, <5>3 DEF NamTypeOK
      <4> QED
        BY <4>1, <4>2
    <3>2. NamTurns'
      BY DEF NamTypeOK, NamTurns
    <3>3. NamPosts'
      <4> SUFFICES ASSUME nam_crashes = 0 PROVE NamPosts'
        BY DEF NamPosts
      <4>1. nam_cs[r] = r /\ r # 0
        BY DEF NamPosts
      <4>2. /\ nam_value' = [nam_value EXCEPT ![r] = @ + 1]
            /\ nam_posted' = [nam_posted EXCEPT ![r] = @ \cup {r}]
            /\ nam_child' = [nam_child EXCEPT ![r] = "exited"]
        BY <4>1
      <4>3. \A q \in Named!Executions : q # r =>
              nam_value'[q] = nam_value[q] /\ nam_posted'[q] = nam_posted[q] /\ nam_child'[q] = nam_child[q]
        BY <4>2 DEF NamTypeOK
      <4>4. r \in nam_posted'[r] /\ nam_child'[r] = "exited" /\ \A o \in nam_posted'[r] : o = r
        BY <4>2 DEF NamTypeOK, NamPosts
      <4> QED
        BY <4>3, <4>4 DEF NamPosts
    <3> QED
      BY <3>1, <3>2, <3>3
  <2>9. CASE Named!crash(r)
    <3> USE <2>9 DEF Named!crash
    <3>1. NamTypeOK'
      BY DEF NamTypeOK, ParentPoints
    <3>2. NamTurns'
      BY DEF NamTypeOK, NamTurns
    <3>3. NamPosts'
      BY DEF NamTypeOK, NamPosts
    <3> QED
      BY <3>1, <3>2, <3>3
  <2> QED
    BY <1>2, <2>1, <2>2, <2>3, <2>4, <2>5, <2>6, <2>7, <2>8, <2>9
    DEF Named!section6_named, Named!child_process
<1> QED
  BY <1>1, <1>2 DEF Named!Next

(***************************************************************************)
(* For any number of runs, kills and failed forks: sem_open never meets a  *)
(* name that is in its way, a run that ends has removed its name, and as   *)
(* long as nobody was killed each parent is woken by its own child.        *)
(***************************************************************************)
THEOREM NamesComeAndGo == Named!Spec => []NameLifecycle
<1>1. Named!Init => NamInv
  BY NamedConstants, NamInit
<1>2. NamInv /\ [Named!Next]_Named!vars => NamInv'
  BY NamedConstants, NamStep
<1>3. NamInv => NameLifecycle
  BY DEF NamInv, NamTurns, NamPosts, NameLifecycle, Named!OpenNeverFails,
     Named!NameRemoved, Named!WokenByOwnChild
<1> QED
  BY <1>1, <1>2, <1>3, PTL DEF Named!Spec

-----------------------------------------------------------------------------
\* The points of main in sections 2 and 5.
Section2 == {"wait1", "wait2", "post1", "post2", "post3", "try1", "drain",
             "try_empty", "destroy2"}
Section5 == {"clock5", "timedwait5", "post5", "clock5b", "timedwait5b", "destroy5"}

\* Types of the state of sections 2, 3 and 5.
BasTypeOK ==
    /\ bas_pc \in {"init2", "init3", "create3", "wait3", "read3", "join3",
                   "destroy3", "init5", "done"} \cup Section2 \cup Section5
    /\ bas_sem \in Nat
    /\ bas_prod \in {"unborn", "start", "post", "exited"}
    /\ bas_now \in Nat
    /\ bas_asked \in Nat
    /\ bas_ts \in [sec : Nat, tick : Nat]

\* Which points have a live semaphore and which a producer thread.
BasPlaces ==
    /\ (bas_alive <=> bas_pc \notin {"init2", "init3", "init5", "done"})
    /\ bas_pc \in Section2 \cup {"init2", "init3", "create3"} => bas_prod = "unborn"
    /\ bas_pc \in Section5 \cup {"read3", "join3", "destroy3", "init5", "done"} => bas_prod = "exited"
    /\ bas_pc = "wait3" => bas_prod \in {"start", "post", "exited"}

\* The handoff: the post comes after the store, and is there once the producer has exited.
BasHandoff ==
    /\ bas_pc \in {"create3", "wait3"} => bas_sem = IF bas_prod = "exited" THEN 1 ELSE 0
    /\ bas_prod \in {"post", "exited"} => bas_g_value = 99

\* The first sem_timedwait meets an empty semaphore, the second a posted one.
BasTimed ==
    /\ bas_pc \in {"clock5", "timedwait5", "post5"} => bas_sem = 0
    /\ bas_pc \in {"clock5b", "timedwait5b"} => bas_sem = 1

\* The inductive invariant of sections 2, 3 and 5.
BasInv == BasTypeOK /\ BasPlaces /\ BasHandoff /\ BasTimed
          /\ Basic!DeadlineRespected /\ Basic!HandoffSeesValue

\* Splitting a time into seconds and ticks loses nothing.
LEMMA Divides ==
    ASSUME Basic!ClockAssumption, NEW t \in Nat
    PROVE  /\ t \div SECOND \in Nat /\ t % SECOND \in Nat /\ t % SECOND < SECOND
           /\ t = ((t \div SECOND) * SECOND) + (t % SECOND)
BY DEF Basic!ClockAssumption

\* Carrying one second adds SECOND ticks (for the code's tv_nsec overflow test).
LEMMA Carried ==
    ASSUME Basic!ClockAssumption, NEW q \in Nat
    PROVE  (q + 1) * SECOND = (q * SECOND) + SECOND
BY DEF Basic!ClockAssumption

\* It holds when main enters section2_basics.
LEMMA BasInit == ASSUME Basic!ClockAssumption, Basic!Init PROVE BasInv
<1>1. bas_now \in Nat
  BY DEF Basic!Init, Basic!ClockAssumption
<1>2. BasPlaces
  <2>1. bas_alive = FALSE /\ bas_pc = "init2"
    BY DEF Basic!Init
  <2>2. (bas_alive <=> bas_pc \notin {"init2", "init3", "init5", "done"})
    BY <2>1
  <2> QED
    BY <2>2 DEF Basic!Init, BasPlaces, Section2, Section5
<1> QED
  BY <1>1, <1>2
  DEF Basic!Init, BasInv, BasTypeOK, BasHandoff, BasTimed, Section2, Section5,
      Basic!DeadlineRespected, Basic!HandoffSeesValue

(***************************************************************************)
(* Every step of section2_basics, section3_signal, its producer and        *)
(* section5_timedwait keeps it; the case that matters is the deadline of   *)
(* section 5, whose tv_nsec may carry into tv_sec.                         *)
(***************************************************************************)
LEMMA BasStep == ASSUME Basic!ClockAssumption, BasInv, [Basic!Next]_Basic!vars PROVE BasInv'
<1> USE DEF BasInv, Section2, Section5
<1>1. CASE UNCHANGED Basic!vars
  BY <1>1 DEF Basic!vars, BasTypeOK, BasPlaces, BasHandoff, BasTimed,
              Basic!DeadlineRespected, Basic!HandoffSeesValue, Basic!Ticks
<1>2. CASE Basic!section2_basics
  <2> USE <1>2 DEF Basic!section2_basics, Basic!sem_init, Basic!sem_wait, Basic!sem_post, Basic!sem_trywait, Basic!sem_destroy, Basic!Goto
  <2>1. BasTypeOK'
    BY DEF BasTypeOK
  <2>2. BasPlaces'
    BY DEF BasPlaces
  <2>3. BasHandoff' /\ BasTimed'
    BY DEF BasTypeOK, BasPlaces, BasHandoff, BasTimed
  <2>4. Basic!DeadlineRespected' /\ Basic!HandoffSeesValue'
    BY DEF Basic!DeadlineRespected, Basic!HandoffSeesValue
  <2> QED
    BY <2>1, <2>2, <2>3, <2>4
<1>3. CASE Basic!section3_signal
  <2> USE <1>3 DEF Basic!section3_signal, Basic!sem_init, Basic!sem_wait, Basic!sem_destroy, Basic!create_producer,
                   Basic!read_value, Basic!join_producer, Basic!Goto
  <2>1. BasTypeOK'
    BY DEF BasTypeOK
  <2>2. BasPlaces'
    BY DEF BasTypeOK, BasPlaces, BasHandoff
  <2>3. BasHandoff' /\ BasTimed'
    BY DEF BasTypeOK, BasPlaces, BasHandoff, BasTimed
  <2>4. Basic!DeadlineRespected' /\ Basic!HandoffSeesValue'
    BY DEF BasPlaces, BasHandoff, Basic!DeadlineRespected, Basic!HandoffSeesValue
  <2> QED
    BY <2>1, <2>2, <2>3, <2>4
<1>4. CASE Basic!section5_timedwait
  <2> USE DEF Basic!Goto
  <2>1. CASE Basic!sem_init(0, "init5", "clock5") \/ Basic!sem_post("post5", "clock5b")
             \/ Basic!sem_destroy("destroy5", "done")
    BY <2>1 DEF Basic!sem_init, Basic!sem_post, Basic!sem_destroy, BasTypeOK,
                BasPlaces, BasHandoff, BasTimed,
                Basic!DeadlineRespected, Basic!HandoffSeesValue
  <2>2. CASE Basic!first_deadline
    <3> USE <2>2 DEF Basic!first_deadline
    <3>1. BasPlaces' /\ BasHandoff' /\ BasTimed' /\ Basic!HandoffSeesValue'
      BY DEF BasPlaces, BasHandoff, BasTimed, Basic!HandoffSeesValue
    <3>2. /\ bas_now \div SECOND \in Nat /\ bas_now % SECOND \in 0 .. SECOND - 1
          /\ bas_now = ((bas_now \div SECOND) * SECOND) + (bas_now % SECOND)
          /\ ((bas_now \div SECOND) + 1) * SECOND = ((bas_now \div SECOND) * SECOND) + SECOND
          /\ (bas_now \div SECOND) * SECOND \in Nat
          /\ SECOND \in Nat /\ DELAY \in Nat /\ DELAY <= SECOND
      BY Divides, Carried DEF BasTypeOK, Basic!ClockAssumption
    <3>3. PICK q \in Nat, m \in 0 .. SECOND - 1, p \in Nat :
            /\ q = bas_now \div SECOND /\ m = bas_now % SECOND /\ p = q * SECOND
      BY <3>2
    <3>4. bas_asked' = p + m /\ (q + 1) * SECOND = p + SECOND
      BY <3>2, <3>3
    <3>5. bas_ts' = IF m + DELAY >= SECOND THEN [sec |-> q + 1, tick |-> (m + DELAY) - SECOND]
                                           ELSE [sec |-> q, tick |-> m + DELAY]
      BY <3>3
    <3>6. /\ bas_ts' \in [sec : Nat, tick : 0 .. SECOND - 1]
          /\ Basic!Ticks(bas_ts)' = bas_asked' + DELAY
      <4>1. CASE m + DELAY >= SECOND
        <5>1. Basic!Ticks(bas_ts)' = ((q + 1) * SECOND) + ((m + DELAY) - SECOND)
          BY <3>5, <4>1 DEF Basic!Ticks
        <5> QED
          BY <3>2, <3>4, <3>5, <4>1, <5>1
      <4>2. CASE ~(m + DELAY >= SECOND)
        <5>1. Basic!Ticks(bas_ts)' = (q * SECOND) + (m + DELAY)
          BY <3>5, <4>2 DEF Basic!Ticks
        <5> QED
          BY <3>2, <3>3, <3>4, <3>5, <4>2, <5>1
      <4> QED
        BY <4>1, <4>2
    <3>7. BasTypeOK' /\ Basic!DeadlineRespected'
      BY <3>2, <3>6 DEF BasTypeOK, Basic!DeadlineRespected
    <3> QED
      BY <3>1, <3>7
  <2>3. CASE Basic!sem_timedwait("timedwait5", "post5")
    <3>1. /\ bas_sem = 0 /\ bas_ts.tick < SECOND /\ Basic!Ticks(bas_ts) = bas_asked + DELAY /\ bas_ts.tick \in Nat
          /\ bas_pc = "timedwait5" /\ bas_pc' = "post5" /\ SECOND \in Nat
          /\ bas_asked \in Nat /\ DELAY \in Nat /\ bas_now \in Nat /\ LAG \in Nat
          /\ UNCHANGED <<bas_alive, bas_g_value, bas_seen, bas_prod, bas_asked,
                         bas_ts>>
      BY <2>3 DEF Basic!sem_timedwait, BasTypeOK, BasTimed,
                  Basic!DeadlineRespected, Basic!ClockAssumption
    <3>2. PICK lag \in 0 .. LAG :
            /\ bas_rc' = "ETIMEDOUT" /\ bas_sem' = 0
            /\ bas_now' = IF bas_asked + DELAY > bas_now + lag THEN bas_asked + DELAY ELSE bas_now + lag
      <4>1. ~(bas_sem > 0) /\ ~(bas_ts.tick >= SECOND)
        BY <3>1
      <4> QED
        BY <2>3, <3>1, <4>1 DEF Basic!sem_timedwait
    <3>3. BasTypeOK' /\ Basic!DeadlineRespected'
      BY <3>1, <3>2 DEF BasTypeOK, Basic!DeadlineRespected
    <3>4. BasPlaces' /\ BasHandoff' /\ BasTimed' /\ Basic!HandoffSeesValue'
      BY <3>1, <3>2 DEF BasPlaces, BasHandoff, BasTimed, Basic!HandoffSeesValue
    <3> QED
      BY <3>3, <3>4
  <2>4. CASE Basic!second_deadline
    <3>1. bas_ts' \in [sec : Nat, tick : Nat]
      BY <2>4, Divides DEF Basic!second_deadline, BasTypeOK
    <3> QED
      BY <2>4, <3>1 DEF Basic!second_deadline, BasTypeOK, BasPlaces, BasHandoff,
                        BasTimed,
                Basic!DeadlineRespected, Basic!HandoffSeesValue
  <2>5. CASE Basic!sem_timedwait("timedwait5b", "destroy5")
    BY <2>5 DEF Basic!sem_timedwait, Basic!ClockAssumption, BasTypeOK, BasPlaces,
                BasHandoff, BasTimed,
                Basic!DeadlineRespected, Basic!HandoffSeesValue
  <2> QED
    BY <1>4, <2>1, <2>2, <2>3, <2>4, <2>5 DEF Basic!section5_timedwait
<1>5. CASE Basic!producer_thread
  <2> USE <1>5 DEF Basic!producer_thread
  <2>1. bas_pc = "wait3" /\ bas_pc' = bas_pc
    BY DEF BasTypeOK, BasPlaces
  <2>2. BasTypeOK'
    BY DEF BasTypeOK
  <2>3. BasPlaces'
    BY <2>1 DEF BasPlaces
  <2>4. BasHandoff' /\ BasTimed'
    BY <2>1 DEF BasTypeOK, BasHandoff, BasTimed
  <2>5. Basic!DeadlineRespected' /\ Basic!HandoffSeesValue'
    BY <2>1 DEF Basic!DeadlineRespected, Basic!HandoffSeesValue
  <2> QED
    BY <2>2, <2>3, <2>4, <2>5
<1> QED
  BY <1>1, <1>2, <1>3, <1>4, <1>5 DEF Basic!Next, Basic!main

(***************************************************************************)
(* For any clock reading and any resolution of the clock, sem_timedwait    *)
(* gets a valid timespec and returns neither before its deadline nor with  *)
(* the wrong result; the consumer of section 3 reads what was produced;    *)
(* and no call reaches a semaphore that is not alive.                      *)
(***************************************************************************)
THEOREM SemaphoresUsedRight == Basic!Spec => []TimedAndHandedOver
<1>1. Basic!Init => BasInv
  BY ClockConstants, BasInit
<1>2. BasInv /\ [Basic!Next]_Basic!vars => BasInv'
  BY ClockConstants, BasStep
<1>3. BasInv => TimedAndHandedOver
  BY DEF BasInv, BasTypeOK, BasPlaces, Section2, Section5, TimedAndHandedOver,
     Basic!OnlyLiveSemaphores
<1> QED
  BY <1>1, <1>2, <1>3, PTL DEF Basic!Spec
===============================================================================
