------------------------------ MODULE MCAtomics ------------------------------
(***************************************************************************)
(* The instance of exercise 29 that TLC checks: the compare-exchange       *)
(* maximum and the lock-free stack, one of which runs. (The counters of    *)
(* the exercise are in MCThreads.)                                         *)
(***************************************************************************)
EXTENDS LFStack, TLC

CONSTANTS values, t1, t2, t3

Arrays == t1 :> <<7, 3, 9>> @@ t2 :> <<8, 9, 2>> @@ t3 :> <<1, 5, 8>>

\* t1 runs section6; t2 and t3 share a stack.
Blocks == t1 :> <<11, 12, 13, 14, 15>> @@ t2 :> <<21, 22>> @@ t3 :> <<31, 32>>

VARIABLES demo, max_maximum, max_pc, max_i, max_cur

Max == INSTANCE CasMax WITH
    maximum <- max_maximum, pc <- max_pc, i <- max_i, cur <- max_cur

ASSUME StackNodes == NodesAssumption
ASSUME MaximumArrays == Max!ValuesAssumption

maxVars == <<max_maximum, max_pc, max_i, max_cur>>
mcVars == <<demo, vars, maxVars>>

MCInit ==
    /\ demo \in {"maximum", "stack"}
    /\ team \in IF demo = "stack" THEN Teams ELSE {CHOOSE alone \in Teams : TRUE}
    /\ Init /\ Max!Init

MCNext ==
    \/ demo = "maximum" /\ Max!Next /\ UNCHANGED <<demo, vars>>
    \/ demo = "stack" /\ Next /\ UNCHANGED <<demo, maxVars>>

(***************************************************************************)
(* Threads are scheduled, and the weak exchange does not fail for ever     *)
(* while nobody changes what it compares.                                  *)
(***************************************************************************)
MCFairness ==
    /\ \A t \in Threads :
         /\ WF_maxVars(demo = "maximum" /\ Max!thread(t))
         /\ WF_vars(demo = "stack" /\ thread(t))
         /\ <>[][lf_push_retry(t) => head # old_head[t]]_vars
         /\ <>[][lf_pop_retry(t) => head # old_head[t]]_vars

MCSpec == MCInit /\ [][MCNext]_mcVars /\ MCFairness

-----------------------------------------------------------------------------
\* The compare-exchange loop computes a maximum, whoever interferes.
IsMaximum == Max!IsMaximum

\* Every thread gets through: a genuine failure of an exchange means that
\* another thread's succeeded, and there are finitely many of those.
Terminates ==
    <>(\/ demo = "maximum" /\ Max!AllDone
       \/ demo = "stack" /\ AllDone)
=============================================================================
