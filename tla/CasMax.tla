------------------------------- MODULE CasMax --------------------------------
(***************************************************************************)
(* Exercise 29, section 3: the compare-and-exchange loop that raises an    *)
(* atomic maximum to each element of an array.  The exercise runs it in    *)
(* one thread; its comment argues about other threads changing maximum     *)
(* between the load and the exchange, so any number of threads run it      *)
(* here, each over an array of its own.                                    *)
(***************************************************************************)
EXTENDS Naturals, Sequences

CONSTANTS Threads,   \* threads running the loop
          values     \* values[t]: the array thread t goes through

\* The loop starts from 0, so the arrays hold no negative number.
ValuesAssumption == values \in [Threads -> Seq(Nat)]

VARIABLES maximum,   \* the atomic_int
          pc, i,     \* each thread's place and array index
          cur        \* each thread's expected value

vars == <<maximum, pc, i, cur>>

Init ==
    /\ maximum = 0
    /\ pc = [t \in Threads |-> "for"]
    /\ i = [t \in Threads |-> 1]
    /\ cur = [t \in Threads |-> 0]

\* for (..) { int cur = atomic_load(&maximum);
load(t) ==
    /\ pc[t] = "for"
    /\ i[t] <= Len(values[t])
    /\ cur' = [cur EXCEPT ![t] = maximum]
    /\ pc' = [pc EXCEPT ![t] = "while"]
    /\ UNCHANGED <<maximum, i>>

\* while (values[i] > cur) is false: next element.
no_larger(t) ==
    /\ pc[t] = "while"
    /\ ~(values[t][i[t]] > cur[t])
    /\ i' = [i EXCEPT ![t] = @ + 1]
    /\ pc' = [pc EXCEPT ![t] = "for"]
    /\ UNCHANGED <<maximum, cur>>

cas_success(t) ==
    /\ pc[t] = "while"
    /\ values[t][i[t]] > cur[t]
    /\ maximum = cur[t]
    /\ maximum' = values[t][i[t]]
    /\ i' = [i EXCEPT ![t] = @ + 1]
    /\ pc' = [pc EXCEPT ![t] = "for"]
    /\ UNCHANGED cur

\* Wrong: a failed exchange is taken to mean that the work is done.
cas_failure_gives_up(t) ==
    /\ pc[t] = "while"
    /\ values[t][i[t]] > cur[t]
    /\ cur' = [cur EXCEPT ![t] = maximum]
    /\ i' = [i EXCEPT ![t] = @ + 1]
    /\ pc' = [pc EXCEPT ![t] = "for"]
    /\ UNCHANGED maximum

\* Wrong: the failed exchange does not refresh cur.
cas_failure_no_refresh(t) ==
    /\ pc[t] = "while"
    /\ values[t][i[t]] > cur[t]
    /\ UNCHANGED vars

\* The weak exchange fails, because maximum changed or spuriously, and
\* refreshes cur; the loop tests again.
cas_failure(t) ==
    /\ pc[t] = "while"
    /\ values[t][i[t]] > cur[t]
    /\ cur' = [cur EXCEPT ![t] = maximum]
    /\ UNCHANGED <<maximum, pc, i>>

\* The array is exhausted.
finish(t) ==
    /\ pc[t] = "for"
    /\ i[t] > Len(values[t])
    /\ pc' = [pc EXCEPT ![t] = "done"]
    /\ UNCHANGED <<maximum, i, cur>>

AllDone == \A t \in Threads : pc[t] = "done"

thread(t) ==
    load(t) \/ no_larger(t) \/ cas_success(t) \/ cas_failure(t) \/ finish(t)

Next == (\E t \in Threads : thread(t)) \/ (AllDone /\ UNCHANGED vars)

Spec == Init /\ [][Next]_vars

\* A failure that changes nothing is a stutter, so weak fairness of a thread
\* already says that the exchange does not fail spuriously for ever.
FairSpec == Spec /\ \A t \in Threads : WF_vars(thread(t))

-----------------------------------------------------------------------------
\* Elements that thread t has been through.
Seen(t) == {values[t][k] : k \in 1 .. i[t] - 1}

\* Types, and each index within its array or one past it.
TypeOK ==
    /\ maximum \in Nat
    /\ pc \in [Threads -> {"for", "while", "done"}]
    /\ i \in [Threads -> Nat]
    /\ cur \in [Threads -> Nat]
    /\ \A t \in Threads :
         /\ i[t] \in 1 .. Len(values[t]) + 1
         /\ pc[t] = "while" => i[t] <= Len(values[t])

(***************************************************************************)
(* The loop computes a maximum under any interleaving of loads and         *)
(* exchanges: maximum is at least every element any thread is done with,   *)
(* and it is one of them (or still 0).                                     *)
(***************************************************************************)
IsMaximum ==
    /\ \A t \in Threads : \A v \in Seen(t) : v <= maximum
    /\ maximum = 0 \/ \E t \in Threads : maximum \in Seen(t)

\* A thread's expected value is never ahead of the shared maximum, so a stale
\* cur can only make it retry, never skip an element.
StaleCurIsSafe == \A t \in Threads : cur[t] <= maximum

\* No thread ever lowers the maximum another thread has published.
MaximumNeverDecreases == [][maximum' >= maximum]_maximum

==============================================================================
