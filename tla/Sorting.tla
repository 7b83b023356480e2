------------------------------- MODULE Sorting -------------------------------
(***************************************************************************)
(* Exercise 17: the five sorting algorithms, run to completion on every    *)
(* array of up to MaxLen elements, one loop iteration a step.  An element  *)
(* is its key and its original position, so that stability can be seen;    *)
(* the code compares keys only.  The recursion of merge sort and quicksort *)
(* is the stack of calls still to be made.                                 *)
(***************************************************************************)
EXTENDS Integers, Sequences

CONSTANTS Algs, Keys, MaxLen

\* The keys are ints: any, and compared as such.
SortAssumption ==
    /\ Algs \subseteq {"bubble", "insertion", "selection", "merge", "quick"}
    /\ Keys \subseteq Int /\ MaxLen \in Nat

VARIABLES alg, n, arr0,     \* the algorithm, the length and the input
          arr,              \* the array, from index 0
          pc,
          i, j, k,          \* loop indices (k: min_idx, or merge's k)
          flag,             \* bubble sort's swapped
          held,             \* insertion sort's key, quicksort's pivot
          tmp,              \* merge sort's buffer
          calls             \* calls to be made, the next one first

vars == <<alg, n, arr0, arr, pc, i, j, k, flag, held, tmp, calls>>

Element(a) == [p \in DOMAIN a |-> [key |-> a[p], pos |-> p]]

Init ==
    /\ alg \in Algs
    /\ n \in 0 .. MaxLen
    /\ \E a \in [0 .. n - 1 -> Keys] : arr0 = Element(a)
    /\ arr = arr0 /\ tmp = arr0
    /\ pc = IF alg \in {"merge", "quick"} THEN "call" ELSE "outer"
    /\ i = IF alg = "insertion" THEN 1 ELSE 0
    /\ j = 0 /\ k = 0
    /\ flag = FALSE
    /\ held = [key |-> 0, pos |-> 0]
    /\ calls = IF alg = "quick" /\ n < 2 THEN <<>> ELSE <<<<"sort", 0, 0, n - 1>>>>

gt(a, b) == a.key > b.key
lt(a, b) == a.key < b.key
swap(a, x, y) == [a EXCEPT ![x] = a[y], ![y] = a[x]]

-----------------------------------------------------------------------------
bubble_out_of_order(x) == gt(arr[x], arr[x + 1])

bubble_sort ==
    \/ /\ pc = "outer"
       /\ IF i < n - 1
          THEN pc' = "inner" /\ j' = 0 /\ flag' = FALSE
          ELSE pc' = "done" /\ UNCHANGED <<j, flag>>
       /\ UNCHANGED <<arr, i, k, held, tmp, calls>>
    \/ /\ pc = "inner" /\ j < n - 1 - i
       /\ j' = j + 1
       /\ IF bubble_out_of_order(j)
          THEN arr' = swap(arr, j, j + 1) /\ flag' = TRUE
          ELSE UNCHANGED <<arr, flag>>
       /\ UNCHANGED <<pc, i, k, held, tmp, calls>>
    \/ /\ pc = "inner" /\ j >= n - 1 - i
       /\ i' = i + 1
       /\ pc' = IF flag THEN "outer" ELSE "done"
       /\ UNCHANGED <<arr, j, k, flag, held, tmp, calls>>

insertion_sort ==
    \/ /\ pc = "outer"
       /\ IF i < n
          THEN pc' = "inner" /\ held' = arr[i] /\ j' = i - 1
          ELSE pc' = "done" /\ UNCHANGED <<held, j>>
       /\ UNCHANGED <<arr, i, k, flag, tmp, calls>>
    \/ /\ pc = "inner"
       /\ IF j >= 0 /\ gt(arr[IF j >= 0 THEN j ELSE 0], held)
          THEN /\ arr' = [arr EXCEPT ![j + 1] = arr[j]]
               /\ j' = j - 1
               /\ UNCHANGED <<pc, i>>
          ELSE /\ arr' = [arr EXCEPT ![j + 1] = held]
               /\ i' = i + 1 /\ pc' = "outer"
               /\ UNCHANGED j
       /\ UNCHANGED <<k, flag, held, tmp, calls>>

selection_sort ==
    \/ /\ pc = "outer"
       /\ IF i < n - 1
          THEN pc' = "inner" /\ k' = i /\ j' = i + 1
          ELSE pc' = "done" /\ UNCHANGED <<k, j>>
       /\ UNCHANGED <<arr, i, flag, held, tmp, calls>>
    \/ /\ pc = "inner" /\ j < n
       /\ k' = IF lt(arr[j], arr[k]) THEN j ELSE k
       /\ j' = j + 1
       /\ UNCHANGED <<arr, pc, i, flag, held, tmp, calls>>
    \/ /\ pc = "inner" /\ j >= n
       /\ arr' = IF k # i THEN swap(arr, i, k) ELSE arr
       /\ i' = i + 1 /\ pc' = "outer"
       /\ UNCHANGED <<j, k, flag, held, tmp, calls>>

-----------------------------------------------------------------------------
Call == Head(calls)

take_left == i <= Call[3] /\ (j > Call[4] \/ ~gt(tmp[i], tmp[j]))

\* A call is <<"sort", -, lo, hi>> or <<"merge", lo, mid, hi>>.
merge_sort ==
    \/ /\ pc = "call"
       /\ IF calls = <<>>
          THEN pc' = "done" /\ UNCHANGED <<calls, i, j, k, tmp>>
          ELSE IF Call[1] = "sort"
          THEN /\ LET lo == Call[3]
                      hi == Call[4]
                      mid == lo + ((hi - lo) \div 2)
                  IN calls' = IF lo >= hi THEN Tail(calls)
                              ELSE << <<"sort", 0, lo, mid>>, <<"sort", 0, mid + 1, hi>>,
                                      <<"merge", lo, mid, hi>> >> \o Tail(calls)
               /\ UNCHANGED <<pc, i, j, k, tmp>>
          ELSE /\ i' = Call[2] /\ j' = Call[3] + 1 /\ k' = Call[2]
               /\ tmp' = [x \in DOMAIN tmp |-> IF x \in Call[2] .. Call[4]
                                               THEN arr[x] ELSE tmp[x]]
               /\ pc' = "merge"
               /\ UNCHANGED calls
       /\ UNCHANGED <<arr, flag, held>>
    \/ /\ pc = "merge" /\ k <= Call[4]
       /\ k' = k + 1
       /\ IF take_left
          THEN arr' = [arr EXCEPT ![k] = tmp[i]] /\ i' = i + 1 /\ UNCHANGED j
          ELSE arr' = [arr EXCEPT ![k] = tmp[j]] /\ j' = j + 1 /\ UNCHANGED i
       /\ UNCHANGED <<pc, flag, held, tmp, calls>>
    \/ /\ pc = "merge" /\ k > Call[4]
       /\ pc' = "call" /\ calls' = Tail(calls)
       /\ UNCHANGED <<arr, i, j, k, flag, held, tmp>>

-----------------------------------------------------------------------------
\* Wrong: only two of the three are ordered.
median_of_three_two(a, lo, hi) ==
    LET mid == lo + ((hi - lo) \div 2)
        s1 == IF gt(a[lo], a[hi]) THEN swap(a, lo, hi) ELSE a
    IN swap(s1, mid, hi - 1)

\* The three conditional swaps, then the median to hi - 1.
median_of_three(a, lo, hi) ==
    LET mid == lo + ((hi - lo) \div 2)
        s1 == IF gt(a[lo], a[mid]) THEN swap(a, lo, mid) ELSE a
        s2 == IF gt(s1[lo], s1[hi]) THEN swap(s1, lo, hi) ELSE s1
        s3 == IF gt(s2[mid], s2[hi]) THEN swap(s2, mid, hi) ELSE s2
    IN swap(s3, mid, hi - 1)

scan_down_on == gt(arr[j], held)

\* Wrong: the pivot stays in the right half, which need not shrink.
partition_done_keep(p) ==
    /\ calls' = << <<"sort", 0, Call[3], p - 1>>, <<"sort", 0, p, Call[4]>> >>
                \o Tail(calls)
    /\ pc' = "call"
partition_done(p) ==
    /\ calls' = << <<"sort", 0, Call[3], p - 1>>, <<"sort", 0, p + 1, Call[4]>> >>
                \o Tail(calls)
    /\ pc' = "call"

partition_begin ==
    /\ pc = "call" /\ calls # <<>> /\ Call[3] < Call[4]
    /\ LET lo == Call[3]
           hi == Call[4]
       IN IF hi - lo < 2
          THEN /\ arr' = IF gt(arr[lo], arr[hi]) THEN swap(arr, lo, hi) ELSE arr
               /\ partition_done(lo)
               /\ UNCHANGED <<i, j, held>>
          ELSE /\ arr' = median_of_three(arr, lo, hi)
               /\ held' = median_of_three(arr, lo, hi)[hi - 1]
               /\ i' = lo + 1 /\ j' = hi - 1
               /\ pc' = "up"
               /\ UNCHANGED calls
    /\ UNCHANGED <<k, flag, tmp>>

\* while (arr[++i] < pivot); while (arr[--j] > pivot); then stop or swap
scan ==
    \/ /\ pc = "up"
       /\ IF lt(arr[i], held) THEN i' = i + 1 /\ UNCHANGED <<pc, j>>
                              ELSE pc' = "down" /\ j' = j - 1 /\ UNCHANGED i
       /\ UNCHANGED <<arr, k, flag, held, tmp, calls>>
    \/ /\ pc = "down"
       /\ IF scan_down_on THEN j' = j - 1 /\ UNCHANGED pc
                          ELSE pc' = "meet" /\ UNCHANGED j
       /\ UNCHANGED <<arr, i, k, flag, held, tmp, calls>>
    \/ /\ pc = "meet"
       /\ IF i >= j
          THEN /\ arr' = swap(arr, i, Call[4] - 1)
               /\ partition_done(i)
               /\ UNCHANGED i
          ELSE /\ arr' = swap(arr, i, j)
               /\ i' = i + 1 /\ pc' = "up"
               /\ UNCHANGED calls
       /\ UNCHANGED <<j, k, flag, held, tmp>>

quick_sort_return ==
    /\ pc = "call"
    /\ IF calls = <<>> THEN pc' = "done" /\ UNCHANGED calls
       ELSE Call[3] >= Call[4] /\ calls' = Tail(calls) /\ UNCHANGED pc
    /\ UNCHANGED <<arr, i, j, k, flag, held, tmp>>

quick_sort == partition_begin \/ scan \/ quick_sort_return

-----------------------------------------------------------------------------
Next ==
    \/ /\ \/ alg = "bubble" /\ bubble_sort
          \/ alg = "insertion" /\ insertion_sort
          \/ alg = "selection" /\ selection_sort
          \/ alg = "merge" /\ merge_sort
          \/ alg = "quick" /\ quick_sort
       /\ UNCHANGED <<alg, n, arr0>>
    \/ pc = "done" /\ UNCHANGED vars

Spec == Init /\ [][Next]_vars

-----------------------------------------------------------------------------
(***************************************************************************)
(* The result is ordered and holds each element of the input once          *)
(* (elements are told apart by their position).                            *)
(***************************************************************************)
Sorted ==
    pc = "done" =>
        /\ \A x \in 0 .. n - 2 : ~gt(arr[x], arr[x + 1])
        /\ {arr[x] : x \in DOMAIN arr} = {arr0[x] : x \in DOMAIN arr0}

(***************************************************************************)
(* The table at the top of sorting.c: bubble, insertion and merge sort are *)
(* stable.                                                                 *)
(***************************************************************************)
Stable ==
    pc = "done" /\ alg \in {"bubble", "insertion", "merge"} =>
        \A x, y \in DOMAIN arr :
            x < y /\ arr[x].key = arr[y].key => arr[x].pos < arr[y].pos

(***************************************************************************)
(* Quicksort's unguarded scans stay inside the partition: i stops at the   *)
(* pivot at hi - 1 at the latest, j at the median's lower neighbour at lo. *)
(***************************************************************************)
ScansInBounds ==
    /\ pc \in {"up", "down", "meet"} => i \in Call[3] + 1 .. Call[4] - 1
    /\ pc \in {"down", "meet"} => j \in Call[3] .. Call[4] - 1

==============================================================================
