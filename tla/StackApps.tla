------------------------------ MODULE StackApps ------------------------------
(***************************************************************************)
(* Exercise 16, the two applications: brackets_balanced with its stack of  *)
(* CAPACITY characters, and bfs_order with a queue (a sequence here; the   *)
(* linked queue is shown to be one in StackQueue).  Each run takes one     *)
(* input through its loop, one iteration a step.                           *)
(***************************************************************************)
EXTENDS Integers, Sequences, SequencesExt, FiniteSets, FiniteSetsExt

CONSTANTS CAPACITY,      \* size of stk (256)
          MaxLen,        \* bound on the length of the bracket strings
          MaxN           \* bound on bfs_order's n, which may be any int; up to
                         \* half of INT_MAX its children's numbers are ints too

AppsAssumption == CAPACITY \in Nat /\ MaxLen \in Nat /\ MaxN \in Nat \ {0}

Openers == {"(", "[", "{"}
Closers == {")", "]", "}"}
Chars == Openers \cup Closers \cup {"x"}
Match(open, close) == <<open, close>> \in {<<"(", ")">>, <<"[", "]">>, <<"{", "}">>}

VARIABLES app,          \* "brackets" or "bfs"
          s, i, stk, result,
          n, queue, order, level, in_level, printed, levels

vars == <<app, s, i, stk, result, n, queue, order, level, in_level, printed, levels>>
bvars == <<s, i, stk, result>>
qvars == <<n, queue, order, level, in_level, printed, levels>>

Init ==
    /\ app \in {"brackets", "bfs"}
    /\ s \in IF app = "brackets" THEN BoundedSeq(Chars, MaxLen) ELSE {<<>>}
    /\ i = 1 /\ stk = <<>> /\ result = "none"
    /\ n \in IF app = "bfs" THEN -MaxN .. MaxN ELSE {0}
    /\ queue = <<1>>
    /\ order = <<>> /\ level = 0 /\ in_level = 1 /\ printed = 0 /\ levels = <<>>

-----------------------------------------------------------------------------

\* top >= 255
stack_full == Len(stk) >= CAPACITY

\* Wrong: any opener matches any closer.
mismatch_ignored(c) == FALSE

mismatch(c) == ~Match(Last(stk), c)

\* One character: push an opener, match a closer, skip anything else.
scan ==
    /\ app = "brackets" /\ result = "none" /\ i <= Len(s)
    /\ i' = i + 1
    /\ \/ /\ s[i] \in Openers
          /\ IF stack_full
             THEN result' = "no" /\ UNCHANGED stk
             ELSE stk' = Append(stk, s[i]) /\ UNCHANGED result
       \/ /\ s[i] \in Closers
          /\ IF stk = <<>>
             THEN result' = "no" /\ UNCHANGED stk
             ELSE /\ stk' = Front(stk)
                  /\ result' = IF mismatch(s[i]) THEN "no" ELSE "none"
       \/ /\ s[i] \notin Openers \cup Closers
          /\ UNCHANGED <<stk, result>>
    /\ UNCHANGED <<app, s, qvars>>

finish ==
    /\ app = "brackets" /\ result = "none" /\ i > Len(s)
    /\ result' = IF stk = <<>> THEN "yes" ELSE "no"
    /\ UNCHANGED <<app, s, i, stk, qvars>>

brackets_balanced == scan \/ finish

-----------------------------------------------------------------------------

\* printed == in_level && !queue_is_empty(q)
next_level(rest, q) == printed + 1 = in_level /\ q # <<>>

children(node) ==
    (IF 2 * node <= n THEN <<2 * node>> ELSE <<>>)
    \o (IF (2 * node) + 1 <= n THEN <<(2 * node) + 1>> ELSE <<>>)

\* One iteration: dequeue, print, enqueue the children, start a new level.
bfs_order ==
    /\ app = "bfs" /\ queue # <<>>
    /\ LET node == Head(queue)
           q == Tail(queue) \o children(node)
       IN /\ order' = Append(order, node)
          /\ levels' = Append(levels, level)
          /\ queue' = q
          /\ IF next_level(Tail(queue), q)
             THEN in_level' = Len(q) /\ level' = level + 1 /\ printed' = 0
             ELSE printed' = printed + 1 /\ UNCHANGED <<in_level, level>>
    /\ UNCHANGED <<app, n, bvars>>

Done == result # "none" \/ queue = <<>>

Next == brackets_balanced \/ bfs_order \/ (Done /\ UNCHANGED vars)

Spec == Init /\ [][Next]_vars

-----------------------------------------------------------------------------
(* The reference definitions *)

\* A string is balanced when its brackets can be paired: each opener with a
\* later closer of its kind, with pairs nested or apart.
Depth(t, k) == Cardinality({j \in 1 .. k : t[j] \in Openers})
               - Cardinality({j \in 1 .. k : t[j] \in Closers})

Balanced(t) ==
    /\ \A k \in 0 .. Len(t) : Depth(t, k) >= 0
    /\ Depth(t, Len(t)) = 0
    /\ \A a, b \in 1 .. Len(t) :
         /\ a < b /\ t[a] \in Openers /\ t[b] \in Closers
         /\ Depth(t, b) = Depth(t, a - 1)
         /\ \A k \in a .. b - 1 : Depth(t, k) >= Depth(t, a)
         => Match(t[a], t[b])

Deepest(t) == Max({Depth(t, k) : k \in 0 .. Len(t)})

(***************************************************************************)
(* brackets_balanced says yes exactly for the balanced strings that nest   *)
(* no deeper than its stack, "stack full - treat as unbalanced".           *)
(***************************************************************************)
BracketsCorrect ==
    result # "none" =>
        (result = "yes" <=> Balanced(s) /\ Deepest(s) <= CAPACITY)

\* The stack array is never written past its end.
StackInBounds == Len(stk) <= CAPACITY

\* The first node on each line of a complete tree: the root, then the left
\* child of the first node on the line above.
FirstNode[d \in 0 .. MaxN] == IF d = 0 THEN 1 ELSE 2 * FirstNode[d - 1]

OnLevel(k, d) == d \in 0 .. MaxN /\ FirstNode[d] <= k /\ k < 2 * FirstNode[d]

(***************************************************************************)
(* "Print integers 1..n in the order a BFS would visit": the k-th node     *)
(* printed is k, and it is printed on the line of its level.               *)
(***************************************************************************)
LevelOrder ==
    \A k \in DOMAIN order : order[k] = k /\ OnLevel(k, levels[k])

(***************************************************************************)
(* When the queue is empty all n nodes have been printed, and for a tree   *)
(* without nodes no more than the root, which bfs_order enqueues before it *)
(* looks at n.                                                             *)
(***************************************************************************)
AllVisited ==
    app = "bfs" /\ queue = <<>> =>
        IF n >= 1 THEN Len(order) = n ELSE Len(order) <= 1
==============================================================================
