----------------------------- MODULE StackQueue -----------------------------
(***************************************************************************)
(* Exercise 16: the linked stack and the linked queue with its tail        *)
(* pointer, over one heap.  The hazard is the queue's two pointers: the    *)
(* last dequeue must clear tail, or the next enqueue writes to a freed     *)
(* node and the queue loses its head.                                      *)
(***************************************************************************)
EXTENDS Naturals, Sequences, FiniteSets, FiniteSetsExt

CONSTANTS Values,
          MaxNodes      \* bound on the nodes in use

NULL == 0
Addr == 1 .. MaxNodes

VARIABLES top, s_size, head, tail, q_size, next, value, blocks,
          wild          \* an operation has written to a freed node

vars == <<top, s_size, head, tail, q_size, next, value, blocks, wild>>

\* stack_create, queue_create: calloc
Init ==
    /\ top = NULL /\ s_size = 0
    /\ head = NULL /\ tail = NULL /\ q_size = 0
    /\ next = [a \in Addr |-> NULL] /\ value = [a \in Addr |-> 0]
    /\ blocks = {}
    /\ wild = FALSE

n == Min(Addr \ blocks)

\* node_new: the new node n exists with this value.
node_new(v) ==
    /\ Cardinality(blocks) < MaxNodes
    /\ value' = [value EXCEPT ![n] = v]
    /\ blocks' = blocks \cup {n}

\* free(a); nothing may read it, so its value is set to a fixed content.
free(a) ==
    /\ blocks' = blocks \ {a}
    /\ value' = [value EXCEPT ![a] = 0]
    /\ next' = [next EXCEPT ![a] = NULL]

stack_push(v) ==
    /\ node_new(v)
    /\ next' = [next EXCEPT ![n] = top]
    /\ top' = n
    /\ s_size' = s_size + 1
    /\ UNCHANGED <<head, tail, q_size, wild>>

\* exit(1) on an empty stack or queue is the caller's error and not a step.
stack_pop ==
    /\ s_size # 0
    /\ top' = next[top]
    /\ free(top)
    /\ s_size' = s_size - 1
    /\ UNCHANGED <<head, tail, q_size, wild>>

queue_enqueue(v) ==
    /\ node_new(v)
    /\ next' = [a \in Addr |-> IF a = tail THEN n ELSE IF a = n THEN NULL ELSE next[a]]
    /\ wild' = (wild \/ (tail # NULL /\ tail \notin blocks))
    /\ head' = IF tail = NULL THEN n ELSE head
    /\ tail' = n
    /\ q_size' = q_size + 1
    /\ UNCHANGED <<top, s_size>>

\* Wrong: tail is left pointing at the freed last node.
queue_dequeue_stale_tail ==
    /\ q_size # 0
    /\ head' = next[head]
    /\ free(head)
    /\ q_size' = q_size - 1
    /\ UNCHANGED <<top, s_size, tail, wild>>

queue_dequeue ==
    /\ q_size # 0
    /\ head' = next[head]
    /\ tail' = IF next[head] = NULL THEN NULL ELSE tail
    /\ free(head)
    /\ q_size' = q_size - 1
    /\ UNCHANGED <<top, s_size, wild>>

Next ==
    \/ \E v \in Values : stack_push(v) \/ queue_enqueue(v)
    \/ stack_pop
    \/ queue_dequeue

Spec == Init /\ [][Next]_vars

-----------------------------------------------------------------------------
\* The node i steps after start, NULL past the end.
Walk(start) ==
    LET node[i \in 0 .. MaxNodes] ==
            IF i = 0 THEN start
            ELSE IF node[i - 1] = NULL THEN NULL ELSE next[node[i - 1]]
    IN node

Nodes(start) == {Walk(start)[i] : i \in 0 .. MaxNodes} \ {NULL}
Contents(start) ==
    [i \in 1 .. Cardinality(Nodes(start)) |-> value[Walk(start)[i - 1]]]

(***************************************************************************)
(* The two lists end, share no node, are together the allocated blocks and *)
(* have the sizes recorded for them; so the frees in stack_free and        *)
(* queue_free (pop and dequeue until empty) leave nothing.                 *)
(***************************************************************************)
MemoryExact ==
    /\ Walk(top)[MaxNodes] = NULL /\ Walk(head)[MaxNodes] = NULL
    /\ Nodes(top) \cap Nodes(head) = {}
    /\ Nodes(top) \cup Nodes(head) = blocks
    /\ s_size = Cardinality(Nodes(top)) /\ q_size = Cardinality(Nodes(head))

(***************************************************************************)
(* tail is the last node of the queue, NULL exactly when it is empty, and  *)
(* no enqueue ever writes through a stale one.                             *)
(***************************************************************************)
TailIsLast ==
    /\ ~wild
    /\ IF head = NULL THEN tail = NULL ELSE tail \in Nodes(head) /\ next[tail] = NULL

(***************************************************************************)
(* Last in, first out, and first in, first out: each operation does to the *)
(* contents what a stack or a queue does, and leaves the other alone.      *)
(***************************************************************************)
LifoAndFifo ==
    [][ /\ \A v \in Values :
             /\ stack_push(v) => /\ Contents(top)' = <<v>> \o Contents(top)
                                 /\ Contents(head)' = Contents(head)
             /\ queue_enqueue(v) => /\ Contents(head)' = Append(Contents(head), v)
                                    /\ Contents(top)' = Contents(top)
        /\ stack_pop => /\ Contents(top)' = Tail(Contents(top))
                        /\ Contents(head)' = Contents(head)
        /\ queue_dequeue => /\ Contents(head)' = Tail(Contents(head))
                            /\ Contents(top)' = Contents(top) ]_vars
=============================================================================
