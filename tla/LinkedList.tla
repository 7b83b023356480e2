----------------------------- MODULE LinkedList -----------------------------
(***************************************************************************)
(* Exercise 10: the singly linked list, down to its pointers.  A node is a *)
(* heap address with a value and a next pointer; blocks holds the          *)
(* addresses malloc has given out.  list_reverse, whose loop takes the     *)
(* list apart, is modelled one iteration at a time; the other operations   *)
(* walk a list nobody else changes and are one step each.                  *)
(***************************************************************************)
EXTENDS Integers, Sequences, FiniteSets, FiniteSetsExt, SequencesExt

CONSTANTS Values,
          Indices,      \* index arguments, negative and too large ones too
          MaxNodes      \* bound on the length of the list

NULL == 0
Addr == 1 .. MaxNodes

VARIABLES head, size, next, value, blocks,
          prev, cur,       \* list_reverse's pointers
          pc               \* "idle", or "reverse" inside that loop

vars == <<head, size, next, value, blocks, prev, cur, pc>>

\* list_create
Init ==
    /\ head = NULL /\ size = 0
    /\ next = [a \in Addr |-> NULL] /\ value = [a \in Addr |-> 0]
    /\ blocks = {}
    /\ prev = NULL /\ cur = NULL
    /\ pc = "idle"

\* The node i steps after start, NULL past the end.
Walk(start) ==
    LET node[i \in 0 .. MaxNodes] ==
            IF i = 0 THEN start
            ELSE IF node[i - 1] = NULL THEN NULL ELSE next[node[i - 1]]
    IN node

\* The number of nodes from start to NULL.
Length(start) == Cardinality({i \in 0 .. MaxNodes : Walk(start)[i] # NULL})

\* The last node: while (cur->next != NULL) cur = cur->next
LastNode(start) == Walk(start)[Length(start) - 1]

fresh == Min(Addr \ blocks)

Idle == pc = "idle"
Room == Cardinality(blocks) < MaxNodes

\* node_create(v), linked after p (NULL: at the head) and before succ.
link_new(p, v, succ) ==
    /\ value' = [value EXCEPT ![fresh] = v]
    /\ next' = [a \in Addr |-> IF a = fresh THEN succ
                               ELSE IF a = p THEN fresh ELSE next[a]]
    /\ head' = IF p = NULL THEN fresh ELSE head
    /\ blocks' = blocks \cup {fresh}
    /\ size' = size + 1
    /\ UNCHANGED <<prev, cur, pc>>

\* Unlink the node after p (NULL: the head) and free it.  Nothing may read a
\* freed node, so its fields are set to a fixed content.
unlink(p) ==
    LET target == IF p = NULL THEN head ELSE next[p]
    IN /\ head' = IF p = NULL THEN next[head] ELSE head
       /\ next' = [a \in Addr |-> IF a = target THEN NULL
                                  ELSE IF a = p THEN next[target] ELSE next[a]]
       /\ value' = [value EXCEPT ![target] = 0]
       /\ blocks' = blocks \ {target}
       /\ size' = size - 1
       /\ UNCHANGED <<prev, cur, pc>>

list_push_front(v) == Idle /\ Room /\ link_new(NULL, v, head)

list_push_back(v) ==
    /\ Idle /\ Room
    /\ link_new(IF head = NULL THEN NULL ELSE LastNode(head), v, NULL)

\* Wrong: the loop goes one node too far.
list_insert_at_late(index, v) ==
    /\ Idle /\ Room
    /\ IF index <= 0 \/ head = NULL
       THEN link_new(NULL, v, head)
       ELSE LET p == Walk(head)[Min({index, Length(head) - 1})]
            IN link_new(p, v, next[p])

\* cur is advanced index - 1 times, but not past the last node.
list_insert_at(index, v) ==
    /\ Idle /\ Room
    /\ IF index <= 0 \/ head = NULL
       THEN link_new(NULL, v, head)
       ELSE LET p == Walk(head)[Min({index - 1, Length(head) - 1})]
            IN link_new(p, v, next[p])

\* exit(1) on an empty list is the caller's error and not a step.
list_pop_front == Idle /\ head # NULL /\ unlink(NULL)

\* The head, or the node after the first one whose successor has the value.
list_delete_value(v) ==
    /\ Idle /\ head # NULL
    /\ IF value[head] = v
       THEN unlink(NULL)
       ELSE LET at == {i \in 1 .. Length(head) - 1 : value[Walk(head)[i]] = v}
            IN IF at = {} THEN UNCHANGED vars ELSE unlink(Walk(head)[Min(at) - 1])

list_delete_at(index) ==
    /\ Idle /\ head # NULL /\ index >= 0
    /\ IF index = 0
       THEN unlink(NULL)
       ELSE LET p == Walk(head)[Min({index - 1, Length(head) - 1})]
            IN IF next[p] = NULL THEN UNCHANGED vars ELSE unlink(p)

\* Is the value at one of the nodes?
list_contains(v) == \E i \in 0 .. MaxNodes : Walk(head)[i] # NULL /\ value[Walk(head)[i]] = v

\* The node list_get stops at: the head for a negative index, NULL (and exit(1))
\* past the end.
list_get(index) == Walk(head)[Min({Max({index, 0}), MaxNodes})]

Nodes(start) == {Walk(start)[i] : i \in 0 .. MaxNodes} \ {NULL}

\* list_free frees node by node from the head; a new list follows.
list_free ==
    /\ Idle
    /\ blocks' = blocks \ Nodes(head)
    /\ head' = NULL /\ size' = 0
    /\ next' = [a \in Addr |-> NULL] /\ value' = [a \in Addr |-> 0]
    /\ UNCHANGED <<prev, cur, pc>>

-----------------------------------------------------------------------------
reverse_begin ==
    /\ Idle
    /\ pc' = "reverse"
    /\ prev' = NULL /\ cur' = head
    /\ UNCHANGED <<head, size, next, value, blocks>>

\* One iteration: save next, turn the link, advance both pointers.
reverse_step ==
    /\ pc = "reverse" /\ cur # NULL
    /\ next' = [next EXCEPT ![cur] = prev]
    /\ prev' = cur
    /\ cur' = next[cur]
    /\ UNCHANGED <<head, size, value, blocks, pc>>

reverse_end ==
    /\ pc = "reverse" /\ cur = NULL
    /\ head' = prev
    /\ prev' = NULL
    /\ pc' = "idle"
    /\ UNCHANGED <<size, next, value, blocks, cur>>

list_reverse == reverse_begin \/ reverse_step \/ reverse_end

Next ==
    \/ list_pop_front \/ list_reverse \/ list_free
    \/ \E v \in Values : \/ list_push_front(v) \/ list_push_back(v)
                         \/ list_delete_value(v)
                         \/ \E i \in Indices : list_insert_at(i, v)
    \/ \E i \in Indices : list_delete_at(i)

Spec == Init /\ [][Next]_vars

-----------------------------------------------------------------------------
ValuesFrom(start) == [i \in 1 .. Length(start) |-> value[Walk(start)[i - 1]]]

(***************************************************************************)
(* The list ends (no cycle), its nodes are exactly the allocated blocks,   *)
(* and size counts them; while list_reverse runs, the turned part and the  *)
(* rest together are.  list_free leaves none of them.                      *)
(***************************************************************************)
MemoryExact ==
    LET parts == IF pc = "idle" THEN {head} ELSE {prev, cur}
    IN /\ \A p \in parts : Walk(p)[MaxNodes] = NULL
       /\ UNION {Nodes(p) : p \in parts} = blocks
       /\ \A p, q \in parts : p # q => Nodes(p) \cap Nodes(q) = {}
       /\ size = Cardinality(blocks)

\* The sequence the list stands for: while list_reverse runs, the turned part
\* back to front, followed by the rest.
Contents ==
    IF pc = "idle" THEN ValuesFrom(head)
    ELSE Reverse(ValuesFrom(prev)) \o ValuesFrom(cur)

\* InsertAt's position for an index counted from 0: <= 0 is the front, past
\* the end is the end.
Place(i, s) == 1 + (IF i <= 0 THEN 0 ELSE IF i > Len(s) THEN Len(s) ELSE i)

(***************************************************************************)
(* Between the calls, list_contains and list_get answer for the sequence;  *)
(* list_get takes a negative index for the first, and ends the program for *)
(* one past the end.                                                       *)
(***************************************************************************)
QueriesConform ==
    Idle =>
      /\ \A v \in Values : list_contains(v) <=> \E i \in DOMAIN Contents : Contents[i] = v
      /\ \A i \in Indices :
           IF Max({i, 0}) < Len(Contents)
           THEN list_get(i) # NULL /\ value[list_get(i)] = Contents[Max({i, 0}) + 1]
           ELSE list_get(i) = NULL

(***************************************************************************)
(* What the list promises is a sequence of values.  Each operation changes *)
(* the sequence by its own effect: all indices are counted from the same   *)
(* place, the first of several equal values is the one deleted, and        *)
(* list_reverse changes what the list stands for only when its loop ends;  *)
(* the queries answer for it.                                              *)
(***************************************************************************)
OperationsConform ==
    /\ Contents = <<>>
    /\ []QueriesConform
    /\ [][ /\ \A v \in Values :
                /\ list_push_front(v) => Contents' = <<v>> \o Contents
                /\ list_push_back(v) => Contents' = Append(Contents, v)
                /\ list_delete_value(v) => Contents' = RemoveFirst(Contents, v)
                /\ \A i \in Indices :
                     list_insert_at(i, v) => Contents' = InsertAt(Contents, Place(i, Contents), v)
           /\ \A i \in Indices :
                list_delete_at(i) => Contents' = IF i < Len(Contents) THEN RemoveAt(Contents, i + 1)
                                                 ELSE Contents
           /\ list_pop_front => Contents' = Tail(Contents)
           /\ list_free => Contents' = <<>>
           /\ reverse_begin \/ reverse_step => Contents' = Contents
           /\ reverse_end => Contents' = Reverse(Contents) ]_vars
=============================================================================
