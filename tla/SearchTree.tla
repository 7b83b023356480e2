----------------------------- MODULE SearchTree -----------------------------
(***************************************************************************)
(* Exercise 15: the binary search tree, down to its pointers.  A heap is a *)
(* record of the nodes' fields and of the addresses malloc has given out;  *)
(* the recursive functions of the code take a heap and a node and return   *)
(* the new heap and the node the caller stores.  The fields of a node that *)
(* is not allocated are JUNK, so that reading one shows.                   *)
(***************************************************************************)
EXTENDS Integers, Sequences, FiniteSets, FiniteSetsExt, SequencesExt

CONSTANTS Values, MaxNodes

NULL == 0
JUNK == -1
Addr == 1 .. MaxNodes

VARIABLES heap, root
vars == <<heap, root>>

Init ==
    /\ heap = [value |-> [a \in Addr |-> JUNK], left |-> [a \in Addr |-> JUNK],
               right |-> [a \in Addr |-> JUNK], live |-> {}]
    /\ root = NULL

-----------------------------------------------------------------------------
RECURSIVE bst_insert(_, _, _),
          bst_delete(_, _, _), bst_free(_, _),
          bst_search(_, _, _),
          bst_min(_, _), bst_max(_, _), bst_height(_, _), bst_count(_, _),
          bst_inorder(_, _), bst_preorder(_, _), bst_postorder(_, _)

\* The results of a call: the heap it leaves and the node it returns.
Ret(h, n) == [heap |-> h, node |-> n]

node_create(h, v) ==
    LET n == Min(Addr \ h.live)
    IN Ret([value |-> [h.value EXCEPT ![n] = v], left |-> [h.left EXCEPT ![n] = NULL],
            right |-> [h.right EXCEPT ![n] = NULL], live |-> h.live \cup {n}], n)

free(h, n) ==
    [h EXCEPT !.live = @ \ {n}, !.value[n] = JUNK, !.left[n] = JUNK, !.right[n] = JUNK]

SetLeft(call, n) == Ret([call.heap EXCEPT !.left[n] = call.node], n)
SetRight(call, n) == Ret([call.heap EXCEPT !.right[n] = call.node], n)

bst_insert(h, n, v) ==
    IF n = NULL THEN node_create(h, v)
    ELSE IF v < h.value[n] THEN SetLeft(bst_insert(h, h.left[n], v), n)
    ELSE IF v > h.value[n] THEN SetRight(bst_insert(h, h.right[n], v), n)
    ELSE Ret(h, n)

bst_free(h, n) ==
    IF n = NULL THEN h
    ELSE LET h1 == bst_free(h, h.left[n])
             h2 == bst_free(h1, h1.right[n])
         IN free(h2, n)

bst_search(h, n, v) ==
    IF n = NULL THEN n
    ELSE IF h.value[n] = v THEN n
    ELSE IF v < h.value[n] THEN bst_search(h, h.left[n], v)
    ELSE bst_search(h, h.right[n], v)

bst_contains(h, n, v) == bst_search(h, n, v) # NULL

bst_min(h, n) ==
    IF n = NULL THEN n
    ELSE IF h.left[n] = NULL THEN n ELSE bst_min(h, h.left[n])

bst_max(h, n) ==
    IF n = NULL THEN n
    ELSE IF h.right[n] = NULL THEN n ELSE bst_max(h, h.right[n])

\* Wrong: the node is freed with the subtree below it.
replace_by_null(h, n, child) == Ret(free(h, n), NULL)
\* tmp = the only child; free(root); return tmp
replace_by(h, n, child) == Ret(free(h, n), child)

successor(h, n) == bst_min(h, h.right[n])

bst_delete(h, n, v) ==
    IF n = NULL THEN Ret(h, NULL)
    ELSE IF v < h.value[n] THEN SetLeft(bst_delete(h, h.left[n], v), n)
    ELSE IF v > h.value[n] THEN SetRight(bst_delete(h, h.right[n], v), n)
    ELSE IF h.left[n] = NULL THEN replace_by(h, n, h.right[n])
    ELSE IF h.right[n] = NULL THEN replace_by(h, n, h.left[n])
    ELSE LET succ == h.value[successor(h, n)]
         IN SetRight(bst_delete([h EXCEPT !.value[n] = succ], h.right[n], succ), n)

-----------------------------------------------------------------------------
bst_inorder(h, n) ==
    IF n = NULL THEN <<>>
    ELSE bst_inorder(h, h.left[n]) \o <<h.value[n]>> \o bst_inorder(h, h.right[n])

bst_preorder(h, n) ==
    IF n = NULL THEN <<>>
    ELSE <<h.value[n]>> \o bst_preorder(h, h.left[n]) \o bst_preorder(h, h.right[n])

bst_postorder(h, n) ==
    IF n = NULL THEN <<>>
    ELSE bst_postorder(h, h.left[n]) \o bst_postorder(h, h.right[n]) \o <<h.value[n]>>

bst_height(h, n) ==
    IF n = NULL THEN 0
    ELSE 1 + Max({bst_height(h, h.left[n]), bst_height(h, h.right[n])})

bst_count(h, n) ==
    IF n = NULL THEN 0
    ELSE 1 + bst_count(h, h.left[n]) + bst_count(h, h.right[n])

-----------------------------------------------------------------------------
\* root = bst_insert(root, v); a full heap is the bound, not a failing malloc.
Insert(v) ==
    /\ Addr # heap.live
    /\ LET call == bst_insert(heap, root, v)
       IN heap' = call.heap /\ root' = call.node

\* root = bst_delete(root, v)
Delete(v) ==
    LET call == bst_delete(heap, root, v)
    IN heap' = call.heap /\ root' = call.node

\* bst_free(root), after which the caller may only start again from NULL.
Free == heap' = bst_free(heap, root) /\ root' = NULL

Next == Free \/ \E v \in Values : Insert(v) \/ Delete(v)

Spec == Init /\ [][Next]_vars

-----------------------------------------------------------------------------
\* The nodes reachable from n, and the pointers among them.
Children(n) == {heap.left[n], heap.right[n]} \ {NULL}
Reached ==
    LET grow[i \in 0 .. MaxNodes] ==
            IF i = 0 THEN {root} \ {NULL}
            ELSE grow[i - 1] \cup UNION {Children(n) : n \in grow[i - 1] \cap Addr}
    IN grow[MaxNodes]

Contents == {heap.value[n] : n \in Reached}

(***************************************************************************)
(* Memory is exact: the allocated nodes are the ones the tree reaches, and *)
(* each has one parent, so that bst_free frees each once; a freed node is  *)
(* in no pointer.                                                          *)
(***************************************************************************)
MemoryExact ==
    /\ Reached = heap.live
    /\ \A n \in heap.live : n # root => Cardinality({p \in heap.live : n \in Children(p)}) = 1

(***************************************************************************)
(* The property bst.c states for every node: everything to the left is     *)
(* smaller, everything to the right larger, at any depth.                  *)
(***************************************************************************)
Ordered ==
    LET seq == bst_inorder(heap, root)
    IN \A i \in 1 .. Len(seq) - 1 : seq[i] < seq[i + 1]

\* The search functions and the metrics agree with the set of values.
QueriesConform ==
    /\ \A v \in Values : bst_contains(heap, root, v) <=> v \in Contents
    /\ root # NULL => /\ heap.value[bst_min(heap, root)] = Min(Contents)
                      /\ heap.value[bst_max(heap, root)] = Max(Contents)
    /\ bst_count(heap, root) = Cardinality(Contents)
    /\ LET height == bst_height(heap, root)
       IN height <= Cardinality(Contents) /\ Cardinality(Contents) < 2 ^ height

(***************************************************************************)
(* bst.c calls the preorder useful for copying and the postorder for       *)
(* freeing: inserting the values in preorder builds a tree of the same     *)
(* shape, and the postorder of the copy has the root last.                 *)
(***************************************************************************)
PreorderCopies ==
    LET none == [heap EXCEPT !.live = {}]
        copy == FoldLeft(LAMBDA call, v : bst_insert(call.heap, call.node, v),
                         Ret(none, NULL), bst_preorder(heap, root))
    IN /\ bst_preorder(copy.heap, copy.node) = bst_preorder(heap, root)
       /\ bst_postorder(copy.heap, copy.node) = bst_postorder(heap, root)
       /\ bst_height(copy.heap, copy.node) = bst_height(heap, root)

(***************************************************************************)
(* What the tree promises its callers is a set of values: each operation   *)
(* changes the values reached by exactly its argument, inserting twice or  *)
(* deleting what is absent is harmless, and bst_free leaves none.          *)
(***************************************************************************)
OperationsConform ==
    /\ Contents = {}
    /\ [][/\ \A v \in Values : /\ Insert(v) => Contents' = Contents \cup {v}
                               /\ Delete(v) => Contents' = Contents \ {v}
          /\ Free => Contents' = {}]_vars
=============================================================================
