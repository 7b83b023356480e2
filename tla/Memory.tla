-------------------------------- MODULE Memory --------------------------------
(***************************************************************************)
(* The blocks of exercise 8 up to its IntVec (which DynArray models), one  *)
(* after the other, and generic_swap of exercise 21.  Any allocation may   *)
(* fail.  A block is the sequence of its cells: "junk" as malloc and       *)
(* realloc leave them, "zero" from calloc, "set" once written; the objects *)
(* that are swapped hold their own bytes instead.                          *)
(***************************************************************************)
EXTENDS Naturals, Sequences

CONSTANTS Sizes,      \* of the swapped objects
          TMP         \* generic_swap's buffer on the stack (256)

Call(op, p, lo, hi) == [op |-> op, p |-> p, lo |-> lo, hi |-> hi]
malloc(p, n) == Call("malloc", p, 1, n)
calloc(p, n) == Call("calloc", p, 1, n)
realloc(p, n) == Call("realloc", p, 1, n)
store(p, lo, hi) == Call("store", p, lo, hi)
load(p, n) == Call("load", p, 1, n)
free(p) == Call("free", p, 1, 0)

malloc_tour == <<malloc("arr", 5), store("arr", 1, 5), load("arr", 5), free("arr")>>
calloc_tour == <<calloc("zeroed", 5), load("zeroed", 5), free("zeroed")>>

\* The upper half is written only after the realloc that makes it.
realloc_tour ==
    <<malloc("buf", 4), store("buf", 1, 4), load("buf", 4), realloc("buf", 8),
      store("buf", 5, 8), load("buf", 8), free("buf")>>

\* A cell is a field: name and score.
struct_tour ==
    <<malloc("p", 2), store("p", 1, 1), store("p", 2, 2), load("p", 2), free("p"),
      calloc("team", 6), store("team", 1, 6), load("team", 6), free("team")>>

\* strlen(src) + 1 bytes, the last of them the terminator.
dup_string(n) == <<malloc("copy", n + 1), store("copy", 1, n + 1)>>

main == malloc_tour \o calloc_tour \o realloc_tour \o struct_tour
        \o dup_string(3) \o <<load("copy", 4), free("copy")>>

\* buf is the local array or a block; then a, b and buf change places.
generic_swap(n) ==
    LET copies == <<Call("a to buf", "buf", 1, n), Call("b to a", "buf", 1, n),
                    Call("buf to b", "buf", 1, n)>>
    IN IF n <= TMP THEN copies ELSE <<malloc("buf", n)>> \o copies \o <<free("buf")>>

VARIABLES fn, size,   \* the program, or a swap of objects of that size
          todo,       \* its calls
          heap,       \* cells of each block, <<>> for NULL and freed ones
          tmp, a, b,  \* of generic_swap
          bad,        \* a cell was used that is junk or not there
          failed      \* an allocation failed

vars == <<fn, size, todo, heap, tmp, a, b, bad, failed>>

Pointers == {"arr", "zeroed", "buf", "p", "team", "copy"}
Bytes(who, n) == [i \in 1 .. n |-> <<who, i>>]

Init ==
    /\ \/ fn = "main" /\ size = 0 /\ todo = main
       \/ fn = "swap" /\ size \in Sizes /\ todo = generic_swap(size)
    /\ heap = [p \in Pointers |-> <<>>]
    /\ tmp = <<>> /\ a = Bytes("a", size) /\ b = Bytes("b", size)
    /\ bad = FALSE /\ failed = FALSE

is(op) == todo # <<>> /\ Head(todo).op = op
ptr == Head(todo).p
Cells == Head(todo).lo .. Head(todo).hi
step == todo' = Tail(todo)

\* return 1, with realloc's old block freed first; generic_swap just returns.
give_up ==
    /\ heap' = IF is("realloc") THEN [heap EXCEPT ![ptr] = <<>>] ELSE heap
    /\ todo' = <<>> /\ failed' = TRUE

\* The old cells stay where there are any.
allocate ==
    /\ is("malloc") \/ is("calloc") \/ is("realloc")
    /\ \/ give_up
       \/ /\ heap' = [heap EXCEPT ![ptr] =
                        [i \in Cells |-> IF i <= Len(@) THEN @[i]
                                         ELSE IF is("calloc") THEN "zero" ELSE "junk"]]
          /\ step /\ UNCHANGED failed
    /\ UNCHANGED <<fn, size, tmp, a, b, bad>>

access ==
    /\ \/ /\ is("store")
          /\ heap' = [heap EXCEPT ![ptr] =
                        [i \in DOMAIN @ |-> IF i \in Cells THEN "set" ELSE @[i]]]
          /\ bad' = (bad \/ ~(Cells \subseteq DOMAIN heap[ptr]))
       \/ /\ is("load")
          /\ bad' = (bad \/ \E i \in Cells : i \notin DOMAIN heap[ptr] \/ heap[ptr][i] = "junk")
          /\ UNCHANGED heap
    /\ step
    /\ UNCHANGED <<fn, size, tmp, a, b, failed>>

release ==
    /\ is("free") /\ step
    /\ bad' = (bad \/ heap[ptr] = <<>>)
    /\ heap' = [heap EXCEPT ![ptr] = <<>>]
    /\ UNCHANGED <<fn, size, tmp, a, b, failed>>

\* memcpy to and from the local array or the block.
copy ==
    /\ \/ /\ is("a to buf") /\ UNCHANGED <<a, b>>
          /\ IF size <= TMP THEN tmp' = a /\ UNCHANGED heap
                            ELSE heap' = [heap EXCEPT !["buf"] = a] /\ UNCHANGED tmp
       \/ is("b to a") /\ a' = b /\ UNCHANGED <<b, heap, tmp>>
       \/ is("buf to b") /\ b' = (IF size <= TMP THEN tmp ELSE heap["buf"]) /\ UNCHANGED <<a, heap, tmp>>
    /\ step
    /\ UNCHANGED <<fn, size, bad, failed>>

Next == allocate \/ access \/ release \/ copy \/ (todo = <<>> /\ UNCHANGED vars)

Spec == Init /\ [][Next]_vars

-----------------------------------------------------------------------------
\* Whichever allocation fails, every block is freed once before the return, and
\* no cell is read before it was written or outside its block.
TourClean ==
    /\ ~bad
    /\ todo = <<>> => \A p \in Pointers : heap[p] = <<>>

\* The objects are exchanged whole or, where no buffer was found, untouched.
SwapsWhole ==
    fn = "swap" /\ todo = <<>> =>
      <<a, b>> = IF failed THEN <<Bytes("a", size), Bytes("b", size)>>
                           ELSE <<Bytes("b", size), Bytes("a", size)>>
===============================================================================
