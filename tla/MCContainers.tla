------------------------------ MODULE MCContainers ------------------------------
(***************************************************************************)
(* The instance of the container exercises (8, 10, 15, 16, 18, 21) that    *)
(* TLC checks: one of the growing arrays, the hash table, the linked list, *)
(* the stack and queue, or the search tree, under every sequence of calls, *)
(* or the allocation tour and the swap, whose buffer has two bytes.        *)
(* The table starts with one bucket, so that it grows twice; its hash      *)
(* functions have no collision, one bucket for ever, or keys that part     *)
(* only at capacity 2 or 4. The list's indices lie below, at, inside and   *)
(* beyond the ends of a list of four nodes.                                *)
(***************************************************************************)
EXTENDS DynArray, TLC

CONSTANTS k1, k2, k3

MCKeys == {k1, k2, k3}

MCHashFns ==
    { [k \in MCKeys |-> 5],
      (k1 :> 0 @@ k2 :> 1 @@ k3 :> 2),
      (k1 :> 1 @@ k2 :> 3 @@ k3 :> 0),
      (k1 :> 0 @@ k2 :> 2 @@ k3 :> 4) }

VARIABLES demo, map_hash, map_capacity, map_buckets, map_count, map_self,
          map_bkts, map_blocks, map_ret, lst_head, lst_size, lst_next, lst_value, lst_blocks,
          lst_prev, lst_cur, lst_pc, sq_top, sq_s_size, sq_head, sq_tail,
          sq_q_size, sq_next, sq_value, sq_blocks, sq_wild, bst_heap,
          bst_root, mem_fn, mem_size, mem_todo, mem_heap, mem_tmp, mem_a,
          mem_b, mem_bad, mem_failed

Map == INSTANCE HashMap WITH
    Keys <- MCKeys, Values <- {1, 2}, None <- NullPtr, INITIAL_CAPACITY <- 1,
    HashFns <- MCHashFns, MaxAddr <- 8, hash <- map_hash,
    capacity <- map_capacity, buckets <- map_buckets, count <- map_count,
    self <- map_self, bkts <- map_bkts, blocks <- map_blocks, ret <- map_ret

\* What the proofs about the table assume of its constants.
ASSUME MapInputs == Map!HashAssumption

List == INSTANCE LinkedList WITH
    Values <- {1, 2}, Indices <- {-1, 0, 1, 2, 5}, MaxNodes <- 4,
    head <- lst_head, size <- lst_size, next <- lst_next, value <- lst_value,
    blocks <- lst_blocks, prev <- lst_prev, cur <- lst_cur, pc <- lst_pc

SQ == INSTANCE StackQueue WITH
    Values <- {1, 2}, MaxNodes <- 4, top <- sq_top, s_size <- sq_s_size,
    head <- sq_head, tail <- sq_tail, q_size <- sq_q_size, next <- sq_next,
    value <- sq_value, blocks <- sq_blocks, wild <- sq_wild

Tree == INSTANCE SearchTree WITH
    Values <- 1 .. 5, MaxNodes <- 4, heap <- bst_heap, root <- bst_root

Tour == INSTANCE Memory WITH
    Sizes <- 0 .. 4, TMP <- 2, fn <- mem_fn, size <- mem_size,
    todo <- mem_todo, heap <- mem_heap, tmp <- mem_tmp, a <- mem_a,
    b <- mem_b, bad <- mem_bad, failed <- mem_failed

mapVars == <<map_hash, map_capacity, map_buckets, map_count, map_self,
            map_bkts, map_blocks, map_ret>>
lstVars == <<lst_head, lst_size, lst_next, lst_value, lst_blocks, lst_prev,
            lst_cur, lst_pc>>
sqVars == <<sq_top, sq_s_size, sq_head, sq_tail, sq_q_size, sq_next,
            sq_value, sq_blocks, sq_wild>>
bstVars == <<bst_heap, bst_root>>
memVars == <<mem_fn, mem_size, mem_todo, mem_heap, mem_tmp, mem_a, mem_b,
            mem_bad, mem_failed>>
mcVars == <<demo, vars, mapVars, lstVars, sqVars, bstVars, memVars>>

MCInit ==
    /\ demo \in {"array", "map", "list", "stackqueue", "tree", "memory"}
    /\ kind \in IF demo = "array" THEN {"IntVec", "GenVec"} ELSE {"IntVec"}
    /\ map_hash \in IF demo = "map" THEN MCHashFns ELSE {[k \in MCKeys |-> 5]}
    /\ mem_fn \in IF demo = "memory" THEN {"main", "swap"} ELSE {"main"}
    /\ Init /\ Map!Init /\ List!Init /\ SQ!Init /\ Tree!Init /\ Tour!Init

MCNext ==
    \/ demo = "array" /\ Next
       /\ UNCHANGED <<demo, mapVars, lstVars, sqVars, bstVars, memVars>>
    \/ demo = "map" /\ Map!Next
       /\ UNCHANGED <<demo, vars, lstVars, sqVars, bstVars, memVars>>
    \/ demo = "list" /\ List!Next
       /\ UNCHANGED <<demo, vars, mapVars, sqVars, bstVars, memVars>>
    \/ demo = "stackqueue" /\ SQ!Next
       /\ UNCHANGED <<demo, vars, mapVars, lstVars, bstVars, memVars>>
    \/ demo = "tree" /\ Tree!Next
       /\ UNCHANGED <<demo, vars, mapVars, lstVars, sqVars, memVars>>
    \/ demo = "memory" /\ Tour!Next
       /\ UNCHANGED <<demo, vars, mapVars, lstVars, sqVars, bstVars>>

MCSpec == MCInit /\ [][MCNext]_mcVars

-----------------------------------------------------------------------------
(***************************************************************************)
(* Every container's blocks are the ones malloc has given out, through     *)
(* growth, failure, unlinking and reversal: nothing is leaked, nothing     *)
(* freed is reachable, every size field counts, nothing lies outside its   *)
(* block, and the queue's tail is its last node. The allocation tour frees *)
(* every block on every path, and a swap is whole or not at all.           *)
(***************************************************************************)
HeapExact ==
    CASE demo = "array" -> Fits /\ MemoryExact
      [] demo = "map"   -> Map!MemoryExact /\ Map!WellPlaced /\ Map!LoadBounded
      [] demo = "list"  -> List!MemoryExact
      [] demo = "stackqueue" -> SQ!MemoryExact /\ SQ!TailIsLast
      [] demo = "tree"  -> /\ Tree!MemoryExact /\ Tree!Ordered
                           /\ Tree!QueriesConform /\ Tree!PreorderCopies
      [] demo = "memory" -> Tour!TourClean /\ Tour!SwapsWhole

(***************************************************************************)
(* The hash table implements a dictionary, and each call does and returns  *)
(* what the dictionary's call of that name does.                           *)
(***************************************************************************)
IsDictionary == Map!IsDictionary /\ Map!CallsConform

(***************************************************************************)
(* The linked list is a sequence to its callers, each operation with the   *)
(* effect of its name; the stack is last in first out, the queue first in  *)
(* first out, and neither touches the other.                               *)
(***************************************************************************)
ListsConform == List!OperationsConform /\ SQ!LifoAndFifo

\* The search tree is a set to its callers, duplicates and absent values included.
TreeConforms == Tree!OperationsConform
=============================================================================
