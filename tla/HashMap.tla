------------------------------- MODULE HashMap -------------------------------
(***************************************************************************)
(* Exercise 18: the chained hash table.  A bucket is the sequence of its   *)
(* chain's entries, head first.  The HashMap, its array of buckets, each   *)
(* entry and each entry's own copy of its key are heap blocks, known by    *)
(* their addresses; blocks is the set of those malloc and calloc have      *)
(* given out and nobody has freed.  The hash function is a parameter, so   *)
(* every collision pattern of hash_djb2 is some value of it.               *)
(***************************************************************************)
EXTENDS Integers, Sequences, FiniteSets, SequencesExt, FiniteSetsExt,
        WellFoundedInduction, FiniteSetTheorems, FunctionTheorems,
        SequenceTheorems, TLAPS

CONSTANTS Keys, Values, None,
          INITIAL_CAPACITY,
          HashFns,         \* the hash functions to try
          MaxAddr          \* bound on the blocks in use: addresses are 1 .. MaxAddr

HashAssumption ==
    /\ HashFns \subseteq [Keys -> Nat]
    /\ INITIAL_CAPACITY \in Nat \ {0} /\ MaxAddr \in Nat \ {0, 1}
    /\ None \notin Values

VARIABLES hash,            \* hash_djb2, fixed for a run
          capacity, buckets, count,
          self, bkts,      \* the blocks of the HashMap and of its bucket array
          blocks,
          ret              \* the last call's result

vars == <<hash, capacity, buckets, count, self, bkts, blocks, ret>>

bucket_index(key, cap) == hash[key] % cap

\* The places of the table's entries, and the entry at one.
Entries == UNION {{i} \X DOMAIN buckets[i] : i \in 0 .. capacity - 1}
Entry(p) == buckets[p[1]][p[2]]

\* The keys of a chain, and the position of one: strcmp along the chain.
Holds(chain, key) == \E i \in DOMAIN chain : chain[i].key = key
Find(chain, key) == CHOOSE i \in DOMAIN chain : chain[i].key = key

\* An address that is in no use.
malloc(heap) == Min((1 .. MaxAddr) \ heap)

\* hmap_create
Init ==
    /\ hash \in HashFns
    /\ capacity = INITIAL_CAPACITY
    /\ count = 0
    /\ buckets = [i \in 0 .. INITIAL_CAPACITY - 1 |-> <<>>]
    /\ self = malloc({}) /\ bkts = malloc({self})
    /\ blocks = {self, bkts}
    /\ ret = <<>>

\* An entry with a heap copy of its key.
entry_create(key, value, heap) ==
    LET e == malloc(heap)
    IN [key |-> key, value |-> value, addr |-> e, copy |-> malloc(heap \cup {e})]

\* An entry becomes the head of the chain its key belongs to.
prepend(table, cap, e) == [table EXCEPT ![bucket_index(e.key, cap)] = <<e>> \o @]

\* rehash, the inner loop: the entries of a chain, head first.
move_chain(table, cap, chain) ==
    LET moved[j \in 0 .. Len(chain)] ==
            IF j = 0 THEN table ELSE prepend(moved[j - 1], cap, chain[j])
    IN moved[Len(chain)]

\* rehash: the chains of the old buckets are moved one after the other to a
\* new array,
rehash(cap) ==
    LET moved[i \in 0 .. capacity] ==
            IF i = 0 THEN [b \in 0 .. cap - 1 |-> <<>>]
            ELSE move_chain(moved[i - 1], cap, buckets[i - 1])
    IN moved[capacity]

\* their entries are counted again from 0,
rehash_count ==
    LET counted[i \in 0 .. capacity] ==
            IF i = 0 THEN 0 ELSE counted[i - 1] + Len(buckets[i - 1])
    IN counted[capacity]

\* Wrong: the old array is forgotten.
rehash_blocks_leak == blocks \cup {malloc(blocks)}

\* and the old array is freed after the new one was allocated.
rehash_blocks == (blocks \cup {malloc(blocks)}) \ {bkts}

\* (double)(count + 1) / capacity > 0.75
overloaded(n) == 4 * n > 3 * capacity

\* Wrong: the index computed before the rehash is used after it.
new_index_stale(key, cap) == bucket_index(key, capacity)

\* The index is computed again after a rehash.
new_index(key, cap) == bucket_index(key, cap)

\* An existing key is updated; otherwise the table grows if it must and the
\* new entry is prepended to the chain its key belongs to then.
hmap_put(key, value) ==
    LET idx == bucket_index(key, capacity)
    IN IF Holds(buckets[idx], key)
       THEN /\ buckets' = [buckets EXCEPT ![idx][Find(buckets[idx], key)].value = value]
            /\ ret' = <<>>
            /\ UNCHANGED <<hash, capacity, count, self, bkts, blocks>>
       ELSE /\ Cardinality(blocks) + 2 <= MaxAddr
            /\ LET grow == overloaded(count + 1)
                   cap == IF grow THEN 2 * capacity ELSE capacity
                   table == IF grow THEN rehash(cap) ELSE buckets
                   heap == IF grow THEN rehash_blocks ELSE blocks
                   e == entry_create(key, value, heap)
               IN /\ capacity' = cap
                  /\ buckets' = [table EXCEPT ![new_index(key, cap)] = <<e>> \o @]
                  /\ count' = (IF grow THEN rehash_count ELSE count) + 1
                  /\ bkts' = IF grow THEN malloc(blocks) ELSE bkts
                  /\ blocks' = heap \cup {e.addr, e.copy}
            /\ ret' = <<>>
            /\ UNCHANGED <<hash, self>>

hmap_get(key) ==
    /\ LET chain == buckets[bucket_index(key, capacity)]
       IN ret' = IF Holds(chain, key) THEN <<1, chain[Find(chain, key)].value>>
                 ELSE <<0>>
    /\ UNCHANGED <<hash, capacity, buckets, count, self, bkts, blocks>>

\* Unlink the entry from its predecessor (or the bucket), free its key and it.
hmap_delete(key) ==
    LET idx == bucket_index(key, capacity)
        chain == buckets[idx]
    IN IF Holds(chain, key)
       THEN /\ buckets' = [buckets EXCEPT ![idx] = RemoveAt(chain, Find(chain, key))]
            /\ blocks' = blocks \ {chain[Find(chain, key)].copy, chain[Find(chain, key)].addr}
            /\ count' = count - 1
            /\ ret' = <<1>>
            /\ UNCHANGED <<hash, capacity, self, bkts>>
       ELSE /\ ret' = <<0>>
            /\ UNCHANGED <<hash, capacity, buckets, count, self, bkts, blocks>>

\* hmap_free: the key and the entry of every place, the array and the HashMap.
left_by_free ==
    blocks \ ({Entry(p).copy : p \in Entries} \cup {Entry(p).addr : p \in Entries}
                \cup {bkts, self})

\* The table is freed, and hmap_create makes the next one.
hmap_free ==
    /\ capacity' = INITIAL_CAPACITY
    /\ count' = 0
    /\ buckets' = [i \in 0 .. INITIAL_CAPACITY - 1 |-> <<>>]
    /\ self' = malloc(left_by_free) /\ bkts' = malloc(left_by_free \cup {self'})
    /\ blocks' = left_by_free \cup {self', bkts'}
    /\ ret' = <<>>
    /\ UNCHANGED hash

Next ==
    \/ hmap_free
    \/ \E key \in Keys :
           \/ hmap_get(key)
           \/ hmap_delete(key)
           \/ \E value \in Values : hmap_put(key, value)

Spec == Init /\ [][Next]_vars

-----------------------------------------------------------------------------
(***************************************************************************)
(* Each key is in at most one entry, and that one in the bucket its hash   *)
(* selects now: a lookup finds a key wherever the table has grown to.      *)
(***************************************************************************)
WellPlaced ==
    /\ \A p \in Entries : bucket_index(Entry(p).key, capacity) = p[1]
    /\ \A p, q \in Entries : Entry(p).key = Entry(q).key => p = q

(***************************************************************************)
(* count is the number of entries, and the blocks in use are exactly the   *)
(* HashMap, its present array, the entries and their keys' copies, no two  *)
(* of them the same: nothing is leaked by an update, a delete or a growth, *)
(* nothing freed is still linked, and hmap_free leaves nothing behind.     *)
(***************************************************************************)
MemoryExact ==
    /\ count = Cardinality(Entries)
    /\ blocks = {self, bkts} \cup {Entry(p).addr : p \in Entries}
                             \cup {Entry(p).copy : p \in Entries}
    /\ Cardinality(blocks) = 2 + 2 * count

\* The table is never more than three quarters full (comment on hmap_put).
LoadBounded == 4 * count <= 3 * capacity

\* The dictionary the table represents.
Dict == [k \in Keys |->
            IF \E p \in Entries : Entry(p).key = k
            THEN Entry(CHOOSE p \in Entries : Entry(p).key = k).value
            ELSE None]

KV == INSTANCE KeyValue WITH dict <- Dict

\* The table implements a dictionary.
IsDictionary == KV!Spec

(***************************************************************************)
(* And each call does, and returns, what KeyValue says of that call for    *)
(* the same key and value.                                                 *)
(***************************************************************************)
CallsConform ==
    [][ /\ \A k \in Keys :
             /\ hmap_get(k) => KV!Get(k)
             /\ hmap_delete(k) => KV!Delete(k)
             /\ \A v \in Values : hmap_put(k, v) => KV!Put(k, v)
        /\ hmap_free => KV!Renew ]_vars

-----------------------------------------------------------------------------
(***************************************************************************)
(* The proofs.  They are about the set of entries a table holds, without   *)
(* regard to where: every call does to that set what the dictionary's call *)
(* does.  Where the entries are is Chained.                                *)
(***************************************************************************)
EntryType == [key : Keys, value : Values, addr : 1 .. MaxAddr, copy : 1 .. MaxAddr]

\* The bucket of a key, for a hash function h.
Slot(h, key, cap) == h[key] % cap

(***************************************************************************)
(* The table holds the entries E: each of them in the chain its key        *)
(* belongs to, nothing else, and no key twice.                             *)
(***************************************************************************)
Chained(h, table, cap, E) ==
    /\ E \subseteq EntryType
    /\ table \in [0 .. cap - 1 -> Seq(EntryType)]
    /\ \A i \in 0 .. cap - 1 : \A j \in 1 .. Len(table[i]) :
         table[i][j] \in E /\ Slot(h, table[i][j].key, cap) = i
    /\ \A e \in E : \E j \in 1 .. Len(table[Slot(h, e.key, cap)]) :
         table[Slot(h, e.key, cap)][j] = e
    /\ \A i \in 0 .. cap - 1 : \A j, k \in 1 .. Len(table[i]) :
         table[i][j].key = table[i][k].key => j = k

\* A key belongs to one of the buckets.
LEMMA SlotRange ==
    ASSUME NEW h \in [Keys -> Nat], NEW key \in Keys, NEW cap \in Nat \ {0}
    PROVE  Slot(h, key, cap) \in 0 .. cap - 1
<1>1. h[key] \in Nat
  OBVIOUS
<1>2. \A a \in Nat : a % cap \in 0 .. cap - 1
  OBVIOUS
<1> QED BY <1>1, <1>2 DEF Slot

\* A key is in one entry at most.
LEMMA OneEntry ==
    ASSUME NEW h \in [Keys -> Nat], NEW cap \in Nat \ {0}, NEW table, NEW E,
           Chained(h, table, cap, E), NEW e \in E, NEW f \in E, e.key = f.key
    PROVE  e = f
<1> DEFINE i == Slot(h, e.key, cap)
<1>1. i \in 0 .. cap - 1
  BY SlotRange DEF Chained, EntryType
<1>2. PICK j \in 1 .. Len(table[i]) : table[i][j] = e
  BY DEF Chained
<1>3. PICK k \in 1 .. Len(table[i]) : table[i][k] = f
  BY DEF Chained
<1>4. j = k
  BY <1>1, <1>2, <1>3 DEF Chained
<1> QED BY <1>2, <1>3, <1>4

\* A new table holds nothing.
LEMMA EmptyTable ==
    ASSUME NEW h \in [Keys -> Nat], NEW cap \in Nat \ {0}
    PROVE  Chained(h, [b \in 0 .. cap - 1 |-> <<>>], cap, {})
<1> DEFINE table == [b \in 0 .. cap - 1 |-> <<>>]
<1>1. table \in [0 .. cap - 1 -> Seq(EntryType)]
  OBVIOUS
<1>2. \A i \in 0 .. cap - 1 : 1 .. Len(table[i]) = {}
  OBVIOUS
<1> HIDE DEF table
<1> QED BY <1>1, <1>2 DEF Chained, table

\* An entry with a new key is added.
LEMMA Prepended ==
    ASSUME hash \in [Keys -> Nat], NEW cap \in Nat \ {0}, NEW table, NEW E,
           Chained(hash, table, cap, E), NEW e \in EntryType,
           \A f \in E : f.key # e.key
    PROVE  Chained(hash, prepend(table, cap, e), cap, E \cup {e})
<1> DEFINE b == Slot(hash, e.key, cap)
           new == [table EXCEPT ![b] = <<e>> \o table[b]]
<1>1. prepend(table, cap, e) = new
  BY DEF prepend, bucket_index, Slot
<1>2. b \in 0 .. cap - 1 /\ table \in [0 .. cap - 1 -> Seq(EntryType)]
  BY SlotRange DEF Chained, EntryType
<1>3. /\ table[b] \in Seq(EntryType) /\ <<e>> \in Seq(EntryType)
      /\ Len(table[b]) \in Nat
  BY <1>2
<1> DEFINE chain == <<e>> \o table[b]
<1>4. /\ chain \in Seq(EntryType) /\ Len(chain) = Len(table[b]) + 1 /\ chain[1] = e
      /\ \A j \in 1 .. Len(table[b]) : chain[j + 1] = table[b][j]
      /\ \A j \in 2 .. Len(chain) : chain[j] = table[b][j - 1]
  BY <1>3
<1>5. /\ new \in [0 .. cap - 1 -> Seq(EntryType)]
      /\ new[b] = chain /\ \A i \in 0 .. cap - 1 : i # b => new[i] = table[i]
  BY <1>2, <1>4
<1> HIDE DEF new, chain, b
<1>6. ASSUME NEW i \in 0 .. cap - 1, NEW j \in 1 .. Len(new[i])
      PROVE  new[i][j] \in E \cup {e} /\ Slot(hash, new[i][j].key, cap) = i
  <2>1. CASE i # b
    BY <1>5, <2>1 DEF Chained
  <2>2. CASE i = b /\ j = 1
    BY <1>4, <1>5, <2>2 DEF b
  <2>3. CASE i = b /\ j # 1
    <3>1. j - 1 \in 1 .. Len(table[b]) /\ new[i][j] = table[b][j - 1]
      BY <1>3, <1>4, <1>5, <2>3
    <3>2. table[b][j - 1] \in E /\ Slot(hash, table[b][j - 1].key, cap) = b
      BY <1>2, <3>1 DEF Chained
    <3> QED BY <2>3, <3>1, <3>2
  <2> QED BY <2>1, <2>2, <2>3
<1>7. ASSUME NEW f \in E \cup {e}
      PROVE  \E j \in 1 .. Len(new[Slot(hash, f.key, cap)]) :
               new[Slot(hash, f.key, cap)][j] = f
  <2>1. CASE f = e
    <3>1. 1 \in 1 .. Len(new[b]) /\ new[b][1] = f
      BY <1>3, <1>4, <1>5, <2>1
    <3> QED BY <2>1, <3>1 DEF b
  <2>2. CASE f \in E
    <3> DEFINE i == Slot(hash, f.key, cap)
    <3>1. i \in 0 .. cap - 1
      BY <2>2, SlotRange DEF Chained, EntryType
    <3>2. PICK j \in 1 .. Len(table[i]) : table[i][j] = f
      BY <2>2 DEF Chained
    <3> HIDE DEF i
    <3>3. CASE i # b
      BY <1>5, <3>1, <3>2, <3>3 DEF i
    <3>4. CASE i = b
      <4>1. j + 1 \in 1 .. Len(new[i]) /\ new[i][j + 1] = f
        BY SMTT(30), <1>3, <1>4, <1>5, <3>2, <3>4
      <4> QED BY <4>1 DEF i
    <3> QED BY <3>3, <3>4
  <2> QED BY <2>1, <2>2
<1>8. ASSUME NEW i \in 0 .. cap - 1, NEW j \in 1 .. Len(new[i]), NEW k \in 1 .. Len(new[i]),
             new[i][j].key = new[i][k].key
      PROVE  j = k
  <2>1. CASE i # b
    BY <1>5, <1>8, <2>1 DEF Chained
  <2>2. CASE i = b
    <3>1. \A x \in 1 .. Len(new[i]) : x # 1 =>
            /\ x - 1 \in 1 .. Len(table[b]) /\ new[i][x] = table[b][x - 1]
            /\ table[b][x - 1] \in E
      <4> SUFFICES ASSUME NEW x \in 1 .. Len(new[i]), x # 1
                   PROVE  /\ x - 1 \in 1 .. Len(table[b]) /\ new[i][x] = table[b][x - 1]
                          /\ table[b][x - 1] \in E
        OBVIOUS
      <4>1. x - 1 \in 1 .. Len(table[b]) /\ new[i][x] = table[b][x - 1]
        BY <1>3, <1>4, <1>5, <2>2
      <4> QED BY <1>2, <4>1 DEF Chained
    <3>2. new[i][1].key = e.key
      BY <1>4, <1>5, <2>2
    <3>3. CASE j = 1 /\ k # 1
      BY <1>8, <3>1, <3>2, <3>3
    <3>4. CASE k = 1 /\ j # 1
      BY <1>8, <3>1, <3>2, <3>4
    <3>5. CASE j # 1 /\ k # 1
      <4>1. \A x, y \in 1 .. Len(table[b]) : table[b][x].key = table[b][y].key => x = y
        BY <1>2 DEF Chained
      <4>2. /\ j - 1 \in 1 .. Len(table[b]) /\ k - 1 \in 1 .. Len(table[b])
            /\ table[b][j - 1].key = table[b][k - 1].key
        BY <1>8, <3>1, <3>5
      <4>3. j - 1 = k - 1
        BY <4>1, <4>2
      <4> QED BY <4>3
    <3> QED BY <3>3, <3>4, <3>5
  <2> QED BY <2>1, <2>2
<1>9. E \cup {e} \subseteq EntryType
  BY DEF Chained
<1>10. Chained(hash, new, cap, E \cup {e})
  BY <1>5, <1>6, <1>7, <1>8, <1>9 DEF Chained
<1> QED BY <1>1, <1>10

-----------------------------------------------------------------------------
\* A non-empty set of natural numbers has a least element.
LEMMA LeastNumber ==
    ASSUME NEW S \in SUBSET Nat, S # {}
    PROVE  \E x \in S : \A y \in S : x <= y
<1> DEFINE Less == {ss \in Nat \X Nat : ss[1] < ss[2]}
<1>1. IsWellFoundedOn(Less, Nat)
  BY NatLessThanWellFounded, Zenon DEF OpToRel
<1>2. \A a, b \in Nat : a < b => <<a, b>> \in Less
  OBVIOUS
<1> HIDE DEF Less
<1>3. PICK x \in S : \A y \in S : ~ (<<y, x>> \in Less)
  BY <1>1, WFMin
<1>4. ASSUME NEW y \in S PROVE x <= y
  <2>1. x \in Nat /\ y \in Nat /\ ~ (<<y, x>> \in Less)
    BY <1>3
  <2>2. ~ (y < x)
    BY <1>2, <2>1
  <2> QED BY <2>1, <2>2
<1> QED BY <1>4

\* f is the table after each entry of a chain, or after each chain of a table.
Entrywise(table, cap, chain, n, f) ==
    f = [j \in 0 .. n |-> IF j = 0 THEN table ELSE prepend(f[j - 1], cap, chain[j])]

Chainwise(cap, n, f) ==
    f = [i \in 0 .. n |-> IF i = 0 THEN [b \in 0 .. cap - 1 |-> <<>>]
                          ELSE move_chain(f[i - 1], cap, buckets[i - 1])]

\* The inner loop of rehash is defined for chains of every length.
LEMMA EntrywiseExists ==
    ASSUME NEW table, NEW cap, NEW chain, NEW n \in Nat
    PROVE  \E f : Entrywise(table, cap, chain, n, f)
<1> DEFINE T == {b \in Nat : ~ \E f : Entrywise(table, cap, chain, b, f)}
<1> SUFFICES ASSUME T # {} PROVE FALSE
  OBVIOUS
<1>1. PICK b \in T : \A y \in T : b <= y
  BY LeastNumber
<1>2. CASE b = 0
  <2> DEFINE f == [j \in 0 .. 0 |-> table]
  <2>1. \A j \in 0 .. 0 : j = 0
    OBVIOUS
  <2>2. f = [j \in 0 .. 0 |-> IF j = 0 THEN table ELSE prepend(f[j - 1], cap, chain[j])]
    BY <2>1
  <2>3. Entrywise(table, cap, chain, 0, f)
    BY <2>2 DEF Entrywise
  <2> QED BY <1>1, <1>2, <2>3
<1>3. CASE b # 0
  <2>1. b \in Nat /\ b - 1 \in Nat /\ b - 1 \notin T
    BY <1>1, <1>3
  <2>2. PICK f : Entrywise(table, cap, chain, b - 1, f)
    BY <2>1
  <2> DEFINE Next1(g, j) == IF j = 0 THEN table ELSE prepend(g[j - 1], cap, chain[j])
             h == [j \in 0 .. b |-> IF j < b THEN f[j] ELSE Next1(f, j)]
  <2>3. \A j \in 0 .. b - 1 : f[j] = Next1(f, j)
    BY <2>2 DEF Entrywise
  <2>4. ASSUME NEW j \in 0 .. b PROVE h[j] = Next1(h, j)
    <3>1. j = 0 \/ (j - 1 \in 0 .. b /\ j - 1 < b)
      BY <2>1
    <3>2. j # 0 => h[j - 1] = f[j - 1]
      BY <3>1
    <3>3. Next1(h, j) = Next1(f, j)
      BY <3>2
    <3>4. CASE j < b
      <4>1. j \in 0 .. b - 1 /\ h[j] = f[j]
        BY <2>1, <3>4
      <4> QED BY <2>3, <3>3, <4>1
    <3>5. CASE j = b
      <4>1. h[j] = Next1(f, j)
        BY <2>1, <3>5
      <4> QED BY <3>3, <4>1
    <3> QED BY <2>1, <3>4, <3>5
  <2>5. h = [j \in 0 .. b |-> Next1(h, j)]
    <3>1. h = [j \in 0 .. b |-> h[j]]
      OBVIOUS
    <3> HIDE DEF h, Next1
    <3> QED BY <2>4, <3>1
  <2> HIDE DEF h
  <2>6. Entrywise(table, cap, chain, b, h)
    BY <2>5 DEF Entrywise
  <2> QED BY <1>1, <2>6
<1> QED BY <1>2, <1>3

\* So is the outer loop for tables of every size.
LEMMA ChainwiseExists ==
    ASSUME NEW cap, NEW n \in Nat
    PROVE  \E f : Chainwise(cap, n, f)
<1> DEFINE T == {b \in Nat : ~ \E f : Chainwise(cap, b, f)}
           empty == [b \in 0 .. cap - 1 |-> <<>>]
<1> SUFFICES ASSUME T # {} PROVE FALSE
  OBVIOUS
<1>1. PICK b \in T : \A y \in T : b <= y
  BY LeastNumber
<1>2. CASE b = 0
  <2> DEFINE f == [j \in 0 .. 0 |-> empty]
  <2>1. \A j \in 0 .. 0 : j = 0
    OBVIOUS
  <2>2. f = [i \in 0 .. 0 |-> IF i = 0 THEN empty
                              ELSE move_chain(f[i - 1], cap, buckets[i - 1])]
    BY <2>1
  <2>3. Chainwise(cap, 0, f)
    BY <2>2 DEF Chainwise
  <2> QED BY <1>1, <1>2, <2>3
<1>3. CASE b # 0
  <2>1. b \in Nat /\ b - 1 \in Nat /\ b - 1 \notin T
    BY <1>1, <1>3
  <2>2. PICK f : Chainwise(cap, b - 1, f)
    BY <2>1
  <2> DEFINE Next1(g, i) == IF i = 0 THEN empty ELSE move_chain(g[i - 1], cap, buckets[i - 1])
             h == [j \in 0 .. b |-> IF j < b THEN f[j] ELSE Next1(f, j)]
  <2>3. \A j \in 0 .. b - 1 : f[j] = Next1(f, j)
    BY <2>2 DEF Chainwise
  <2>4. ASSUME NEW j \in 0 .. b PROVE h[j] = Next1(h, j)
    <3>1. j = 0 \/ (j - 1 \in 0 .. b /\ j - 1 < b)
      BY <2>1
    <3>2. j # 0 => h[j - 1] = f[j - 1]
      BY <3>1
    <3>3. Next1(h, j) = Next1(f, j)
      BY <3>2
    <3>4. CASE j < b
      <4>1. j \in 0 .. b - 1 /\ h[j] = f[j]
        BY <2>1, <3>4
      <4> QED BY <2>3, <3>3, <4>1
    <3>5. CASE j = b
      <4>1. h[j] = Next1(f, j)
        BY <2>1, <3>5
      <4> QED BY <3>3, <4>1
    <3> QED BY <2>1, <3>4, <3>5
  <2>5. h = [j \in 0 .. b |-> Next1(h, j)]
    <3>1. h = [j \in 0 .. b |-> h[j]]
      OBVIOUS
    <3> HIDE DEF h, Next1
    <3> QED BY <2>4, <3>1
  <2> HIDE DEF h
  <2>6. Chainwise(cap, b, h)
    BY <2>5 DEF Chainwise
  <2> QED BY <1>1, <2>6
<1> QED BY <1>2, <1>3

\* The first j entries of a chain.
Upto(chain, j) == {chain[x] : x \in 1 .. j}

\* Moving a chain adds its entries, if their keys are new and differ.
LEMMA ChainMoved ==
    ASSUME hash \in [Keys -> Nat], NEW cap \in Nat \ {0}, NEW table, NEW E,
           Chained(hash, table, cap, E), NEW chain \in Seq(EntryType),
           \A x \in 1 .. Len(chain) : \A f \in E : f.key # chain[x].key,
           \A x, y \in 1 .. Len(chain) : chain[x].key = chain[y].key => x = y
    PROVE  Chained(hash, move_chain(table, cap, chain), cap, E \cup Upto(chain, Len(chain)))
<1> DEFINE n == Len(chain)
           Eq(f) == f = [j \in 0 .. n |-> IF j = 0 THEN table ELSE prepend(f[j - 1], cap, chain[j])]
           m == CHOOSE f : Eq(f)
<1>1. n \in Nat
  OBVIOUS
<1>2. move_chain(table, cap, chain) = m[n]
  BY DEF move_chain
<1>3. \E f : Eq(f)
  <2> HIDE DEF n
  <2>1. PICK f : Entrywise(table, cap, chain, n, f)
    BY <1>1, EntrywiseExists
  <2>2. Eq(f)
    BY <2>1 DEF Entrywise
  <2> QED BY <2>2
<1>4. Eq(m)
  <2> HIDE DEF Eq
  <2> QED BY <1>3
<1>5. \A j \in 0 .. n : m[j] = IF j = 0 THEN table ELSE prepend(m[j - 1], cap, chain[j])
  <2> HIDE DEF m, n
  <2> QED BY <1>4
<1> HIDE DEF m, Eq
<1> DEFINE Right(j) == Chained(hash, m[j], cap, E \cup Upto(chain, j))
           Bad == {j \in 0 .. n : ~ Right(j)}
<1>6. Bad = {}
  <2> SUFFICES ASSUME Bad # {} PROVE FALSE
    OBVIOUS
  <2> HIDE DEF n
  <2>1. PICK j \in Bad : \A y \in Bad : j <= y
    <3>1. Bad \in SUBSET Nat
      OBVIOUS
    <3> QED BY <3>1, LeastNumber
  <2>2. CASE j = 0
    <3>1. m[0] = table
      BY <1>1, <1>5
    <3>2. E \cup Upto(chain, 0) = E
      BY DEF Upto
    <3> QED BY <2>1, <2>2, <3>1, <3>2
  <2>3. CASE j # 0
    <3>1. j \in 1 .. n /\ j - 1 \in 0 .. n /\ j - 1 < j
      BY <1>1, <2>1, <2>3
    <3>2. Right(j - 1)
      <4>1. ~ (j <= j - 1)
        BY <1>1, <3>1
      <4>2. j - 1 \notin Bad
        <5> HIDE DEF Bad
        <5> QED BY <2>1, <4>1
      <4> HIDE DEF Right
      <4> QED BY <3>1, <4>2
    <3>3. m[j] = prepend(m[j - 1], cap, chain[j])
      BY <1>5, <2>1, <2>3
    <3>4. chain[j] \in EntryType
      BY <3>1 DEF n
    <3>5. \A f \in E \cup Upto(chain, j - 1) : f.key # chain[j].key
      <4> SUFFICES ASSUME NEW f \in E \cup Upto(chain, j - 1) PROVE f.key # chain[j].key
        OBVIOUS
      <4>1. CASE f \in E
        BY <3>1, <4>1 DEF n
      <4>2. CASE f \in Upto(chain, j - 1)
        <5>1. PICK x \in 1 .. j - 1 : f = chain[x]
          BY <4>2 DEF Upto
        <5>2. x \in 1 .. Len(chain) /\ j \in 1 .. Len(chain) /\ x # j
          BY <1>1, <3>1, <5>1 DEF n
        <5> QED BY <5>1, <5>2
      <4> QED BY <4>1, <4>2
    <3>6. Chained(hash, m[j], cap, (E \cup Upto(chain, j - 1)) \cup {chain[j]})
      BY <3>2, <3>3, <3>4, <3>5, Prepended
    <3>7. (E \cup Upto(chain, j - 1)) \cup {chain[j]} = E \cup Upto(chain, j)
      <4>1. 1 .. j = (1 .. j - 1) \cup {j}
        BY <3>1
      <4> QED BY <4>1 DEF Upto
    <3> QED BY <2>1, <3>6, <3>7
  <2> QED BY <2>2, <2>3
<1>7. Right(n)
  <2>1. n \in 0 .. n
    BY <1>1
  <2> HIDE DEF Right
  <2> QED BY <1>6, <2>1
<1> QED BY <1>2, <1>7

\* rehash moves every entry and none twice, for any larger number of buckets.
LEMMA Rehashed ==
    ASSUME hash \in [Keys -> Nat], capacity \in Nat \ {0}, NEW cap \in Nat \ {0},
           NEW E, Chained(hash, buckets, capacity, E)
    PROVE  Chained(hash, rehash(cap), cap, E)
<1> DEFINE n == capacity
           empty == [b \in 0 .. cap - 1 |-> <<>>]
           Eq(f) == f = [i \in 0 .. n |-> IF i = 0 THEN empty
                                          ELSE move_chain(f[i - 1], cap, buckets[i - 1])]
           m == CHOOSE f : Eq(f)
           Moved(i) == {e \in E : Slot(hash, e.key, capacity) < i}
<1>1. n \in Nat
  OBVIOUS
<1>2. rehash(cap) = m[n]
  BY DEF rehash
<1>3. \E f : Eq(f)
  <2> HIDE DEF n
  <2>1. PICK f : Chainwise(cap, n, f)
    BY <1>1, ChainwiseExists
  <2>2. Eq(f)
    BY <2>1 DEF Chainwise
  <2> QED BY <2>2
<1>4. Eq(m)
  <2> HIDE DEF Eq
  <2> QED BY <1>3
<1>5. \A i \in 0 .. n : m[i] = IF i = 0 THEN empty ELSE move_chain(m[i - 1], cap, buckets[i - 1])
  <2> HIDE DEF m, n, empty
  <2> QED BY <1>4
<1> HIDE DEF m, Eq
<1>6. \A e \in E : Slot(hash, e.key, capacity) \in 0 .. n - 1
  BY SlotRange DEF Chained, EntryType
<1> DEFINE Right(i) == Chained(hash, m[i], cap, Moved(i))
           Bad == {i \in 0 .. n : ~ Right(i)}
<1>7. Bad = {}
  <2> SUFFICES ASSUME Bad # {} PROVE FALSE
    OBVIOUS
  <2> HIDE DEF empty
  <2>1. PICK i \in Bad : \A y \in Bad : i <= y
    <3>1. Bad \in SUBSET Nat
      OBVIOUS
    <3> QED BY <3>1, LeastNumber
  <2>2. CASE i = 0
    <3>1. m[0] = empty
      BY <1>1, <1>5
    <3>2. Moved(0) = {}
      BY <1>6
    <3>3. Chained(hash, empty, cap, {})
      BY EmptyTable DEF empty
    <3> QED BY <2>1, <2>2, <3>1, <3>2, <3>3
  <2>3. CASE i # 0
    <3> DEFINE b == i - 1
               chain == buckets[b]
    <3>1. i \in 1 .. n /\ b \in 0 .. n /\ b < i /\ b \in 0 .. n - 1
      BY <1>1, <2>1, <2>3
    <3>2. Right(b)
      <4>1. b \notin Bad
        BY <1>1, <2>1, <3>1
      <4> HIDE DEF Right, b
      <4> QED BY <3>1, <4>1
    <3>3. m[i] = move_chain(m[b], cap, chain)
      BY <1>5, <2>1, <2>3
    <3>4. /\ chain \in Seq(EntryType)
          /\ \A x \in 1 .. Len(chain) : chain[x] \in E /\ Slot(hash, chain[x].key, capacity) = b
          /\ \A x, y \in 1 .. Len(chain) : chain[x].key = chain[y].key => x = y
          /\ \A e \in E : Slot(hash, e.key, capacity) = b =>
               \E x \in 1 .. Len(chain) : chain[x] = e
      BY <3>1 DEF Chained
    <3> HIDE DEF b, chain
    <3>5. \A x \in 1 .. Len(chain) : \A f \in Moved(b) : f.key # chain[x].key
      <4> SUFFICES ASSUME NEW x \in 1 .. Len(chain), NEW f \in Moved(b), f.key = chain[x].key
                   PROVE  FALSE
        OBVIOUS
      <4>1. Slot(hash, f.key, capacity) < b /\ Slot(hash, f.key, capacity) = b
        BY <3>4
      <4> QED BY <1>1, <3>1, <4>1
    <3>6. Chained(hash, m[i], cap, Moved(b) \cup Upto(chain, Len(chain)))
      <4>1. Chained(hash, m[b], cap, Moved(b))
        BY <3>2
      <4> HIDE DEF Moved
      <4> QED BY <3>3, <3>4, <3>5, <4>1, ChainMoved
    <3>7. Upto(chain, Len(chain)) = {e \in E : Slot(hash, e.key, capacity) = b}
      <4>1. \A e \in Upto(chain, Len(chain)) : e \in E /\ Slot(hash, e.key, capacity) = b
        BY <3>4 DEF Upto
      <4>2. \A e \in E : Slot(hash, e.key, capacity) = b => e \in Upto(chain, Len(chain))
        BY <3>4 DEF Upto
      <4> QED BY <4>1, <4>2
    <3>8. Moved(b) \cup Upto(chain, Len(chain)) = Moved(i)
      <4>1. \A e \in E : Slot(hash, e.key, capacity) < i <=>
              Slot(hash, e.key, capacity) < b \/ Slot(hash, e.key, capacity) = b
        BY <1>1, <1>6, <3>1 DEF b
      <4> QED BY <3>7, <4>1
    <3> QED BY <2>1, <3>6, <3>8
  <2> QED BY <2>2, <2>3
<1>8. Right(n)
  <2>1. n \in 0 .. n
    BY <1>1
  <2> HIDE DEF Right
  <2> QED BY <1>7, <2>1
<1>9. Moved(n) = E
  BY <1>1, <1>6
<1> QED BY <1>2, <1>8, <1>9

-----------------------------------------------------------------------------
\* The entries of a table, and the dictionary they are.
Held(table, cap) ==
    {table[p[1]][p[2]] : p \in UNION {{i} \X DOMAIN table[i] : i \in 0 .. cap - 1}}
Stored == Held(buckets, capacity)

Value(E, k) == IF \E e \in E : e.key = k THEN (CHOOSE e \in E : e.key = k).value ELSE None
Mapping(E) == [k \in Keys |-> Value(E, k)]

(***************************************************************************)
(* The blocks of a table with the entries E: its own two, and two for each *)
(* entry, all different.                                                   *)
(***************************************************************************)
OwnBlocks(heap, s, b, E) ==
    /\ heap = {s, b} \cup {e.addr : e \in E} \cup {e.copy : e \in E}
    /\ heap \subseteq 1 .. MaxAddr
    /\ s # b
    /\ \A e \in E : e.addr \notin {s, b} /\ e.copy \notin {s, b}
    /\ \A e, f \in E : e.addr # f.copy
    /\ \A e, f \in E : e.addr = f.addr \/ e.copy = f.copy => e = f

(***************************************************************************)
(* The inductive invariant: besides where the entries are and how many,    *)
(* that no two of them share a block, so that freeing one entry's blocks   *)
(* frees no other's.                                                       *)
(***************************************************************************)
TableOf(h, table, cap, n, s, b, heap, E) ==
    /\ h \in [Keys -> Nat] /\ cap \in Nat \ {0} /\ n \in Nat
    /\ Chained(h, table, cap, E)
    /\ OwnBlocks(heap, s, b, E)
    /\ IsFiniteSet(E) /\ n = Cardinality(E) /\ 4 * n <= 3 * cap

TableInv == TableOf(hash, buckets, capacity, count, self, bkts, blocks, Stored)

\* An entry's blocks are new: the table owns them too.
LEMMA OwnAdded ==
    ASSUME NEW heap, NEW s, NEW b, NEW E, OwnBlocks(heap, s, b, E), NEW e,
           e.addr \in (1 .. MaxAddr) \ heap, e.copy \in (1 .. MaxAddr) \ heap,
           e.addr # e.copy
    PROVE  OwnBlocks(heap \cup {e.addr, e.copy}, s, b, E \cup {e})
<1>1. /\ heap = {s, b} \cup {f.addr : f \in E} \cup {f.copy : f \in E}
      /\ heap \subseteq 1 .. MaxAddr /\ s # b
      /\ \A f \in E : f.addr \notin {s, b} /\ f.copy \notin {s, b}
      /\ \A f, g \in E : f.addr # g.copy
      /\ \A f, g \in E : f.addr = g.addr \/ f.copy = g.copy => f = g
  BY DEF OwnBlocks
<1>2. \A f \in E : f.addr \in heap /\ f.copy \in heap
  BY <1>1
<1>3. s \in heap /\ b \in heap
  BY <1>1
<1>4. heap \cup {e.addr, e.copy} =
        {s, b} \cup {f.addr : f \in E \cup {e}} \cup {f.copy : f \in E \cup {e}}
  BY <1>1
<1>5. heap \cup {e.addr, e.copy} \subseteq 1 .. MaxAddr
  BY <1>1
<1>6. \A f \in E \cup {e} : f.addr \notin {s, b} /\ f.copy \notin {s, b}
  BY <1>1, <1>3
<1>7. \A f, g \in E \cup {e} : f.addr # g.copy
  BY <1>1, <1>2
<1>8. \A f, g \in E \cup {e} : f.addr = g.addr \/ f.copy = g.copy => f = g
  BY <1>1, <1>2
<1> QED BY <1>1, <1>4, <1>5, <1>6, <1>7, <1>8 DEF OwnBlocks

\* An entry's blocks are freed: the others' are left.
LEMMA OwnRemoved ==
    ASSUME NEW heap, NEW s, NEW b, NEW E, OwnBlocks(heap, s, b, E), NEW e \in E
    PROVE  OwnBlocks(heap \ {e.copy, e.addr}, s, b, E \ {e})
<1>1. /\ heap = {s, b} \cup {f.addr : f \in E} \cup {f.copy : f \in E}
      /\ heap \subseteq 1 .. MaxAddr /\ s # b
      /\ \A f \in E : f.addr \notin {s, b} /\ f.copy \notin {s, b}
      /\ \A f, g \in E : f.addr # g.copy
      /\ \A f, g \in E : f.addr = g.addr \/ f.copy = g.copy => f = g
  BY DEF OwnBlocks
<1>2. ASSUME NEW f \in E \ {e} PROVE /\ f.addr \in heap \ {e.copy, e.addr}
                                     /\ f.copy \in heap \ {e.copy, e.addr}
  <2>1. f \in E /\ f # e
    OBVIOUS
  <2>2. f.addr # e.copy /\ f.copy # e.addr /\ f.addr # e.addr /\ f.copy # e.copy
    BY <1>1, <2>1
  <2>3. f.addr \in heap /\ f.copy \in heap
    BY <1>1, <2>1
  <2> QED BY <2>2, <2>3
<1>3. s \in heap \ {e.copy, e.addr} /\ b \in heap \ {e.copy, e.addr}
  BY <1>1
<1>4. ASSUME NEW a \in heap \ {e.copy, e.addr}
      PROVE  a \in {s, b} \cup {f.addr : f \in E \ {e}} \cup {f.copy : f \in E \ {e}}
  BY <1>1
<1>5. heap \ {e.copy, e.addr} =
        {s, b} \cup {f.addr : f \in E \ {e}} \cup {f.copy : f \in E \ {e}}
  BY <1>2, <1>3, <1>4
<1> QED BY <1>1, <1>5 DEF OwnBlocks

\* An entry is changed but keeps its blocks.
LEMMA OwnChanged ==
    ASSUME NEW heap, NEW s, NEW b, NEW E, OwnBlocks(heap, s, b, E), NEW e \in E,
           NEW f, f.addr = e.addr, f.copy = e.copy
    PROVE  OwnBlocks(heap, s, b, (E \ {e}) \cup {f})
<1>1. /\ heap = {s, b} \cup {g.addr : g \in E} \cup {g.copy : g \in E}
      /\ heap \subseteq 1 .. MaxAddr /\ s # b
      /\ \A g \in E : g.addr \notin {s, b} /\ g.copy \notin {s, b}
      /\ \A g, k \in E : g.addr # k.copy
      /\ \A g, k \in E : g.addr = k.addr \/ g.copy = k.copy => g = k
  BY DEF OwnBlocks
<1> DEFINE E2 == (E \ {e}) \cup {f}
<1>2. \A g \in E2 : \E k \in E : g.addr = k.addr /\ g.copy = k.copy
  OBVIOUS
<1>3. \A k \in E : \E g \in E2 : g.addr = k.addr /\ g.copy = k.copy
  OBVIOUS
<1>4. \A g, k \in E2 : g.addr = k.addr \/ g.copy = k.copy => g = k
  BY <1>1
<1> HIDE DEF E2
<1>5. /\ {g.addr : g \in E2} = {g.addr : g \in E}
      /\ {g.copy : g \in E2} = {g.copy : g \in E}
  BY <1>2, <1>3
<1>6. \A g \in E2 : g.addr \notin {s, b} /\ g.copy \notin {s, b}
  BY <1>1, <1>2
<1>7. \A g, k \in E2 : g.addr # k.copy
  BY <1>1, <1>2
<1>8. OwnBlocks(heap, s, b, E2)
  BY <1>1, <1>4, <1>5, <1>6, <1>7 DEF OwnBlocks
<1> QED BY <1>8 DEF E2

\* A new bucket array takes the place of the old one.
LEMMA OwnGrown ==
    ASSUME NEW heap, NEW s, NEW b, NEW E, OwnBlocks(heap, s, b, E),
           NEW c \in (1 .. MaxAddr) \ heap
    PROVE  OwnBlocks((heap \cup {c}) \ {b}, s, c, E)
<1>1. /\ heap = {s, b} \cup {f.addr : f \in E} \cup {f.copy : f \in E}
      /\ heap \subseteq 1 .. MaxAddr /\ s # b
      /\ \A f \in E : f.addr \notin {s, b} /\ f.copy \notin {s, b}
      /\ \A f, g \in E : f.addr # g.copy
      /\ \A f, g \in E : f.addr = g.addr \/ f.copy = g.copy => f = g
  BY DEF OwnBlocks
<1>2. \A f \in E : f.addr \in heap /\ f.copy \in heap
  BY <1>1
<1>3. s # c /\ b # c
  BY <1>1
<1>4. ASSUME NEW a \in (heap \cup {c}) \ {b}
      PROVE  a \in {s, c} \cup {f.addr : f \in E} \cup {f.copy : f \in E}
  BY <1>1
<1>5. ASSUME NEW a \in {s, c} \cup {f.addr : f \in E} \cup {f.copy : f \in E}
      PROVE  a \in (heap \cup {c}) \ {b}
  <2>1. CASE a = s \/ a = c
    BY <1>1, <1>3, <2>1
  <2>2. CASE a \in {f.addr : f \in E} \cup {f.copy : f \in E}
    BY <1>1, <2>2
  <2> QED BY <2>1, <2>2
<1>6. (heap \cup {c}) \ {b} = {s, c} \cup {f.addr : f \in E} \cup {f.copy : f \in E}
  BY <1>4, <1>5
<1>7. \A f \in E : f.addr \notin {s, c} /\ f.copy \notin {s, c}
  BY <1>1, <1>2
<1> QED BY <1>1, <1>3, <1>6, <1>7 DEF OwnBlocks

\* A table that holds the entries E holds no others.
LEMMA HeldIs ==
    ASSUME NEW h \in [Keys -> Nat], NEW cap \in Nat \ {0}, NEW table, NEW E,
           Chained(h, table, cap, E)
    PROVE  Held(table, cap) = E
<1>1. table \in [0 .. cap - 1 -> Seq(EntryType)]
  BY DEF Chained
<1>2. \A i \in 0 .. cap - 1 : DOMAIN table[i] = 1 .. Len(table[i])
  BY <1>1
<1>3. ASSUME NEW e \in Held(table, cap) PROVE e \in E
  <2>1. PICK i \in 0 .. cap - 1 : \E j \in DOMAIN table[i] : e = table[i][j]
    BY DEF Held
  <2> QED BY <1>2, <2>1 DEF Chained
<1>4. ASSUME NEW e \in E PROVE e \in Held(table, cap)
  <2> DEFINE i == Slot(h, e.key, cap)
  <2>1. i \in 0 .. cap - 1
    BY SlotRange DEF Chained, EntryType
  <2>2. PICK j \in 1 .. Len(table[i]) : table[i][j] = e
    BY DEF Chained
  <2> HIDE DEF i
  <2>3. <<i, j>> \in {i} \X DOMAIN table[i]
    BY <1>2, <2>1, <2>2
  <2>4. e = table[<<i, j>>[1]][<<i, j>>[2]]
    BY SMTT(30), <2>2
  <2> QED BY <2>1, <2>3, <2>4 DEF Held
<1> QED BY <1>3, <1>4

\* The dictionary is a function of the entries alone.
LEMMA DictIs ==
    ASSUME NEW h \in [Keys -> Nat], NEW cap \in Nat \ {0}, NEW table, NEW E,
           Chained(h, table, cap, E), NEW k \in Keys
    PROVE  LET P == UNION {{i} \X DOMAIN table[i] : i \in 0 .. cap - 1}
               At(p) == table[p[1]][p[2]]
           IN (IF \E p \in P : At(p).key = k
               THEN At(CHOOSE p \in P : At(p).key = k).value ELSE None) = Value(E, k)
<1> DEFINE P == UNION {{i} \X DOMAIN table[i] : i \in 0 .. cap - 1}
           At(p) == table[p[1]][p[2]]
<1>1. {At(p) : p \in P} = E
  BY SMTT(30), HeldIs DEF Held
<1> HIDE DEF P, At
<1>2. CASE \E p \in P : At(p).key = k
  <2> DEFINE q == CHOOSE p \in P : At(p).key = k
             f == CHOOSE e \in E : e.key = k
  <2>1. q \in P /\ At(q).key = k
    BY <1>2
  <2>2. At(q) \in E
    BY <1>1, <2>1
  <2>3. f \in E /\ f.key = k
    BY <2>1, <2>2
  <2> HIDE DEF q, f
  <2>4. At(q) = f
    BY SMTT(30), <2>1, <2>2, <2>3, OneEntry
  <2> QED BY <1>2, <2>1, <2>2, <2>4 DEF Value, P, At, q, f
<1>3. CASE ~ \E p \in P : At(p).key = k
  <2>1. ~ \E e \in E : e.key = k
    BY <1>1, <1>3
  <2> QED BY <1>3, <2>1 DEF Value, P, At
<1> QED BY <1>2, <1>3

\* The value of a key that is stored, and of one that is not.
LEMMA ValueOf ==
    ASSUME NEW h \in [Keys -> Nat], NEW cap \in Nat \ {0}, NEW table, NEW E,
           Chained(h, table, cap, E)
    PROVE  /\ \A e \in E : Value(E, e.key) = e.value /\ e.value \in Values /\ e.key \in Keys
           /\ \A k : (\A e \in E : e.key # k) => Value(E, k) = None
<1>1. ASSUME NEW e \in E PROVE Value(E, e.key) = e.value
  <2> DEFINE f == CHOOSE g \in E : g.key = e.key
  <2>1. f \in E /\ f.key = e.key
    OBVIOUS
  <2> HIDE DEF f
  <2>2. f = e
    BY <2>1, OneEntry
  <2>3. Value(E, e.key) = f.value
    BY DEF Value, f
  <2> QED BY <2>2, <2>3
<1>2. \A e \in E : e.value \in Values /\ e.key \in Keys
  BY DEF Chained, EntryType
<1>3. \A k : (\A e \in E : e.key # k) => Value(E, k) = None
  BY DEF Value
<1> QED BY <1>1, <1>2, <1>3

\* What the walk along a chain finds.
LEMMA Found ==
    ASSUME hash \in [Keys -> Nat], capacity \in Nat \ {0}, NEW E,
           Chained(hash, buckets, capacity, E), NEW key \in Keys
    PROVE  LET b == bucket_index(key, capacity)
               j == Find(buckets[b], key)
           IN /\ b = Slot(hash, key, capacity) /\ b \in 0 .. capacity - 1
              /\ buckets[b] \in Seq(EntryType)
              /\ Holds(buckets[b], key) <=> \E e \in E : e.key = key
              /\ Holds(buckets[b], key) =>
                   /\ j \in 1 .. Len(buckets[b]) /\ buckets[b][j] \in E
                   /\ buckets[b][j].key = key
<1> DEFINE b == bucket_index(key, capacity)
           chain == buckets[b]
           j == Find(chain, key)
<1>1. b = Slot(hash, key, capacity)
  BY DEF bucket_index, Slot
<1>2. b \in 0 .. capacity - 1
  BY <1>1, SlotRange
<1> HIDE DEF b
<1>3. chain \in Seq(EntryType)
  BY <1>2 DEF Chained
<1>4. DOMAIN chain = 1 .. Len(chain)
  BY <1>3
<1>5. /\ \A x \in 1 .. Len(chain) : chain[x] \in E
      /\ \A e \in E : e.key = key => \E x \in 1 .. Len(chain) : chain[x] = e
  BY <1>1, <1>2 DEF Chained
<1> HIDE DEF chain
<1>6. Holds(chain, key) <=> \E e \in E : e.key = key
  BY <1>4, <1>5 DEF Holds
<1>7. ASSUME Holds(chain, key) PROVE j \in 1 .. Len(chain) /\ chain[j].key = key
  <2>1. \E x \in DOMAIN chain : chain[x].key = key
    BY <1>7 DEF Holds
  <2>2. j \in DOMAIN chain /\ chain[j].key = key
    BY <2>1 DEF Find
  <2> QED BY <1>4, <2>2
<1> QED BY <1>1, <1>2, <1>3, <1>5, <1>6, <1>7 DEF b, chain

-----------------------------------------------------------------------------
\* An entry's value is changed where it is.
LEMMA Replaced ==
    ASSUME NEW h \in [Keys -> Nat], NEW cap \in Nat \ {0}, NEW table, NEW E,
           Chained(h, table, cap, E), NEW b \in 0 .. cap - 1,
           NEW j \in 1 .. Len(table[b]), NEW v \in Values
    PROVE  Chained(h, [table EXCEPT ![b][j].value = v], cap,
                   (E \ {table[b][j]}) \cup {[table[b][j] EXCEPT !.value = v]})
<1> DEFINE chain == table[b]
           e == chain[j]
           e2 == [e EXCEPT !.value = v]
           c2 == [chain EXCEPT ![j] = e2]
           new == [table EXCEPT ![b] = c2]
           E2 == (E \ {e}) \cup {e2}
<1>1. /\ table \in [0 .. cap - 1 -> Seq(EntryType)] /\ chain \in Seq(EntryType)
      /\ Len(chain) \in Nat /\ e \in E /\ e \in EntryType /\ Slot(h, e.key, cap) = b
  BY DEF Chained
<1>2. [table EXCEPT ![b][j].value = v] = new
  OBVIOUS
<1>3. e2 \in EntryType /\ e2.key = e.key
  BY <1>1 DEF EntryType
<1> HIDE DEF e2, e, chain
<1>4. /\ c2 \in Seq(EntryType) /\ Len(c2) = Len(chain)
      /\ \A x \in 1 .. Len(chain) : c2[x] = IF x = j THEN e2 ELSE chain[x]
  BY <1>1, <1>3, ExceptSeq DEF chain
<1> HIDE DEF c2
<1>5. /\ new \in [0 .. cap - 1 -> Seq(EntryType)] /\ new[b] = c2
      /\ \A i \in 0 .. cap - 1 : i # b => new[i] = table[i]
  BY <1>1, <1>4
<1> HIDE DEF new
<1>6. \A x \in 1 .. Len(chain) : c2[x].key = chain[x].key
  BY <1>3, <1>4 DEF e
<1>7. \A i \in 0 .. cap - 1 : \A x \in 1 .. Len(table[i]) : table[i][x] = e => i = b /\ x = j
  <2> SUFFICES ASSUME NEW i \in 0 .. cap - 1, NEW x \in 1 .. Len(table[i]), table[i][x] = e
               PROVE  i = b /\ x = j
    OBVIOUS
  <2>1. i = b
    BY <1>1 DEF Chained
  <2>2. \A y, z \in 1 .. Len(table[b]) : table[b][y].key = table[b][z].key => y = z
    BY DEF Chained
  <2> QED BY <2>1, <2>2 DEF e, chain
<1>8. ASSUME NEW i \in 0 .. cap - 1, NEW x \in 1 .. Len(new[i])
      PROVE  new[i][x] \in E2 /\ Slot(h, new[i][x].key, cap) = i
  <2>1. CASE i # b
    <3>1. new[i] = table[i] /\ x \in 1 .. Len(table[i])
      BY <1>5, <2>1
    <3>2. table[i][x] \in E /\ Slot(h, table[i][x].key, cap) = i /\ table[i][x] # e
      BY <1>7, <2>1, <3>1 DEF Chained
    <3> QED BY <3>1, <3>2
  <2>2. CASE i = b /\ x = j
    BY <1>1, <1>3, <1>4, <1>5, <2>2 DEF chain
  <2>3. CASE i = b /\ x # j
    <3>1. x \in 1 .. Len(table[b]) /\ new[i][x] = table[b][x]
      BY <1>4, <1>5, <2>3 DEF chain
    <3>2. table[b][x] \in E /\ Slot(h, table[b][x].key, cap) = b /\ table[b][x] # e
      BY <1>7, <2>3, <3>1 DEF Chained
    <3> QED BY <2>3, <3>1, <3>2
  <2> QED BY <2>1, <2>2, <2>3
<1>9. ASSUME NEW f \in E2
      PROVE  \E x \in 1 .. Len(new[Slot(h, f.key, cap)]) : new[Slot(h, f.key, cap)][x] = f
  <2>1. CASE f = e2
    <3>1. Slot(h, f.key, cap) = b /\ j \in 1 .. Len(new[b]) /\ new[b][j] = f
      BY <1>1, <1>3, <1>4, <1>5, <2>1 DEF chain
    <3> QED BY <3>1
  <2>2. CASE f \in E /\ f # e
    <3> DEFINE i == Slot(h, f.key, cap)
    <3>1. i \in 0 .. cap - 1
      BY <2>2, SlotRange DEF Chained, EntryType
    <3>2. PICK x \in 1 .. Len(table[i]) : table[i][x] = f
      BY <2>2 DEF Chained
    <3> HIDE DEF i
    <3>3. CASE i # b
      BY <1>5, <3>1, <3>2, <3>3 DEF i
    <3>4. CASE i = b
      <4>1. x # j
        BY <2>2, <3>2, <3>4 DEF e, chain
      <4>2. x \in 1 .. Len(new[i]) /\ new[i][x] = f
        BY <1>4, <1>5, <3>2, <3>4, <4>1 DEF chain
      <4> QED BY <4>2 DEF i
    <3> QED BY <3>3, <3>4
  <2> QED BY <2>1, <2>2
<1>10. ASSUME NEW i \in 0 .. cap - 1, NEW x \in 1 .. Len(new[i]), NEW y \in 1 .. Len(new[i]),
              new[i][x].key = new[i][y].key
       PROVE  x = y
  <2>1. CASE i # b
    BY <1>5, <1>10, <2>1 DEF Chained
  <2>2. CASE i = b
    <3>1. \A z, w \in 1 .. Len(chain) : chain[z].key = chain[w].key => z = w
      BY DEF Chained, chain
    <3> QED BY <1>4, <1>5, <1>6, <1>10, <2>2, <3>1
  <2> QED BY <2>1, <2>2
<1>11. E2 \subseteq EntryType
  BY <1>3 DEF Chained
<1> HIDE DEF E2
<1>12. Chained(h, new, cap, E2)
  BY <1>5, <1>8, <1>9, <1>10, <1>11 DEF Chained
<1> QED BY <1>2, <1>12 DEF E2, e2, e, chain

\* An entry is taken out of its chain.
LEMMA Removed ==
    ASSUME NEW h \in [Keys -> Nat], NEW cap \in Nat \ {0}, NEW table, NEW E,
           Chained(h, table, cap, E), NEW b \in 0 .. cap - 1, NEW j \in 1 .. Len(table[b])
    PROVE  Chained(h, [table EXCEPT ![b] = RemoveAt(table[b], j)], cap, E \ {table[b][j]})
<1> DEFINE chain == table[b]
           e == chain[j]
           c2 == RemoveAt(chain, j)
           new == [table EXCEPT ![b] = c2]
           E2 == E \ {e}
<1>1. /\ table \in [0 .. cap - 1 -> Seq(EntryType)] /\ chain \in Seq(EntryType)
      /\ Len(chain) \in Nat /\ e \in E /\ Slot(h, e.key, cap) = b /\ j \in 1 .. Len(chain)
  BY DEF Chained
<1>2. \A x, y \in 1 .. Len(chain) : chain[x].key = chain[y].key => x = y
  BY DEF Chained
<1> HIDE DEF e, chain
<1>3. /\ c2 \in Seq(EntryType) /\ Len(c2) = Len(chain) - 1
      /\ \A x \in 1 .. Len(chain) - 1 : c2[x] = IF x < j THEN chain[x] ELSE chain[x + 1]
  <2> DEFINE s == SubSeq(chain, 1, j - 1)
             t == SubSeq(chain, j + 1, Len(chain))
  <2>1. /\ s \in Seq(EntryType) /\ Len(s) = j - 1
        /\ \A x \in 1 .. j - 1 : s[x] = chain[x]
    BY <1>1
  <2>2. /\ t \in Seq(EntryType) /\ Len(t) = Len(chain) - j
        /\ \A x \in 1 .. Len(chain) - j : t[x] = chain[x + j]
    BY <1>1
  <2>3. c2 = s \o t
    BY DEF RemoveAt
  <2> HIDE DEF s, t, c2
  <2>4. /\ s \o t \in Seq(EntryType) /\ Len(s \o t) = Len(s) + Len(t)
        /\ \A x \in 1 .. Len(s) + Len(t) :
             (s \o t)[x] = IF x <= Len(s) THEN s[x] ELSE t[x - Len(s)]
    BY <2>1, <2>2, ConcatProperties, Zenon
  <2>5. Len(c2) = Len(chain) - 1 /\ c2 \in Seq(EntryType)
    BY <1>1, <2>1, <2>2, <2>3, <2>4
  <2>6. ASSUME NEW x \in 1 .. Len(chain) - 1
        PROVE  c2[x] = IF x < j THEN chain[x] ELSE chain[x + 1]
    <3>1. x \in 1 .. Len(s) + Len(t)
      BY <1>1, <2>1, <2>2
    <3>2. c2[x] = IF x <= Len(s) THEN s[x] ELSE t[x - Len(s)]
      BY <2>3, <2>4, <3>1
    <3>3. CASE x < j
      BY <1>1, <2>1, <3>2, <3>3
    <3>4. CASE ~(x < j)
      <4>1. /\ x - (j - 1) \in 1 .. Len(chain) - j /\ x - (j - 1) + j = x + 1
            /\ ~(x <= j - 1)
        BY <1>1, <3>4
      <4> QED BY <2>1, <2>2, <3>2, <3>4, <4>1
    <3> QED BY <3>3, <3>4
  <2> QED BY <2>5, <2>6
<1> HIDE DEF c2
<1>4. /\ new \in [0 .. cap - 1 -> Seq(EntryType)] /\ new[b] = c2
      /\ \A i \in 0 .. cap - 1 : i # b => new[i] = table[i]
  BY <1>1, <1>3
<1> HIDE DEF new
\* Where the entry at position x of the new chain was, and where one has gone.
<1>5. \A x \in 1 .. Len(c2) : \E y \in 1 .. Len(chain) :
        y # j /\ c2[x] = chain[y] /\ y = IF x < j THEN x ELSE x + 1
  <2> SUFFICES ASSUME NEW x \in 1 .. Len(c2)
               PROVE  \E y \in 1 .. Len(chain) :
                        y # j /\ c2[x] = chain[y] /\ y = IF x < j THEN x ELSE x + 1
    OBVIOUS
  <2>1. CASE x < j
    <3>1. x \in 1 .. Len(chain) /\ x # j /\ c2[x] = chain[x]
      BY <1>1, <1>3, <2>1
    <3> QED BY <2>1, <3>1
  <2>2. CASE ~(x < j)
    <3>1. x + 1 \in 1 .. Len(chain) /\ x + 1 # j /\ c2[x] = chain[x + 1]
      BY <1>1, <1>3, <2>2
    <3> QED BY <2>2, <3>1
  <2> QED BY <2>1, <2>2
<1>6. \A y \in 1 .. Len(chain) : y # j => \E x \in 1 .. Len(c2) : c2[x] = chain[y]
  <2> SUFFICES ASSUME NEW y \in 1 .. Len(chain), y # j
               PROVE  \E x \in 1 .. Len(c2) : c2[x] = chain[y]
    OBVIOUS
  <2>1. CASE y < j
    <3>1. y \in 1 .. Len(chain) - 1 /\ y \in 1 .. Len(c2)
      BY <1>1, <1>3, <2>1
    <3>2. c2[y] = chain[y]
      BY <1>3, <2>1, <3>1
    <3> QED BY <3>1, <3>2
  <2>2. CASE y > j
    <3>1. y - 1 \in 1 .. Len(c2) /\ ~(y - 1 < j) /\ (y - 1) + 1 = y
      BY <1>1, <1>3, <2>2
    <3>2. c2[y - 1] = chain[y]
      BY <1>3, <3>1
    <3> QED BY <3>1, <3>2
  <2>3. y < j \/ y > j
    <3>1. y \in Int /\ j \in Int
      BY <1>1
    <3> QED BY <3>1
  <2> QED BY <2>1, <2>2, <2>3
<1>7. ASSUME NEW i \in 0 .. cap - 1, NEW x \in 1 .. Len(new[i])
      PROVE  new[i][x] \in E2 /\ Slot(h, new[i][x].key, cap) = i
  <2>1. CASE i # b
    <3>1. new[i] = table[i] /\ x \in 1 .. Len(table[i])
      BY <1>4, <2>1
    <3>2. table[i][x] \in E /\ Slot(h, table[i][x].key, cap) = i
      BY <3>1 DEF Chained
    <3>3. table[i][x] # e
      BY <1>1, <2>1, <3>2
    <3> QED BY <3>1, <3>2, <3>3
  <2>2. CASE i = b
    <3>1. PICK y \in 1 .. Len(chain) : y # j /\ new[i][x] = chain[y]
      BY <1>4, <1>5, <2>2
    <3>2. chain[y] \in E /\ Slot(h, chain[y].key, cap) = b
      BY <3>1 DEF Chained, chain
    <3>3. chain[y] # e
      BY <1>1, <1>2, <3>1 DEF e
    <3> QED BY <2>2, <3>1, <3>2, <3>3
  <2> QED BY <2>1, <2>2
<1>8. ASSUME NEW f \in E2
      PROVE  \E x \in 1 .. Len(new[Slot(h, f.key, cap)]) : new[Slot(h, f.key, cap)][x] = f
  <2> DEFINE i == Slot(h, f.key, cap)
  <2>1. i \in 0 .. cap - 1
    BY SlotRange DEF Chained, EntryType
  <2>2. PICK y \in 1 .. Len(table[i]) : table[i][y] = f
    BY DEF Chained
  <2> HIDE DEF i
  <2>3. CASE i # b
    BY <1>4, <2>1, <2>2, <2>3 DEF i
  <2>4. CASE i = b
    <3>1. y \in 1 .. Len(chain) /\ y # j /\ chain[y] = f
      BY <2>2, <2>4 DEF e, chain
    <3>2. \E x \in 1 .. Len(new[i]) : new[i][x] = f
      BY <1>4, <1>6, <2>4, <3>1
    <3> QED BY <3>2 DEF i
  <2> QED BY <2>3, <2>4
<1>9. ASSUME NEW i \in 0 .. cap - 1, NEW x \in 1 .. Len(new[i]), NEW z \in 1 .. Len(new[i]),
             new[i][x].key = new[i][z].key
      PROVE  x = z
  <2>1. CASE i # b
    BY <1>4, <1>9, <2>1 DEF Chained
  <2>2. CASE i = b
    <3>1. PICK y \in 1 .. Len(chain) : new[i][x] = chain[y] /\ y = IF x < j THEN x ELSE x + 1
      BY <1>4, <1>5, <2>2
    <3>2. PICK w \in 1 .. Len(chain) : new[i][z] = chain[w] /\ w = IF z < j THEN z ELSE z + 1
      BY <1>4, <1>5, <2>2
    <3>3. y = w
      BY <1>2, <1>9, <3>1, <3>2
    <3> QED BY <1>1, <3>1, <3>2, <3>3
  <2> QED BY <2>1, <2>2
<1>10. E2 \subseteq EntryType
  BY DEF Chained
<1> HIDE DEF E2
<1>11. Chained(h, new, cap, E2)
  BY <1>4, <1>7, <1>8, <1>9, <1>10 DEF Chained
<1> QED BY <1>11 DEF new, c2, E2, e, chain

-----------------------------------------------------------------------------
\* The dictionary of the table as it is.
LEMMA ThisTable == ASSUME TableInv PROVE Dict = Mapping(Stored)
<1> DEFINE P == UNION {{i} \X DOMAIN buckets[i] : i \in 0 .. capacity - 1}
           At(p) == buckets[p[1]][p[2]]
<1>1. Dict = [k \in Keys |-> IF \E p \in P : At(p).key = k
                             THEN At(CHOOSE p \in P : At(p).key = k).value ELSE None]
  BY SMTT(30) DEF Dict, Entries, Entry
<1>2. \A k \in Keys : (IF \E p \in P : At(p).key = k
                       THEN At(CHOOSE p \in P : At(p).key = k).value ELSE None)
                      = Value(Stored, k)
  <2> TAKE k \in Keys
  <2>1. /\ hash \in [Keys -> Nat] /\ capacity \in Nat \ {0}
        /\ Chained(hash, buckets, capacity, Stored)
    BY DEF TableInv, TableOf
  <2> QED BY ZenonT(60), <2>1, DictIs
<1> HIDE DEF P, At
<1> QED BY <1>1, <1>2 DEF Mapping

\* A call that leaves a table of the entries E keeps the invariant.
LEMMA NextTable ==
    ASSUME NEW E, TableOf(hash', buckets', capacity', count', self', bkts', blocks', E)
    PROVE  TableInv' /\ Dict' = Mapping(E)
<1>1. /\ hash' \in [Keys -> Nat] /\ capacity' \in Nat \ {0}
      /\ Chained(hash', buckets', capacity', E)
  BY DEF TableOf
<1>2. Held(buckets', capacity') = E
  BY <1>1, HeldIs
<1>3. Stored' = E
  BY <1>2 DEF Stored, Held
<1>4. TableInv'
  BY SMTT(30), <1>3 DEF TableInv, TableOf, Chained, Slot, EntryType
<1> DEFINE P == UNION {{i} \X DOMAIN buckets'[i] : i \in 0 .. capacity' - 1}
           At(p) == buckets'[p[1]][p[2]]
<1>5. Dict' = [k \in Keys |-> IF \E p \in P : At(p).key = k
                              THEN At(CHOOSE p \in P : At(p).key = k).value ELSE None]
  BY DEF Dict, Entries, Entry
<1>6. \A k \in Keys : (IF \E p \in P : At(p).key = k
                       THEN At(CHOOSE p \in P : At(p).key = k).value ELSE None) = Value(E, k)
  <2> TAKE k \in Keys
  <2> QED BY ZenonT(60), <1>1, DictIs
<1> HIDE DEF P, At
<1>7. Dict' = Mapping(E)
  BY <1>5, <1>6 DEF Mapping
<1> QED BY <1>4, <1>7

\* Two sets of entries that agree on every key but one.
LEMMA OneKeyChanged ==
    ASSUME NEW h \in [Keys -> Nat], NEW cap \in Nat \ {0}, NEW table, NEW E,
           Chained(h, table, cap, E),
           NEW cap2 \in Nat \ {0}, NEW table2, NEW E2, Chained(h, table2, cap2, E2),
           NEW key \in Keys,
           \A f : (f \in E /\ f.key # key) <=> (f \in E2 /\ f.key # key)
    PROVE  Mapping(E2) = [Mapping(E) EXCEPT ![key] = Value(E2, key)]
<1>1. ASSUME NEW k \in Keys, k # key PROVE Value(E2, k) = Value(E, k)
  <2>1. CASE \E e \in E : e.key = k
    <3>1. PICK e \in E : e.key = k
      BY <2>1
    <3>2. e \in E2
      BY <1>1, <3>1
    <3>3. Value(E, e.key) = e.value
      BY <3>1, ValueOf
    <3>4. Value(E2, e.key) = e.value
      BY <3>2, ValueOf
    <3> QED BY <3>1, <3>3, <3>4
  <2>2. CASE \A e \in E : e.key # k
    <3>1. \A e \in E2 : e.key # k
      BY <1>1, <2>2
    <3> QED BY <2>2, <3>1 DEF Value
  <2> QED BY <2>1, <2>2
<1> QED BY <1>1 DEF Mapping

\* The address malloc gives out is nobody's.
LEMMA FreshBlock ==
    ASSUME HashAssumption, NEW heap \in SUBSET (1 .. MaxAddr), Cardinality(heap) < MaxAddr
    PROVE  malloc(heap) \in (1 .. MaxAddr) \ heap
<1> DEFINE S == (1 .. MaxAddr) \ heap
<1>1. MaxAddr \in Nat
  BY DEF HashAssumption
<1>2. S # {}
  <2> SUFFICES ASSUME S = {} PROVE FALSE
    OBVIOUS
  <2>1. heap = 1 .. MaxAddr
    OBVIOUS
  <2>2. Cardinality(1 .. MaxAddr) = MaxAddr
    <3>1. Cardinality(1 .. MaxAddr) = IF 1 > MaxAddr THEN 0 ELSE MaxAddr - 1 + 1
      BY <1>1, FS_Interval
    <3> QED BY <1>1, <3>1
  <2> QED BY <1>1, <2>1, <2>2
<1>3. S \in SUBSET Nat
  OBVIOUS
<1> HIDE DEF S
<1>4. \E x \in S : \A y \in S : x <= y
  BY <1>2, <1>3, LeastNumber
<1>5. Min(S) \in S
  BY <1>4 DEF Min
<1> QED BY <1>5 DEF S, malloc

\* The two blocks of an empty table.
LEMMA NewTable ==
    ASSUME HashAssumption, NEW s, s = malloc({}), NEW b, b = malloc({s})
    PROVE  OwnBlocks({s, b}, s, b, {})
<1>1. MaxAddr \in Nat /\ MaxAddr > 1
  BY DEF HashAssumption
<1>2. s \in 1 .. MaxAddr
  <2>1. Cardinality({}) < MaxAddr /\ {} \in SUBSET (1 .. MaxAddr)
    BY <1>1, FS_EmptySet
  <2> QED BY <2>1, FreshBlock
<1>3. b \in (1 .. MaxAddr) \ {s}
  <2>1. Cardinality({s}) < MaxAddr
    BY <1>1, FS_Singleton
  <2> QED BY <1>2, <2>1, FreshBlock
<1> QED BY <1>2, <1>3 DEF OwnBlocks

\* hmap_create.
LEMMA TableInit == ASSUME HashAssumption, Init PROVE TableInv /\ KV!Init
<1> DEFINE table == [b \in 0 .. INITIAL_CAPACITY - 1 |-> <<>>]
<1>1. /\ hash \in [Keys -> Nat] /\ INITIAL_CAPACITY \in Nat \ {0}
      /\ buckets = table /\ capacity = INITIAL_CAPACITY /\ count = 0 /\ ret = <<>>
      /\ self = malloc({}) /\ bkts = malloc({self}) /\ blocks = {self, bkts}
  BY DEF HashAssumption, Init
<1>2. Chained(hash, table, INITIAL_CAPACITY, {})
  BY <1>1, EmptyTable
<1> HIDE DEF table
<1>3. Stored = {}
  BY <1>1, <1>2, HeldIs DEF Stored
<1>4. TableInv
  <2>1. OwnBlocks(blocks, self, bkts, {})
    BY <1>1, NewTable
  <2> QED BY <1>1, <1>2, <1>3, <2>1, FS_EmptySet DEF TableInv, TableOf
<1>5. Dict = [k \in Keys |-> None]
  BY <1>3, <1>4, ThisTable DEF Mapping, Value
<1> QED BY <1>1, <1>4, <1>5 DEF KV!Init

\* hmap_free, and the new table after it.
LEMMA FreeStep == ASSUME HashAssumption, TableInv, hmap_free PROVE TableInv' /\ KV!Renew
<1> DEFINE table == [b \in 0 .. INITIAL_CAPACITY - 1 |-> <<>>]
<1>1. /\ hash' \in [Keys -> Nat] /\ INITIAL_CAPACITY \in Nat \ {0}
      /\ buckets' = table /\ capacity' = INITIAL_CAPACITY /\ count' = 0 /\ ret' = <<>>
  BY DEF HashAssumption, hmap_free, TableInv, TableOf
<1>2. Chained(hash', table, INITIAL_CAPACITY, {})
  BY <1>1, EmptyTable
<1> HIDE DEF table
<1>3. left_by_free = {}
  <2>1. blocks = {self, bkts} \cup {e.addr : e \in Stored} \cup {e.copy : e \in Stored}
    BY DEF TableInv, TableOf, OwnBlocks
  <2>2. \A e \in Stored : \E p \in Entries : e = Entry(p)
    BY DEF Stored, Held, Entries, Entry
  <2>3. ASSUME NEW e \in Stored
        PROVE  e.addr \notin left_by_free /\ e.copy \notin left_by_free
    <3>1. PICK p \in Entries : e = Entry(p)
      BY <2>2
    <3> QED BY <3>1 DEF left_by_free
  <2>4. /\ self \notin left_by_free /\ bkts \notin left_by_free
        /\ left_by_free \subseteq blocks
    BY DEF left_by_free
  <2> QED BY <2>1, <2>3, <2>4
<1>4. TableOf(hash', buckets', capacity', count', self', bkts', blocks', {})
  <2>1. /\ self' = malloc({}) /\ bkts' = malloc({self'})
        /\ blocks' = {self', bkts'}
    <3>1. {} \cup {self'} = {self'} /\ {} \cup {self', bkts'} = {self', bkts'}
      OBVIOUS
    <3> QED BY <1>3, <3>1 DEF hmap_free
  <2>2. OwnBlocks(blocks', self', bkts', {})
    BY <2>1, NewTable
  <2> QED BY <1>1, <1>2, <2>2, FS_EmptySet DEF TableOf
<1>5. Mapping({}) = [k \in Keys |-> None]
  BY DEF Mapping, Value
<1> QED BY <1>1, <1>4, <1>5, NextTable DEF KV!Renew

\* A lookup.
LEMMA GetStep ==
    ASSUME HashAssumption, TableInv, NEW key \in Keys, hmap_get(key)
    PROVE  TableInv' /\ KV!Get(key)
<1> DEFINE E == Stored
           chain == buckets[bucket_index(key, capacity)]
           e == chain[Find(chain, key)]
<1>1. /\ hash' = hash /\ capacity' = capacity /\ buckets' = buckets
      /\ count' = count /\ self' = self /\ bkts' = bkts /\ blocks' = blocks
      /\ ret' = IF Holds(chain, key) THEN <<1, e.value>> ELSE <<0>>
  BY DEF hmap_get
<1>2. TableOf(hash', buckets', capacity', count', self', bkts', blocks', E)
  BY <1>1 DEF TableInv
<1>3. /\ hash \in [Keys -> Nat] /\ capacity \in Nat \ {0}
      /\ Chained(hash, buckets, capacity, E)
  BY DEF TableInv, TableOf
<1>4. /\ Holds(chain, key) <=> \E f \in E : f.key = key
      /\ Holds(chain, key) => e \in E /\ e.key = key
  BY <1>3, Found
<1>5. Dict = Mapping(E) /\ Dict' = Mapping(E) /\ TableInv'
  BY <1>2, NextTable, ThisTable
<1> HIDE DEF E, chain, e
<1>6. Dict[key] = Value(E, key)
  BY <1>5 DEF Mapping
<1>7. CASE Holds(chain, key)
  <2>1. Value(E, key) = e.value /\ e.value \in Values
    BY <1>3, <1>4, <1>7, ValueOf
  <2>2. Dict[key] # None
    BY <1>6, <2>1 DEF HashAssumption
  <2> QED BY <1>1, <1>5, <1>6, <1>7, <2>1, <2>2 DEF KV!Get
<1>8. CASE ~ Holds(chain, key)
  <2>1. Dict[key] = None
    BY <1>3, <1>4, <1>6, <1>8, ValueOf
  <2> QED BY <1>1, <1>5, <1>8, <2>1 DEF KV!Get
<1> QED BY <1>7, <1>8

\* Where an entry is: in the bucket of its key, and nowhere else.
LEMMA PlacedWell == ASSUME TableInv PROVE WellPlaced
<1>1. /\ hash \in [Keys -> Nat] /\ capacity \in Nat \ {0}
      /\ buckets \in [0 .. capacity - 1 -> Seq(EntryType)]
      /\ \A i \in 0 .. capacity - 1 : \A j \in 1 .. Len(buckets[i]) :
           Slot(hash, buckets[i][j].key, capacity) = i
      /\ \A i \in 0 .. capacity - 1 : \A j, k \in 1 .. Len(buckets[i]) :
           buckets[i][j].key = buckets[i][k].key => j = k
  BY DEF TableInv, TableOf, Chained
<1>2. \A i \in 0 .. capacity - 1 : DOMAIN buckets[i] = 1 .. Len(buckets[i])
  BY <1>1
<1>3. \A p \in Entries : /\ p[1] \in 0 .. capacity - 1 /\ p[2] \in 1 .. Len(buckets[p[1]])
                         /\ p = <<p[1], p[2]>>
  BY <1>2 DEF Entries
<1>4. ASSUME NEW p \in Entries PROVE bucket_index(Entry(p).key, capacity) = p[1]
  BY <1>1, <1>3 DEF Entry, bucket_index, Slot
<1>5. ASSUME NEW p \in Entries, NEW q \in Entries, Entry(p).key = Entry(q).key PROVE p = q
  <2>1. p[1] = q[1]
    BY <1>4, <1>5
  <2>2. buckets[p[1]][p[2]].key = buckets[p[1]][q[2]].key
    BY <1>5, <2>1 DEF Entry
  <2>3. p[2] = q[2]
    BY <1>1, <1>3, <2>1, <2>2
  <2> QED BY <1>3, <2>1, <2>3
<1> QED BY <1>4, <1>5 DEF WellPlaced

\* There are as many entries as places.
LEMMA PlacesCounted ==
    ASSUME TableInv
    PROVE  IsFiniteSet(Entries) /\ Cardinality(Entries) = Cardinality(Stored)
<1>1. IsFiniteSet(Stored)
  BY DEF TableInv, TableOf
<1>2. Stored = {Entry(p) : p \in Entries}
  BY DEF Stored, Held, Entries, Entry
<1> DEFINE f == [p \in Entries |-> Entry(p)]
<1>3. ASSUME NEW p \in Entries, NEW q \in Entries, f[p] = f[q] PROVE p = q
  BY <1>3, PlacedWell DEF WellPlaced
<1>4. f \in [Entries -> Stored] /\ \A e \in Stored : \E p \in Entries : f[p] = e
  BY <1>2
<1> HIDE DEF f
<1>5. f \in Bijection(Entries, Stored)
  BY <1>3, <1>4 DEF Bijection, Injection, Surjection, IsInjective
<1>6. ExistsBijection(Stored, Entries)
  BY <1>5, Fun_ExistsBijSymmetric DEF ExistsBijection
<1> QED BY <1>1, <1>6, FS_Bijection

\* Names that tell the members of a set apart are as many as its members.
LEMMA NamesCounted ==
    ASSUME NEW E, IsFiniteSet(E), NEW f, f = [e \in E |-> f[e]],
           \A d, e \in E : f[d] = f[e] => d = e
    PROVE  IsFiniteSet({f[e] : e \in E}) /\ Cardinality({f[e] : e \in E}) = Cardinality(E)
<1> DEFINE N == {f[e] : e \in E}
<1>1. f \in [E -> N] /\ \A a \in N : \E e \in E : f[e] = a
  OBVIOUS
<1> HIDE DEF N
<1>2. f \in Bijection(E, N)
  BY <1>1 DEF Bijection, Injection, Surjection, IsInjective
<1>3. ExistsBijection(E, N)
  BY <1>2 DEF ExistsBijection
<1>4. IsFiniteSet(N) /\ Cardinality(N) = Cardinality(E)
  BY <1>3, FS_Bijection
<1> QED BY <1>4 DEF N

\* The blocks are the table's own two and the entries', and none is shared.
LEMMA CountsExactly == ASSUME TableInv PROVE MemoryExact
<1> DEFINE E == Stored
           A == {e.addr : e \in E}
           C == {e.copy : e \in E}
           O == {self, bkts}
<1>1. /\ IsFiniteSet(E) /\ count = Cardinality(E) /\ count \in Nat
      /\ blocks = O \cup A \cup C /\ self # bkts
      /\ \A e \in E : e.addr \notin O /\ e.copy \notin O
      /\ \A e, f \in E : e.addr # f.copy
      /\ \A e, f \in E : e.addr = f.addr \/ e.copy = f.copy => e = f
  BY DEF TableInv, TableOf, OwnBlocks
<1>2. E = {Entry(p) : p \in Entries}
  BY DEF Stored, Held, Entries, Entry
<1> HIDE DEF E
<1>3. A = {Entry(p).addr : p \in Entries} /\ C = {Entry(p).copy : p \in Entries}
  BY <1>2
<1>4. IsFiniteSet(A) /\ Cardinality(A) = count
  <2> DEFINE f == [e \in E |-> e.addr]
  <2>1. f = [e \in E |-> f[e]] /\ (\A d, e \in E : f[d] = f[e] => d = e) /\ A = {f[e] : e \in E}
    BY <1>1
  <2> HIDE DEF f, A, C, O
  <2>2. /\ IsFiniteSet({f[e] : e \in E})
        /\ Cardinality({f[e] : e \in E}) = Cardinality(E)
    BY <1>1, <2>1, NamesCounted
  <2> QED BY <1>1, <2>1, <2>2
<1>5. IsFiniteSet(C) /\ Cardinality(C) = count
  <2> DEFINE f == [e \in E |-> e.copy]
  <2>1. f = [e \in E |-> f[e]] /\ (\A d, e \in E : f[d] = f[e] => d = e) /\ C = {f[e] : e \in E}
    BY <1>1
  <2> HIDE DEF f, A, C, O
  <2>2. /\ IsFiniteSet({f[e] : e \in E})
        /\ Cardinality({f[e] : e \in E}) = Cardinality(E)
    BY <1>1, <2>1, NamesCounted
  <2> QED BY <1>1, <2>1, <2>2
<1>6. IsFiniteSet(O) /\ Cardinality(O) = 2
  <2>1. IsFiniteSet({self}) /\ Cardinality({self}) = 1
    BY FS_Singleton
  <2>2. O = {self} \cup {bkts} /\ bkts \notin {self}
    BY <1>1
  <2> QED BY <2>1, <2>2, FS_AddElement
<1>7. A \cap C = {} /\ O \cap (A \cup C) = {} /\ blocks = O \cup (A \cup C)
  BY <1>1
<1> HIDE DEF A, C, O
<1>8. IsFiniteSet(A \cup C) /\ Cardinality(A \cup C) = 2 * count
  <2>1. /\ IsFiniteSet(A \cup C)
        /\ Cardinality(A \cup C) = Cardinality(A) + Cardinality(C) - Cardinality(A \cap C)
    BY <1>4, <1>5, FS_Union
  <2>2. Cardinality(A \cap C) = 0
    BY <1>7, FS_EmptySet
  <2> QED BY <1>1, <1>4, <1>5, <2>1, <2>2
<1>9. Cardinality(blocks) = 2 + 2 * count
  <2>1. Cardinality(O \cup (A \cup C))
          = Cardinality(O) + Cardinality(A \cup C) - Cardinality(O \cap (A \cup C))
    BY <1>6, <1>8, FS_Union
  <2>2. Cardinality(O \cap (A \cup C)) = 0
    BY <1>7, FS_EmptySet
  <2>3. Cardinality(blocks) = Cardinality(O \cup (A \cup C))
    BY <1>7, Zenon
  <2> QED BY <1>1, <1>6, <1>8, <2>1, <2>2, <2>3
<1>10. count = Cardinality(Entries)
  BY <1>1, PlacesCounted DEF E
<1> QED BY <1>1, <1>3, <1>9, <1>10 DEF MemoryExact, O

-----------------------------------------------------------------------------
\* A delete of a key that is not there.
LEMMA DeleteMisses ==
    ASSUME HashAssumption, TableInv, NEW key \in Keys, hmap_delete(key),
           ~ Holds(buckets[bucket_index(key, capacity)], key)
    PROVE  TableInv' /\ KV!Delete(key)
<1> DEFINE E == Stored
           chain == buckets[bucket_index(key, capacity)]
<1>1. /\ hash' = hash /\ capacity' = capacity /\ buckets' = buckets
      /\ count' = count /\ self' = self /\ bkts' = bkts /\ blocks' = blocks
      /\ ret' = <<0>>
  BY DEF hmap_delete
<1>2. TableOf(hash', buckets', capacity', count', self', bkts', blocks', E)
  BY <1>1 DEF TableInv
<1>3. /\ hash \in [Keys -> Nat] /\ capacity \in Nat \ {0}
      /\ Chained(hash, buckets, capacity, E)
  BY DEF TableInv, TableOf
<1>4. \A f \in E : f.key # key
  BY <1>3, Found
<1>5. Dict = Mapping(E) /\ Dict' = Mapping(E) /\ TableInv'
  BY <1>2, NextTable, ThisTable
<1> HIDE DEF E
<1>6. Dict[key] = None
  BY <1>3, <1>4, <1>5, ValueOf DEF Mapping
<1>7. Dict = [Dict EXCEPT ![key] = None]
  BY <1>5, <1>6 DEF Mapping
<1> QED BY <1>1, <1>5, <1>6, <1>7 DEF KV!Delete

\* A delete of a key that is there unlinks its entry and frees the block.
LEMMA DeleteHits ==
    ASSUME HashAssumption, TableInv, NEW key \in Keys, hmap_delete(key),
           Holds(buckets[bucket_index(key, capacity)], key)
    PROVE  TableInv' /\ KV!Delete(key)
<1> DEFINE E == Stored
           b == bucket_index(key, capacity)
           j == Find(buckets[b], key)
           e == buckets[b][j]
           E2 == E \ {e}
<1>1. /\ hash' = hash /\ capacity' = capacity /\ count' = count - 1
      /\ buckets' = [buckets EXCEPT ![b] = RemoveAt(buckets[b], j)]
      /\ self' = self /\ bkts' = bkts
      /\ blocks' = blocks \ {e.copy, e.addr} /\ ret' = <<1>>
  BY DEF hmap_delete
<1>2. /\ hash \in [Keys -> Nat] /\ capacity \in Nat \ {0} /\ count \in Nat
      /\ Chained(hash, buckets, capacity, E)
      /\ OwnBlocks(blocks, self, bkts, E) /\ IsFiniteSet(E)
      /\ count = Cardinality(E) /\ 4 * count <= 3 * capacity
  BY DEF TableInv, TableOf
<1>3. /\ b \in 0 .. capacity - 1 /\ j \in 1 .. Len(buckets[b])
      /\ e \in E /\ e.key = key
  BY <1>2, Found
<1> HIDE DEF E, b, j
<1>4. Chained(hash, buckets', capacity, E2)
  BY <1>1, <1>2, <1>3, Removed
<1> HIDE DEF e
<1>5. OwnBlocks(blocks', self', bkts', E2)
  BY <1>1, <1>2, <1>3, OwnRemoved
<1>6. IsFiniteSet(E2) /\ Cardinality(E2) = Cardinality(E) - 1
  BY <1>2, <1>3, FS_RemoveElement
<1>7. count' \in Nat /\ count' = Cardinality(E2) /\ 4 * count' <= 3 * capacity
  <2>1. Cardinality(E2) \in Nat
    BY <1>6, FS_CardinalityType
  <2>2. count' = Cardinality(E2)
    BY <1>1, <1>2, <1>6
  <2>3. 4 * (count - 1) <= 3 * capacity
    BY <1>2
  <2> QED BY <1>1, <2>1, <2>2, <2>3
<1> HIDE DEF E2
<1>9. TableOf(hash', buckets', capacity', count', self', bkts', blocks', E2)
  BY <1>1, <1>2, <1>4, <1>5, <1>6, <1>7 DEF TableOf
<1>10. Dict = Mapping(E) /\ Dict' = Mapping(E2) /\ TableInv'
  BY <1>9, NextTable, ThisTable DEF E
<1>11. \A f \in E : f.key = key => f = e
  BY <1>2, <1>3, OneEntry
<1>12. \A f : (f \in E /\ f.key # key) <=> (f \in E2 /\ f.key # key)
  BY <1>3, <1>11 DEF E2
<1>13. Value(E2, key) = None
  <2>1. \A f \in E2 : f.key # key
    BY <1>11 DEF E2
  <2> QED BY <1>2, <1>4, <2>1, ValueOf
<1>14. Mapping(E2) = [Mapping(E) EXCEPT ![key] = None]
  BY <1>2, <1>4, <1>12, <1>13, OneKeyChanged
<1>15. Dict[key] # None
  <2>1. Value(E, key) = e.value /\ e.value \in Values
    BY <1>2, <1>3, ValueOf
  <2> QED BY <1>10, <2>1 DEF Mapping, HashAssumption
<1> QED BY <1>1, <1>10, <1>14, <1>15 DEF KV!Delete

\* A put of a key that is there changes its entry's value and nothing else.
LEMMA PutUpdates ==
    ASSUME HashAssumption, TableInv, NEW key \in Keys, NEW value \in Values,
           hmap_put(key, value), Holds(buckets[bucket_index(key, capacity)], key)
    PROVE  TableInv' /\ KV!Put(key, value)
<1> DEFINE E == Stored
           b == bucket_index(key, capacity)
           j == Find(buckets[b], key)
           e == buckets[b][j]
           e2 == [e EXCEPT !.value = value]
           E2 == (E \ {e}) \cup {e2}
<1>1. /\ hash' = hash /\ capacity' = capacity /\ count' = count /\ self' = self
      /\ bkts' = bkts /\ blocks' = blocks
      /\ buckets' = [buckets EXCEPT ![b][j].value = value] /\ ret' = <<>>
  BY DEF hmap_put
<1>2. /\ hash \in [Keys -> Nat] /\ capacity \in Nat \ {0} /\ count \in Nat
      /\ Chained(hash, buckets, capacity, E)
      /\ OwnBlocks(blocks, self, bkts, E) /\ IsFiniteSet(E)
      /\ count = Cardinality(E) /\ 4 * count <= 3 * capacity
  BY DEF TableInv, TableOf
<1>3. /\ b \in 0 .. capacity - 1 /\ j \in 1 .. Len(buckets[b])
      /\ e \in E /\ e.key = key
  BY <1>2, Found
<1> HIDE DEF E, b, j
<1>4. Chained(hash, buckets', capacity, E2)
  BY <1>1, <1>2, <1>3, Replaced
<1>5. e2.key = key /\ e2.value = value /\ e2.addr = e.addr /\ e2.copy = e.copy
  <2>1. e \in EntryType
    BY <1>2, <1>3 DEF Chained
  <2> QED BY <1>3, <2>1 DEF EntryType
<1> HIDE DEF e, e2
<1>6. OwnBlocks(blocks, self, bkts, E2)
  BY <1>2, <1>3, <1>5, OwnChanged
<1>7. IsFiniteSet(E2) /\ Cardinality(E2) = Cardinality(E)
  <2>1. IsFiniteSet(E \ {e}) /\ Cardinality(E \ {e}) = Cardinality(E) - 1
    BY <1>2, <1>3, FS_RemoveElement
  <2>2. e2 \notin E \ {e}
    <3> SUFFICES ASSUME e2 \in E, e2 # e PROVE FALSE
      OBVIOUS
    <3> QED BY <1>2, <1>3, <1>5, OneEntry
  <2>3. Cardinality(E) \in Nat
    BY <1>2
  <2> DEFINE D == E \ {e}
  <2>4. /\ IsFiniteSet(D) /\ e2 \notin D /\ E2 = D \cup {e2}
        /\ Cardinality(D) = Cardinality(E) - 1
    BY <2>1, <2>2
  <2> HIDE DEF D, E2
  <2>5. IsFiniteSet(E2) /\ Cardinality(E2) = Cardinality(D) + 1
    BY <2>4, FS_AddElement
  <2> QED BY <2>3, <2>4, <2>5
<1>8. \A f \in E : f.key = key => f = e
  BY <1>2, <1>3, OneEntry
<1>9. \A f : (f \in E /\ f.key # key) <=> (f \in E2 /\ f.key # key)
  BY <1>3, <1>5, <1>8
<1>10. e2 \in E2
  OBVIOUS
<1> HIDE DEF E2
<1>11. TableOf(hash', buckets', capacity', count', self', bkts', blocks', E2)
  BY <1>1, <1>2, <1>4, <1>6, <1>7 DEF TableOf
<1>12. Dict = Mapping(E) /\ Dict' = Mapping(E2) /\ TableInv'
  BY <1>11, NextTable, ThisTable DEF E
<1>13. Value(E2, key) = value
  BY <1>2, <1>4, <1>5, <1>10, ValueOf
<1>14. Mapping(E2) = [Mapping(E) EXCEPT ![key] = value]
  BY <1>2, <1>4, <1>9, <1>13, OneKeyChanged
<1> QED BY <1>1, <1>12, <1>14 DEF KV!Put

\* c is the count after each chain of a table.
Counted(n, c) == c = [i \in 0 .. n |-> IF i = 0 THEN 0 ELSE c[i - 1] + Len(buckets[i - 1])]

\* The count of rehash is defined for tables of every size.
LEMMA CountedExists ==
    ASSUME NEW n \in Nat
    PROVE  \E c : Counted(n, c)
<1> DEFINE T == {b \in Nat : ~ \E c : Counted(b, c)}
<1> SUFFICES ASSUME T # {} PROVE FALSE
  OBVIOUS
<1>1. PICK b \in T : \A y \in T : b <= y
  BY LeastNumber
<1>2. CASE b = 0
  <2> DEFINE c == [j \in 0 .. 0 |-> 0]
  <2>1. \A j \in 0 .. 0 : j = 0
    OBVIOUS
  <2>2. c = [i \in 0 .. 0 |-> IF i = 0 THEN 0 ELSE c[i - 1] + Len(buckets[i - 1])]
    BY <2>1
  <2>3. Counted(0, c)
    BY <2>2 DEF Counted
  <2> QED BY <1>1, <1>2, <2>3
<1>3. CASE b # 0
  <2>1. b \in Nat /\ b - 1 \in Nat /\ b - 1 \notin T
    BY <1>1, <1>3
  <2>2. PICK c : Counted(b - 1, c)
    BY <2>1
  <2> DEFINE Next1(g, i) == IF i = 0 THEN 0 ELSE g[i - 1] + Len(buckets[i - 1])
             h == [j \in 0 .. b |-> IF j < b THEN c[j] ELSE Next1(c, j)]
  <2>3. \A j \in 0 .. b - 1 : c[j] = Next1(c, j)
    BY <2>2 DEF Counted
  <2>4. ASSUME NEW j \in 0 .. b PROVE h[j] = Next1(h, j)
    <3>1. j = 0 \/ (j - 1 \in 0 .. b /\ j - 1 < b)
      BY <2>1
    <3>2. j # 0 => h[j - 1] = c[j - 1]
      BY <3>1
    <3>3. Next1(h, j) = Next1(c, j)
      BY <3>2
    <3>4. CASE j < b
      <4>1. j \in 0 .. b - 1 /\ h[j] = c[j]
        BY <2>1, <3>4
      <4> QED BY <2>3, <3>3, <4>1
    <3>5. CASE j = b
      <4>1. h[j] = Next1(c, j)
        BY <2>1, <3>5
      <4> QED BY <3>3, <4>1
    <3> QED BY <2>1, <3>4, <3>5
  <2>5. h = [j \in 0 .. b |-> Next1(h, j)]
    <3>1. h = [j \in 0 .. b |-> h[j]]
      OBVIOUS
    <3> HIDE DEF h, Next1
    <3> QED BY <2>4, <3>1
  <2> HIDE DEF h
  <2>6. Counted(b, h)
    BY <2>5 DEF Counted
  <2> QED BY <1>1, <2>6
<1> QED BY <1>2, <1>3

\* The increments of rehash add up to the number of entries.
LEMMA CountedAgain ==
    ASSUME hash \in [Keys -> Nat], capacity \in Nat \ {0}, NEW E, IsFiniteSet(E),
           Chained(hash, buckets, capacity, E)
    PROVE  rehash_count = Cardinality(E)
<1> DEFINE n == capacity
           Eq(f) == f = [i \in 0 .. n |-> IF i = 0 THEN 0 ELSE f[i - 1] + Len(buckets[i - 1])]
           c == CHOOSE f : Eq(f)
           Passed(i) == {e \in E : Slot(hash, e.key, capacity) < i}
<1>1. n \in Nat
  OBVIOUS
<1>2. rehash_count = c[n]
  BY DEF rehash_count
<1>3. \E f : Eq(f)
  <2> HIDE DEF n
  <2>1. PICK f : Counted(n, f)
    BY <1>1, CountedExists
  <2>2. Eq(f)
    BY <2>1 DEF Counted
  <2> QED BY <2>2
<1>4. Eq(c)
  <2> HIDE DEF Eq
  <2> QED BY <1>3
<1>5. \A i \in 0 .. n : c[i] = IF i = 0 THEN 0 ELSE c[i - 1] + Len(buckets[i - 1])
  <2> HIDE DEF c, n
  <2> QED BY <1>4
<1> HIDE DEF c, Eq
<1>6. \A e \in E : Slot(hash, e.key, capacity) \in 0 .. n - 1
  BY SlotRange DEF Chained, EntryType
<1> DEFINE Right(i) == c[i] = Cardinality(Passed(i))
           Bad == {i \in 0 .. n : ~ Right(i)}
<1>7. Bad = {}
  <2> SUFFICES ASSUME Bad # {} PROVE FALSE
    OBVIOUS
  <2>1. PICK i \in Bad : \A y \in Bad : i <= y
    <3>1. Bad \in SUBSET Nat
      OBVIOUS
    <3> QED BY <3>1, LeastNumber
  <2>2. CASE i = 0
    <3>1. c[0] = 0
      BY <1>1, <1>5
    <3>2. Passed(0) = {}
      BY <1>6
    <3> QED BY <2>1, <2>2, <3>1, <3>2, FS_EmptySet
  <2>3. CASE i # 0
    <3> DEFINE b == i - 1
               chain == buckets[b]
               Here == {e \in E : Slot(hash, e.key, capacity) = b}
    <3>1. i \in 1 .. n /\ b \in 0 .. n /\ b < i /\ b \in 0 .. n - 1
      BY <1>1, <2>1, <2>3
    <3>2. c[b] = Cardinality(Passed(b))
      <4>1. b \notin Bad
        BY <1>1, <2>1, <3>1
      <4> HIDE DEF b, Passed
      <4> QED BY <3>1, <4>1
    <3>3. c[i] = c[b] + Len(chain)
      BY <1>5, <2>1, <2>3
    <3>4. /\ chain \in Seq(EntryType)
          /\ \A x \in 1 .. Len(chain) : chain[x] \in E /\ Slot(hash, chain[x].key, capacity) = b
          /\ \A x, y \in 1 .. Len(chain) : chain[x].key = chain[y].key => x = y
          /\ \A e \in E : Slot(hash, e.key, capacity) = b =>
               \E x \in 1 .. Len(chain) : chain[x] = e
      BY <3>1 DEF Chained
    <3> HIDE DEF b, chain
    <3>5. IsFiniteSet(Here) /\ Cardinality(Here) = Len(chain)
      <4> DEFINE D == 1 .. Len(chain)
                 f == [x \in D |-> chain[x]]
      <4>1. Len(chain) \in Nat
        BY <3>4
      <4>2. IsFiniteSet(D) /\ Cardinality(D) = Len(chain)
        <5>1. /\ IsFiniteSet(1 .. Len(chain))
              /\ Cardinality(1 .. Len(chain)) = IF 1 > Len(chain) THEN 0 ELSE Len(chain) - 1 + 1
          <6>1. 1 \in Int /\ Len(chain) \in Int
            BY <4>1
          <6> QED BY <6>1, FS_Interval, Zenon
        <5> QED BY <4>1, <5>1
      <4>3. /\ f = [x \in D |-> f[x]] /\ \A x, y \in D : f[x] = f[y] => x = y
        BY <3>4
      <4>4. {f[x] : x \in D} = Here
        BY <3>4
      <4> HIDE DEF f, D, Here
      <4> QED BY <4>2, <4>3, <4>4, NamesCounted
    <3>6. Passed(i) = Passed(b) \cup Here /\ Passed(b) \cap Here = {}
      <4>1. \A e \in E : Slot(hash, e.key, capacity) < i <=>
              Slot(hash, e.key, capacity) < b \/ Slot(hash, e.key, capacity) = b
        BY <1>1, <1>6, <3>1 DEF b
      <4>2. \A e \in E : ~ (Slot(hash, e.key, capacity) < b /\ Slot(hash, e.key, capacity) = b)
        BY <1>1, <1>6, <3>1
      <4> QED BY <4>1, <4>2
    <3>7. IsFiniteSet(Passed(b)) /\ Cardinality(Passed(b)) \in Nat
      <4>1. Passed(b) \in SUBSET E
        OBVIOUS
      <4> HIDE DEF Passed
      <4> QED BY <4>1, FS_Subset, FS_CardinalityType
    <3> HIDE DEF Here, Passed
    <3>8. Cardinality(Passed(i)) = Cardinality(Passed(b)) + Len(chain)
      <4>1. Len(chain) \in Nat
        BY <3>4
      <4>2. Cardinality(Passed(b) \cup Here)
              = Cardinality(Passed(b)) + Cardinality(Here) - Cardinality(Passed(b) \cap Here)
        BY <3>5, <3>7, FS_Union
      <4>3. Cardinality(Passed(b) \cap Here) = 0
        BY <3>6, FS_EmptySet
      <4> QED BY <3>5, <3>6, <3>7, <4>1, <4>2, <4>3
    <3> QED BY <2>1, <3>2, <3>3, <3>8
  <2> QED BY <2>2, <2>3
<1>8. Right(n)
  <2>1. n \in 0 .. n
    BY <1>1
  <2> HIDE DEF Right
  <2> QED BY <1>7, <2>1
<1>9. Passed(n) = E
  BY <1>1, <1>6
<1> QED BY <1>2, <1>8, <1>9

\* The blocks after a growth and for a new entry are nobody's.
LEMMA NewBlocks ==
    ASSUME HashAssumption, NEW E, OwnBlocks(blocks, self, bkts, E),
           Cardinality(blocks) + 2 <= MaxAddr, NEW b2, NEW h2,
           \/ h2 = rehash_blocks /\ b2 = malloc(blocks)
           \/ h2 = blocks /\ b2 = bkts,
           NEW key \in Keys, NEW value \in Values, NEW e, e = entry_create(key, value, h2)
    PROVE  /\ e \in EntryType /\ e.key = key /\ e.value = value
           /\ OwnBlocks(h2 \cup {e.addr, e.copy}, self, b2, E \cup {e})
<1>1. MaxAddr \in Nat /\ blocks \in SUBSET (1 .. MaxAddr) /\ bkts \in blocks
  BY DEF HashAssumption, OwnBlocks
<1>2. IsFiniteSet(1 .. MaxAddr)
  BY <1>1, FS_Interval
<1>3. IsFiniteSet(blocks) /\ Cardinality(blocks) \in Nat
  BY <1>1, <1>2, FS_Subset, FS_CardinalityType
<1>4. malloc(blocks) \in (1 .. MaxAddr) \ blocks
  BY <1>1, <1>3, FreshBlock
<1>5. /\ OwnBlocks(h2, self, b2, E) /\ IsFiniteSet(h2)
      /\ Cardinality(h2) = Cardinality(blocks)
  <2>1. CASE h2 = rehash_blocks /\ b2 = malloc(blocks)
    <3> DEFINE D == blocks \cup {malloc(blocks)}
    <3>1. IsFiniteSet(D) /\ Cardinality(D) = Cardinality(blocks) + 1
      BY <1>3, <1>4, FS_AddElement
    <3>2. bkts \in D /\ rehash_blocks = D \ {bkts}
      BY <1>1 DEF rehash_blocks
    <3>3. OwnBlocks(D \ {bkts}, self, malloc(blocks), E)
      BY <1>4, OwnGrown
    <3> HIDE DEF D
    <3>4. IsFiniteSet(D \ {bkts}) /\ Cardinality(D \ {bkts}) = Cardinality(D) - 1
      BY <3>1, <3>2, FS_RemoveElement
    <3>5. /\ OwnBlocks(h2, self, b2, E) /\ IsFiniteSet(h2)
          /\ Cardinality(h2) = Cardinality(D) - 1
      BY <2>1, <3>2, <3>3, <3>4, Zenon
    <3> QED BY <1>3, <3>1, <3>5
  <2>2. CASE h2 = blocks /\ b2 = bkts
    BY <1>3, <2>2
  <2> QED BY <2>1, <2>2
<1> DEFINE a == malloc(h2)
           k == malloc(h2 \cup {a})
<1>6. h2 \in SUBSET (1 .. MaxAddr)
  BY <1>5 DEF OwnBlocks
<1>7. a \in (1 .. MaxAddr) \ h2
  BY <1>1, <1>3, <1>5, <1>6, FreshBlock
<1> HIDE DEF a
<1>8. k \in (1 .. MaxAddr) \ (h2 \cup {a})
  <2>1. Cardinality(h2 \cup {a}) = Cardinality(blocks) + 1
    BY <1>5, <1>7, FS_AddElement
  <2>2. h2 \cup {a} \in SUBSET (1 .. MaxAddr)
    BY <1>6, <1>7
  <2> QED BY <1>1, <1>3, <2>1, <2>2, FreshBlock
<1>9. e = [key |-> key, value |-> value, addr |-> a, copy |-> k]
  BY DEF entry_create, a
<1> HIDE DEF k
<1>10. e.addr = a /\ e.copy = k /\ e.key = key /\ e.value = value /\ e \in EntryType
  BY <1>7, <1>8, <1>9 DEF EntryType
<1>11. OwnBlocks(h2 \cup {e.addr, e.copy}, self, b2, E \cup {e})
  <2>1. /\ e.addr \in (1 .. MaxAddr) \ h2 /\ e.copy \in (1 .. MaxAddr) \ h2
        /\ e.addr # e.copy
    BY <1>7, <1>8, <1>10
  <2> HIDE <1>9
  <2> QED BY <1>5, <2>1, OwnAdded
<1> QED BY <1>10, <1>11

\* A put of a new key: the table grows if it must, and the entry is added.
LEMMA PutAdds ==
    ASSUME HashAssumption, TableInv, NEW key \in Keys, NEW value \in Values,
           hmap_put(key, value), ~ Holds(buckets[bucket_index(key, capacity)], key)
    PROVE  TableInv' /\ KV!Put(key, value)
<1> DEFINE E == Stored
           grow == overloaded(count + 1)
           cap == IF grow THEN 2 * capacity ELSE capacity
           table == IF grow THEN rehash(cap) ELSE buckets
           heap == IF grow THEN rehash_blocks ELSE blocks
           e == entry_create(key, value, heap)
           E2 == E \cup {e}
<1>2. /\ hash \in [Keys -> Nat] /\ capacity \in Nat \ {0} /\ count \in Nat
      /\ Chained(hash, buckets, capacity, E)
      /\ OwnBlocks(blocks, self, bkts, E) /\ IsFiniteSet(E)
      /\ count = Cardinality(E) /\ 4 * count <= 3 * capacity
  BY DEF TableInv, TableOf
<1>1. /\ Cardinality(blocks) + 2 <= MaxAddr /\ hash' = hash /\ capacity' = cap
      /\ self' = self /\ bkts' = (IF grow THEN malloc(blocks) ELSE bkts)
      /\ blocks' = heap \cup {e.addr, e.copy} /\ ret' = <<>>
      /\ buckets' = [table EXCEPT ![new_index(key, cap)] = <<e>> \o @]
      /\ count' = (IF grow THEN rehash_count ELSE count) + 1
  BY DEF hmap_put
<1>3. \A f \in E : f.key # key
  BY <1>2, Found
<1> HIDE DEF E
<1>0. count' = count + 1
  BY <1>1, <1>2, CountedAgain
<1>4. /\ e \in EntryType /\ e.key = key /\ e.value = value
      /\ OwnBlocks(blocks', self', bkts', E2)
  <2>1. \/ heap = rehash_blocks /\ bkts' = malloc(blocks)
        \/ heap = blocks /\ bkts' = bkts
    BY <1>1
  <2>2. e = entry_create(key, value, heap)
    OBVIOUS
  <2> HIDE DEF heap, e
  <2>3. /\ e \in EntryType /\ e.key = key /\ e.value = value
        /\ OwnBlocks(heap \cup {e.addr, e.copy}, self, bkts', E \cup {e})
    <3>1. OwnBlocks(blocks, self, bkts, E) /\ Cardinality(blocks) + 2 <= MaxAddr
      BY <1>1, <1>2
    <3> QED BY <2>1, <2>2, <3>1, NewBlocks, SMTT(60)
  <2> QED BY <1>1, <2>3
<1> HIDE DEF e, heap
<1>5. cap \in Nat \ {0} /\ 4 * (count + 1) <= 3 * cap
  <2>1. CASE grow
    BY <1>2, <2>1
  <2>2. CASE ~ grow
    BY <1>2, <2>2 DEF overloaded
  <2> QED BY <2>1, <2>2
<1>6. Chained(hash, table, cap, E)
  <2>1. CASE grow
    <3>1. Chained(hash, rehash(cap), cap, E)
      BY <1>2, <1>5, Rehashed
    <3> QED BY <2>1, <3>1
  <2>2. CASE ~ grow
    BY <1>2, <2>2
  <2> QED BY <2>1, <2>2
<1> HIDE DEF table, cap, grow
<1>7. Chained(hash, buckets', cap, E2)
  <2>1. buckets' = prepend(table, cap, e)
    BY <1>1, <1>4 DEF prepend, new_index
  <2> QED BY <1>2, <1>3, <1>4, <1>5, <1>6, <2>1, Prepended
<1>9. IsFiniteSet(E2) /\ Cardinality(E2) = count + 1
  <2>1. e \notin E
    BY <1>3, <1>4
  <2> QED BY <1>2, <2>1, FS_AddElement
<1>11. \A f : (f \in E /\ f.key # key) <=> (f \in E2 /\ f.key # key)
  BY <1>4
<1>12. e \in E2
  OBVIOUS
<1> HIDE DEF E2
<1>13. TableOf(hash', buckets', capacity', count', self', bkts', blocks', E2)
  <2>1. /\ hash' \in [Keys -> Nat] /\ capacity' \in Nat \ {0} /\ count' \in Nat
        /\ count' = Cardinality(E2) /\ 4 * count' <= 3 * capacity'
    BY <1>0, <1>1, <1>2, <1>5, <1>9
  <2>2. Chained(hash', buckets', capacity', E2)
    BY <1>1, <1>7
  <2> QED BY <1>4, <1>9, <2>1, <2>2 DEF TableOf
<1>14. Dict = Mapping(E) /\ Dict' = Mapping(E2) /\ TableInv'
  BY <1>13, NextTable, ThisTable DEF E
<1>15. Value(E2, key) = value
  BY <1>2, <1>4, <1>5, <1>7, <1>12, ValueOf
<1>16. Mapping(E2) = [Mapping(E) EXCEPT ![key] = value]
  <2>1. /\ hash \in [Keys -> Nat] /\ capacity \in Nat \ {0} /\ cap \in Nat \ {0}
        /\ Chained(hash, buckets, capacity, E)
    BY <1>2, <1>5
  <2>2. Mapping(E2) = [Mapping(E) EXCEPT ![key] = Value(E2, key)]
    BY <1>7, <1>11, <2>1, OneKeyChanged
  <2> QED BY <1>15, <2>2
<1> QED BY <1>1, <1>14, <1>16 DEF KV!Put

\* What each call keeps, and what it does to the dictionary.
LEMMA CallStep ==
    ASSUME HashAssumption, TableInv
    PROVE  /\ hmap_free => TableInv' /\ KV!Renew
           /\ \A key \in Keys :
                /\ hmap_get(key) => TableInv' /\ KV!Get(key)
                /\ hmap_delete(key) => TableInv' /\ KV!Delete(key)
                /\ \A value \in Values : hmap_put(key, value) => TableInv' /\ KV!Put(key, value)
<1>1. hmap_free => TableInv' /\ KV!Renew
  BY FreeStep
<1>2. \A key \in Keys : hmap_get(key) => TableInv' /\ KV!Get(key)
  BY GetStep
<1>3. \A key \in Keys : hmap_delete(key) => TableInv' /\ KV!Delete(key)
  BY DeleteMisses, DeleteHits
<1>4. \A key \in Keys : \A value \in Values :
        hmap_put(key, value) => TableInv' /\ KV!Put(key, value)
  BY PutUpdates, PutAdds
<1> QED BY <1>1, <1>2, <1>3, <1>4

\* A step that changes nothing changes nothing of the table or the dictionary.
LEMMA StutterStep ==
    ASSUME TableInv, UNCHANGED vars
    PROVE  TableInv' /\ UNCHANGED <<Dict, ret>>
<1>1. /\ hash' = hash /\ capacity' = capacity /\ buckets' = buckets
      /\ count' = count /\ self' = self /\ bkts' = bkts /\ blocks' = blocks
      /\ ret' = ret
  BY DEF vars
<1>2. TableOf(hash', buckets', capacity', count', self', bkts', blocks', Stored)
  BY <1>1 DEF TableInv
<1>3. TableInv' /\ Dict' = Mapping(Stored) /\ Dict = Mapping(Stored)
  BY <1>2, NextTable, ThisTable
<1> QED BY <1>1, <1>3

\* The invariant is inductive, and every step is one of the dictionary's.
LEMMA TableInductive ==
    ASSUME HashAssumption, TableInv, [Next]_vars
    PROVE  TableInv' /\ [KV!Next]_<<Dict, ret>>
<1>1. CASE Next
  BY <1>1, CallStep DEF Next, KV!Next
<1>2. CASE UNCHANGED vars
  BY <1>2, StutterStep
<1> QED BY <1>1, <1>2

-----------------------------------------------------------------------------
\* The invariant holds in every state.
LEMMA TableInvariant == ASSUME HashAssumption PROVE Spec => []TableInv
<1>1. Init => TableInv
  BY TableInit
<1>2. TableInv /\ [Next]_vars => TableInv'
  BY TableInductive
<1> QED BY <1>1, <1>2, PTL DEF Spec

(***************************************************************************)
(* For any keys, values, hash function and first capacity: in every state  *)
(* the blocks in use are exactly the HashMap, its present bucket array,    *)
(* the entries and their keys' copies, all different; count is the number  *)
(* of entries, each key is in one entry at most and that in the bucket its *)
(* hash selects now, and the table is at most three quarters full.         *)
(***************************************************************************)
THEOREM TableSound ==
    ASSUME HashAssumption
    PROVE  Spec => [](MemoryExact /\ WellPlaced /\ LoadBounded)
<1>1. TableInv => MemoryExact /\ WellPlaced /\ LoadBounded
  BY CountsExactly, PlacedWell DEF TableInv, TableOf, LoadBounded
<1> QED BY <1>1, TableInvariant, PTL

(***************************************************************************)
(* The table implements the dictionary, through every growth and every     *)
(* collision, and each call does and returns what the dictionary's call of *)
(* that name does.                                                         *)
(***************************************************************************)
THEOREM TableIsDictionary ==
    ASSUME HashAssumption
    PROVE  Spec => IsDictionary /\ CallsConform
<1>1. Init => KV!Init
  BY TableInit
<1>2. TableInv /\ [Next]_vars => [KV!Next]_<<Dict, ret>>
  BY TableInductive
<1>3. TableInv /\ [Next]_vars =>
        [ /\ \A k \in Keys :
               /\ hmap_get(k) => KV!Get(k)
               /\ hmap_delete(k) => KV!Delete(k)
               /\ \A v \in Values : hmap_put(k, v) => KV!Put(k, v)
          /\ hmap_free => KV!Renew ]_vars
  BY CallStep
<1> QED BY <1>1, <1>2, <1>3, TableInvariant, PTL DEF Spec, IsDictionary,
                                                     CallsConform, KV!Spec
==============================================================================
