------------------------------ MODULE DynArray ------------------------------
(***************************************************************************)
(* The growing arrays of exercise 8 (IntVec) and exercise 21 (GenVec).     *)
(* Both keep a block from malloc, a length and a capacity, and double the  *)
(* block when it is full; realloc may fail, stay in place or move.  A      *)
(* block is the sequence of its cells, Junk until written.  The proofs at  *)
(* the end hold for any number of addresses and values, any initial        *)
(* capacity and any length.                                                *)
(***************************************************************************)
EXTENDS Integers, Sequences, TLAPS

CONSTANTS Values, Junk, Blocks, NullPtr,
          InitCap,          \* the argument of vec_create
          MaxLen            \* bound on the length

ASSUME ArrayAssumption ==
    /\ Values \subseteq Nat /\ Junk \notin Values
    /\ NullPtr \notin Blocks
    /\ InitCap \in Nat \ {0} /\ MaxLen \in Nat

VARIABLES kind,             \* which of the two arrays
          exists,           \* created and not yet freed
          pc,               \* "idle", or "create" between the mallocs of vec_create
          data, len, cap,   \* the fields
          mem, live,        \* the heap's blocks, and the allocated ones
          hdr,              \* IntVec's own block is allocated
          rc                \* what the last call returned

vars == <<kind, exists, pc, data, len, cap, mem, live, hdr, rc>>

Cell == Values \cup {Junk}

Init ==
    /\ kind \in {"IntVec", "GenVec"} /\ exists = FALSE /\ pc = "idle"
    /\ data = NullPtr /\ len = 0 /\ cap = 0
    /\ mem = [a \in Blocks |-> <<>>] /\ live = {}
    /\ hdr = FALSE /\ rc = 0

-----------------------------------------------------------------------------
\* genvec_new allocates nothing.
genvec_new ==
    /\ kind = "GenVec" /\ ~exists /\ exists' = TRUE
    /\ rc' = 0
    /\ UNCHANGED <<kind, pc, data, len, cap, mem, live, hdr>>

\* vec_create: the header, or NULL at once,
create_header ==
    /\ kind = "IntVec" /\ ~exists /\ pc = "idle"
    /\ \/ hdr' = TRUE /\ pc' = "create" /\ UNCHANGED rc
       \/ rc' = -1 /\ UNCHANGED <<hdr, pc>>
    /\ UNCHANGED <<kind, exists, data, len, cap, mem, live>>

\* then the cells; when their malloc fails the header is freed again.
create_failed ==
    /\ hdr' = FALSE /\ rc' = -1
    /\ UNCHANGED <<exists, data, len, cap, mem, live>>

create_data ==
    /\ pc = "create"
    /\ \/ create_failed
       \/ /\ exists' = TRUE /\ rc' = 0
          /\ \E a \in Blocks \ live :
                /\ data' = a /\ live' = live \cup {a}
                /\ mem' = [mem EXCEPT ![a] = [i \in 1 .. InitCap |-> Junk]]
          /\ len' = 0 /\ cap' = InitCap
          /\ UNCHANGED hdr
    /\ pc' = "idle"
    /\ UNCHANGED kind

vec_create == create_header \/ create_data

newcap == IF kind = "GenVec" /\ cap = 0 THEN 4 ELSE cap * 2

\* Where realloc may put the block: in place or elsewhere.
Places == (Blocks \ live) \cup ({data} \ {NullPtr})

\* A block of n cells that begins with the cells of s.
Resized(s, n) == [i \in 1 .. n |-> IF i <= Len(s) THEN s[i] ELSE Junk]

\* Wrong: a new block is allocated and the old one not copied.
OldBlock_lost == <<>>
OldBlock == IF data = NullPtr THEN <<>> ELSE mem[data]

\* realloc returned NullPtr: the push is dropped and the old block stays.
grow_failed == UNCHANGED <<data, len, cap, mem, live>>

\* vec_push when the block is full and realloc found a place for twice as much.
push_grown(v) ==
    /\ \E b \in Places :
          /\ mem' = [a \in Blocks |->
                       IF a = b THEN [Resized(OldBlock, newcap) EXCEPT ![len + 1] = v]
                       ELSE IF a = data THEN <<>> ELSE mem[a]]
          /\ data' = b /\ live' = (live \ {data}) \cup {b}
    /\ cap' = newcap
    /\ len' = len + 1 /\ rc' = 0

\* genvec_push, and vec_push, which returns nothing: its caller cannot tell.
push(v) ==
    /\ exists /\ len < MaxLen
    /\ \/ /\ len # cap
          /\ mem' = [mem EXCEPT ![data] = [mem[data] EXCEPT ![len + 1] = v]]
          /\ len' = len + 1 /\ rc' = 0
          /\ UNCHANGED <<data, cap, live>>
       \/ len = cap /\ grow_failed /\ rc' = -1
       \/ len = cap /\ push_grown(v)
    /\ UNCHANGED <<kind, exists, pc, hdr>>

\* qsort: some rearrangement of the first len cells that cmp accepts.
Rearrangements == {f \in [1 .. len -> 1 .. len] : \A i, j \in 1 .. len : f[i] = f[j] => i = j}

genvec_sort ==
    /\ kind = "GenVec" /\ exists
    /\ \/ data = NullPtr /\ UNCHANGED mem
       \/ /\ data # NullPtr
          /\ \E f \in Rearrangements :
                /\ \A i, j \in 1 .. len : i < j => mem[data][f[i]] <= mem[data][f[j]]
                /\ mem' = [mem EXCEPT ![data] =
                       [i \in 1 .. cap |-> IF i <= len THEN mem[data][f[i]] ELSE mem[data][i]]]
    /\ rc' = 0
    /\ UNCHANGED <<kind, exists, pc, data, len, cap, live, hdr>>

free_data ==
    /\ live' = live \ {data}
    /\ mem' = [a \in Blocks |-> IF a = data THEN <<>> ELSE mem[a]]
    /\ data' = NullPtr /\ len' = 0 /\ cap' = 0
    /\ rc' = 0

\* A freed GenVec can be used again, a freed IntVec is gone with its header.
genvec_free == kind = "GenVec" /\ exists /\ free_data /\ UNCHANGED <<kind, exists,
                                                                     pc, hdr>>

vec_free ==
    /\ kind = "IntVec" /\ exists /\ free_data
    /\ exists' = FALSE /\ hdr' = FALSE
    /\ UNCHANGED <<kind, pc>>

Next ==
    \/ genvec_new \/ genvec_sort \/ genvec_free
    \/ vec_create \/ vec_free
    \/ \E v \in Values : push(v)

Spec == Init /\ [][Next]_vars

-----------------------------------------------------------------------------
TypeOK ==
    /\ kind \in {"IntVec", "GenVec"} /\ exists \in BOOLEAN /\ hdr \in BOOLEAN
    /\ pc \in {"idle", "create"} /\ data \in Blocks \cup {NullPtr}
    /\ len \in Nat /\ cap \in Nat
    /\ mem \in [Blocks -> Seq(Cell)]
    /\ live \subseteq Blocks
    /\ rc \in {-1, 0}

\* The elements, as a caller of genvec_get sees them.
Contents == [i \in 1 .. len |-> mem[data][i]]

(***************************************************************************)
(* The block has as many cells as cap says and holds the len elements, all *)
(* of them written: no push writes and no genvec_get reads outside it, and *)
(* no element is uninitialised memory.                                     *)
(***************************************************************************)
Fits ==
    /\ len <= cap
    /\ data = NullPtr => cap = 0
    /\ data # NullPtr => Len(mem[data]) = cap /\ \A i \in 1 .. len : mem[data][i] \in Values

(***************************************************************************)
(* The allocated blocks are the array's own, through failed and moving     *)
(* reallocs and a vec_create that fails at either malloc: nothing is       *)
(* leaked, and nothing freed is used.                                      *)
(***************************************************************************)
MemoryExact ==
    /\ live = {data} \ {NullPtr}
    /\ hdr <=> (kind = "IntVec" /\ (exists \/ pc = "create"))

(***************************************************************************)
(* A push that succeeds appends its value and keeps every element, one     *)
(* that fails changes nothing.                                             *)
(***************************************************************************)
PushAppends ==
    [][\A v \in Values : push(v) =>
          IF rc' = 0 THEN Contents' = Append(Contents, v) ELSE Contents' = Contents]_vars

-----------------------------------------------------------------------------
(***************************************************************************)
(* The inductive invariant.  TypeOK and Fits need each other (the cell a   *)
(* push writes exists because the block has cap cells), and MemoryExact is *)
(* what makes the block a moving realloc reaches distinct from the old     *)
(* one.  CanDouble is the strengthening: doubling makes room only because  *)
(* an IntVec never has capacity 0, which is what InitCap # 0 is for.       *)
(***************************************************************************)
CanDouble == exists /\ kind = "IntVec" => cap > 0

\* An array that does not exist holds no block for vec_create to lose, and only
\* an IntVec that does not exist is being created.
Absent == (~exists => data = NullPtr) /\ (pc = "create" => ~exists /\ kind = "IntVec")

ArrayInv == TypeOK /\ Fits /\ MemoryExact /\ CanDouble /\ Absent

-----------------------------------------------------------------------------
\* A resized block has the asked size and keeps the cells it had.
LEMMA ResizedCells ==
    ASSUME NEW s \in Seq(Cell), NEW n \in Nat
    PROVE  /\ Resized(s, n) \in Seq(Cell)
           /\ Len(Resized(s, n)) = n
           /\ \A i \in 1 .. n : i <= Len(s) => Resized(s, n)[i] = s[i]
  <1>1. \A i \in 1 .. n : (IF i <= Len(s) THEN s[i] ELSE Junk) \in Cell
    BY DEF Cell
  <1>2. Resized(s, n) \in [1 .. n -> Cell]
    BY <1>1 DEF Resized
  <1> QED
    BY <1>2 DEF Resized

\* Writing a cell of a block keeps its size and its other cells.
LEMMA WrittenCell ==
    ASSUME NEW s \in Seq(Cell), NEW k \in 1 .. Len(s), NEW v \in Values
    PROVE  /\ [s EXCEPT ![k] = v] \in Seq(Cell)
           /\ Len([s EXCEPT ![k] = v]) = Len(s)
           /\ [s EXCEPT ![k] = v][k] = v
           /\ \A i \in 1 .. Len(s) : i # k => [s EXCEPT ![k] = v][i] = s[i]
  <1>1. v \in Cell
    BY DEF Cell
  <1> QED
    BY <1>1

\* The first n cells of a block depend on the block and n only.
LEMMA SameCells ==
    ASSUME NEW s, NEW t, NEW m, NEW n, s = t, m = n
    PROVE  [i \in 1 .. m |-> s[i]] = [i \in 1 .. n |-> t[i]]
  OBVIOUS

\* The doubled block has room for one more element.
LEMMA GrowthMakesRoom ==
    ASSUME ArrayInv, exists, len = cap
    PROVE  newcap \in Nat /\ len + 1 <= newcap
  <1>1. CASE kind = "GenVec" /\ cap = 0
    BY <1>1 DEF newcap, ArrayInv, TypeOK
  <1>2. CASE cap # 0
    BY <1>2 DEF newcap, ArrayInv, TypeOK
  <1>3. CASE kind = "IntVec" /\ cap = 0
    BY <1>3 DEF ArrayInv, TypeOK, CanDouble
  <1> QED
    BY <1>1, <1>2, <1>3 DEF ArrayInv, TypeOK

(***************************************************************************)
(* Before the first call there is no array, and the invariant holds.       *)
(***************************************************************************)
LEMMA InitArray == ASSUME Init PROVE ArrayInv
  <1>1. <<>> \in Seq(Cell)
    OBVIOUS
  <1>2. TypeOK
    BY <1>1 DEF Init, TypeOK
  <1>3. Fits
    BY DEF Init, Fits
  <1>4. MemoryExact /\ CanDouble /\ Absent
    BY DEF Init, MemoryExact, CanDouble, Absent
  <1> QED
    BY <1>2, <1>3, <1>4 DEF ArrayInv

\* A push into a block that has room.
LEMMA PushInPlace ==
    ASSUME ArrayInv, NEW v \in Values, exists, len # cap,
           mem' = [mem EXCEPT ![data] = [mem[data] EXCEPT ![len + 1] = v]],
           len' = len + 1, rc' = 0,
           UNCHANGED <<data, cap, live, kind, exists, pc, hdr>>
    PROVE  ArrayInv' /\ Contents' = Append(Contents, v)
  <1>1. /\ data \in Blocks /\ mem[data] \in Seq(Cell) /\ Len(mem[data]) = cap
        /\ len \in Nat /\ cap \in Nat /\ len + 1 \in 1 .. Len(mem[data])
    BY DEF ArrayInv, TypeOK, Fits
  <1> DEFINE s == [mem[data] EXCEPT ![len + 1] = v]
  <1>2. /\ s \in Seq(Cell) /\ Len(s) = cap /\ s[len + 1] = v
        /\ \A i \in 1 .. cap : i # len + 1 => s[i] = mem[data][i]
    BY <1>1, WrittenCell
  <1>3. mem'[data] = s /\ mem' \in [Blocks -> Seq(Cell)]
    BY <1>1, <1>2 DEF ArrayInv, TypeOK
  <1> HIDE DEF s
  <1>4. TypeOK'
    BY <1>1, <1>3 DEF ArrayInv, TypeOK
  <1>5. Fits'
    <2>1. \A i \in 1 .. len + 1 : s[i] \in Values
      BY <1>1, <1>2 DEF ArrayInv, Fits
    <2> QED
      BY <1>1, <1>2, <1>3, <2>1 DEF ArrayInv, Fits
  <1>6. MemoryExact' /\ CanDouble' /\ Absent'
    BY DEF ArrayInv, MemoryExact, CanDouble, Absent
  <1>7. Contents' = Append(Contents, v)
    <2>1. Contents' = [i \in 1 .. len + 1 |-> s[i]]
      BY <1>3 DEF Contents
    <2>2. Contents \in Seq(Cell) /\ Len(Contents) = len
      BY <1>1 DEF Contents
    <2> QED
      BY <1>1, <1>2, <2>1, <2>2 DEF Contents
  <1> QED
    BY <1>4, <1>5, <1>6, <1>7 DEF ArrayInv

\* A push into a full block that realloc has doubled, in place or elsewhere.
LEMMA PushGrows ==
    ASSUME ArrayInv, NEW v \in Values, exists, len = cap, NEW b \in Places,
           mem' = [a \in Blocks |->
                     IF a = b THEN [Resized(OldBlock, newcap) EXCEPT ![len + 1] = v]
                     ELSE IF a = data THEN <<>> ELSE mem[a]],
           data' = b, live' = (live \ {data}) \cup {b},
           cap' = newcap, len' = len + 1, rc' = 0,
           UNCHANGED <<kind, exists, pc, hdr>>
    PROVE  ArrayInv' /\ Contents' = Append(Contents, v)
  <1> DEFINE old == OldBlock
             r == Resized(old, newcap)
             s == [r EXCEPT ![len + 1] = v]
  <1>1. len \in Nat /\ cap \in Nat /\ newcap \in Nat /\ len + 1 <= newcap
    BY GrowthMakesRoom DEF ArrayInv, TypeOK
  <1>2. b \in Blocks
    BY DEF Places, ArrayInv, TypeOK
  <1>3. old \in Seq(Cell) /\ Len(old) = len
    BY DEF OldBlock, ArrayInv, TypeOK, Fits
  <1>4. /\ r \in Seq(Cell) /\ Len(r) = newcap
        /\ \A i \in 1 .. len : r[i] = old[i]
    <2> HIDE DEF old
    <2>1. /\ r \in Seq(Cell) /\ Len(r) = newcap
          /\ \A i \in 1 .. newcap : i <= Len(old) => r[i] = old[i]
      BY <1>1, <1>3, ResizedCells
    <2> QED
      BY <1>1, <1>3, <2>1
  <1> HIDE DEF old, r
  <1>5. /\ s \in Seq(Cell) /\ Len(s) = newcap /\ s[len + 1] = v
        /\ \A i \in 1 .. len : s[i] = old[i]
    BY <1>1, <1>4, WrittenCell
  <1>6. mem'[b] = s
    BY <1>2 DEF s, r, old
  <1> HIDE DEF s
  <1>7. mem' \in [Blocks -> Seq(Cell)]
    BY <1>5 DEF ArrayInv, TypeOK, s, r, old
  <1>8. \A i \in 1 .. len : old[i] \in Values /\ old[i] = mem[data][i]
    <2>1. CASE data = NullPtr
      BY <1>1, <2>1 DEF ArrayInv, Fits
    <2>2. CASE data # NullPtr
      BY <1>1, <2>2 DEF old, OldBlock, ArrayInv, Fits
    <2> QED
      BY <2>1, <2>2
  <1>9. TypeOK'
    BY <1>1, <1>2, <1>7 DEF ArrayInv, TypeOK
  <1>10. Fits'
    BY <1>1, <1>2, <1>5, <1>6, <1>8, ArrayAssumption DEF Fits
  <1>11. MemoryExact' /\ CanDouble' /\ Absent'
    BY <1>1, <1>2, ArrayAssumption DEF ArrayInv, MemoryExact, CanDouble, Absent
  <1>12. Contents' = Append(Contents, v)
    <2>1. Contents' = [i \in 1 .. len + 1 |-> s[i]]
      <3>1. mem'[data'] = s /\ len' = len + 1
        BY <1>6
      <3>2. Contents' = [i \in 1 .. len' |-> mem'[data'][i]]
        BY DEF Contents
      <3> QED
        BY <3>1, <3>2, SameCells
    <2>2. Contents = [i \in 1 .. len |-> old[i]]
      BY <1>8 DEF Contents
    <2>3. Contents \in Seq(Values) /\ Len(Contents) = len
      BY <1>1, <1>8, <2>2
    <2> QED
      BY <1>1, <1>5, <2>1, <2>2, <2>3
  <1> QED
    BY <1>9, <1>10, <1>11, <1>12 DEF ArrayInv

\* Every push, the failing one too.
LEMMA PushStep ==
    ASSUME ArrayInv, NEW v \in Values, push(v)
    PROVE  /\ ArrayInv'
           /\ IF rc' = 0 THEN Contents' = Append(Contents, v) ELSE Contents' = Contents
  <1>1. CASE len # cap
    BY <1>1, PushInPlace DEF push
  <1>2. CASE len = cap /\ grow_failed /\ rc' = -1
    BY <1>2 DEF push, grow_failed, ArrayInv, TypeOK, Fits, MemoryExact, CanDouble,
                Absent, Contents
  <1>3. CASE len = cap /\ rc' = 0
    <2>1. PICK b \in Places :
            /\ mem' = [a \in Blocks |->
                         IF a = b THEN [Resized(OldBlock, newcap) EXCEPT ![len + 1] = v]
                         ELSE IF a = data THEN <<>> ELSE mem[a]]
            /\ data' = b /\ live' = (live \ {data}) \cup {b}
      BY <1>3 DEF push, push_grown
    <2>2. cap' = newcap /\ len' = len + 1 /\ UNCHANGED <<kind, exists, pc, hdr>>
      BY <1>3 DEF push, push_grown
    <2> QED
      BY <1>3, <2>1, <2>2, PushGrows DEF push
  <1> QED
    BY <1>1, <1>2, <1>3 DEF push, push_grown

\* Sorting permutes the elements within their cells.
LEMMA SortStep == ASSUME ArrayInv, genvec_sort PROVE ArrayInv'
  <1>1. CASE data = NullPtr
    BY <1>1 DEF genvec_sort, ArrayInv, TypeOK, Fits, MemoryExact, CanDouble, Absent
  <1>2. CASE data # NullPtr
    <2>1. PICK f \in Rearrangements :
            mem' = [mem EXCEPT ![data] =
                [i \in 1 .. cap |-> IF i <= len THEN mem[data][f[i]] ELSE mem[data][i]]]
      BY <1>2 DEF genvec_sort
    <2> DEFINE s == [i \in 1 .. cap |-> IF i <= len THEN mem[data][f[i]] ELSE mem[data][i]]
    <2>2. /\ data \in Blocks /\ mem[data] \in Seq(Cell) /\ Len(mem[data]) = cap
          /\ len \in Nat /\ cap \in Nat /\ len <= cap
          /\ \A i \in 1 .. len : mem[data][i] \in Values
      BY <1>2 DEF ArrayInv, TypeOK, Fits
    <2>3. \A i \in 1 .. len : f[i] \in 1 .. len
      BY DEF Rearrangements
    <2>4. s \in [1 .. cap -> Cell] /\ \A i \in 1 .. len : s[i] \in Values
      BY <2>2, <2>3 DEF Cell
    <2>5. s \in Seq(Cell) /\ Len(s) = cap
      BY <2>2, <2>4
    <2>6. mem'[data] = s /\ mem' \in [Blocks -> Seq(Cell)]
      BY <2>1, <2>2, <2>5 DEF ArrayInv, TypeOK
    <2> HIDE DEF s
    <2> QED
      BY <1>2, <2>2, <2>4, <2>5, <2>6
      DEF genvec_sort, ArrayInv, TypeOK, Fits, MemoryExact, CanDouble, Absent
  <1> QED
    BY <1>1, <1>2

(***************************************************************************)
(* Creating an array, with or without success of its mallocs, keeps the    *)
(* invariant.                                                              *)
(***************************************************************************)
LEMMA CreateStep == ASSUME ArrayInv, vec_create PROVE ArrayInv'
  <1>1. CASE create_header
    <2>1. /\ kind = "IntVec" /\ ~exists /\ pc = "idle"
          /\ UNCHANGED <<kind, exists, data, len, cap, mem, live>>
          /\ \/ hdr' = TRUE /\ pc' = "create" /\ rc' = rc
             \/ rc' = -1 /\ hdr' = hdr /\ pc' = "idle"
      BY <1>1 DEF create_header
    <2>2. TypeOK' /\ Fits'
      BY <2>1 DEF ArrayInv, TypeOK, Fits
    <2>3. MemoryExact'
      BY <2>1 DEF ArrayInv, TypeOK, MemoryExact
    <2>4. CanDouble' /\ Absent'
      BY <2>1 DEF ArrayInv, CanDouble, Absent
    <2> QED
      BY <2>2, <2>3, <2>4 DEF ArrayInv
  <1>3. CASE create_data /\ create_failed
    BY <1>3 DEF create_data, create_failed, ArrayInv, TypeOK, Fits, MemoryExact,
                CanDouble, Absent
  <1>2. CASE create_data /\ exists' /\ rc' = 0
    <2>1. PICK a \in Blocks \ live :
            /\ data' = a /\ live' = live \cup {a}
            /\ mem' = [mem EXCEPT ![a] = [i \in 1 .. InitCap |-> Junk]]
            /\ len' = 0 /\ cap' = InitCap
      BY <1>2 DEF create_data, create_failed
    <2>5. UNCHANGED <<kind, hdr>> /\ pc' = "idle" /\ pc = "create"
      BY <1>2 DEF create_data, create_failed
    <2> DEFINE s == [i \in 1 .. InitCap |-> Junk]
    <2>2. s \in Seq(Cell) /\ Len(s) = InitCap
      BY ArrayAssumption DEF Cell
    <2>3. mem'[a] = s /\ mem' \in [Blocks -> Seq(Cell)]
      BY <2>1, <2>2 DEF ArrayInv, TypeOK
    <2> HIDE DEF s
    <2>4. data = NullPtr
      BY <2>5 DEF ArrayInv, Absent
    <2> QED
      BY <1>2, <2>1, <2>2, <2>3, <2>4, <2>5, ArrayAssumption
      DEF ArrayInv, TypeOK, Fits, MemoryExact, CanDouble, Absent
  <1> QED
    BY <1>1, <1>2, <1>3 DEF vec_create, create_data

(***************************************************************************)
(* Freeing an array gives back every block it owns and keeps the           *)
(* invariant.                                                              *)
(***************************************************************************)
LEMMA FreeStep == ASSUME ArrayInv, genvec_free \/ vec_free PROVE ArrayInv'
  <1>1. <<>> \in Seq(Cell)
    OBVIOUS
  <1>2. TypeOK'
    <2>1. /\ free_data /\ kind' = kind /\ pc' = pc /\ exists' \in BOOLEAN
          /\ hdr' \in BOOLEAN
      BY DEF genvec_free, vec_free, ArrayInv, TypeOK
    <2>2. mem' \in [Blocks -> Seq(Cell)]
      BY <1>1, <2>1 DEF free_data, ArrayInv, TypeOK
    <2> QED
      BY <2>1, <2>2 DEF free_data, ArrayInv, TypeOK
  <1>3. Fits'
    BY DEF genvec_free, vec_free, free_data, Fits
  <1>4. MemoryExact' /\ CanDouble' /\ Absent'
    BY DEF genvec_free, vec_free, free_data, ArrayInv, TypeOK, MemoryExact,
       CanDouble, Absent
  <1> QED
    BY <1>2, <1>3, <1>4 DEF ArrayInv

(***************************************************************************)
(* Every call of either array keeps the invariant.                         *)
(***************************************************************************)
LEMMA ArrayInductive == ASSUME ArrayInv, [Next]_vars PROVE ArrayInv'
  <1>1. CASE genvec_new
    BY <1>1 DEF genvec_new, ArrayInv, TypeOK, Fits, MemoryExact, CanDouble, Absent
  <1>2. CASE vec_create
    BY <1>2, CreateStep
  <1>3. CASE genvec_sort
    BY <1>3, SortStep
  <1>4. CASE genvec_free \/ vec_free
    BY <1>4, FreeStep
  <1>5. ASSUME NEW v \in Values, push(v) PROVE ArrayInv'
    BY <1>5, PushStep
  <1>6. CASE UNCHANGED vars
    BY <1>6 DEF vars, ArrayInv, TypeOK, Fits, MemoryExact, CanDouble, Absent
  <1> QED
    BY <1>1, <1>2, <1>3, <1>4, <1>5, <1>6 DEF Next

(***************************************************************************)
(* The invariant holds in every state the two arrays can reach.            *)
(***************************************************************************)
LEMMA ArrayInvariant == Spec => []ArrayInv
  BY InitArray, ArrayInductive, PTL DEF Spec

-----------------------------------------------------------------------------
(***************************************************************************)
(* The fields of IntVec and GenVec have their types, through every         *)
(* sequence of calls.                                                      *)
(***************************************************************************)
THEOREM TypeCorrect == Spec => []TypeOK
  <1>1. ArrayInv => TypeOK
    BY DEF ArrayInv
  <1> QED
    BY <1>1, ArrayInvariant, PTL

(***************************************************************************)
(* vec_push and genvec_push never write, and genvec_get never reads,       *)
(* outside the block or in cells nobody wrote.                             *)
(***************************************************************************)
THEOREM BoundsCorrect == Spec => []Fits
  <1>1. ArrayInv => Fits
    BY DEF ArrayInv
  <1> QED
    BY <1>1, ArrayInvariant, PTL

(***************************************************************************)
(* No sequence of failing, moving and in-place reallocs leaks a block or   *)
(* leaves the array with a freed one.                                      *)
(***************************************************************************)
THEOREM MemoryCorrect == Spec => []MemoryExact
  <1>1. ArrayInv => MemoryExact
    BY DEF ArrayInv
  <1> QED
    BY <1>1, ArrayInvariant, PTL

(***************************************************************************)
(* A push appends exactly its value, or fails and changes nothing: the     *)
(* copy a moving realloc makes loses no element.                           *)
(***************************************************************************)
THEOREM PushCorrect == Spec => PushAppends
  <1> DEFINE Step ==
        \A v \in Values : push(v) =>
            IF rc' = 0 THEN Contents' = Append(Contents, v) ELSE Contents' = Contents
  <1>1. ArrayInv => Step
    BY PushStep
  <1> QED
    BY <1>1, ArrayInvariant, PTL DEF PushAppends
=============================================================================
