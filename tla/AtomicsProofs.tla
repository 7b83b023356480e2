---------------------------- MODULE AtomicsProofs ----------------------------
(***************************************************************************)
(* Proofs about exercise 29 for any threads, nodes and arrays: the Treiber *)
(* stack, first that the next pointers always form a list (Chain), then    *)
(* that the loops of lf_push and lf_pop act on it atomically; and the      *)
(* compare-exchange maximum (Max).                                         *)
(***************************************************************************)
EXTENDS MCAtomics, FiniteSetTheorems, SequenceTheorems, TLAPS

\* Every non-empty set of naturals has a least element: how the proofs below go along a list.
LEMMA Least == ASSUME NEW T \in SUBSET Nat, T # {} PROVE \E x \in T : \A y \in T : x <= y
<1> DEFINE R == OpToRel(<, Nat)
<1>1. IsWellFoundedOn(R, Nat)
  BY NatLessThanWellFounded
<1>2. PICK x \in T : \A y \in T : ~(<<y, x>> \in R)
  <2> HIDE DEF R
  <2> QED BY <1>1, WFMin
<1>3. \A y \in T : ~(y < x)
  BY <1>2 DEF OpToRel
<1> QED BY <1>3

\* s is the list that starts at h when the next pointers are nx.
Chain(s, h, nx) ==
    /\ s \in Seq(Nodes)
    /\ \A i, j \in 1 .. Len(s) : s[i] = s[j] => i = j
    /\ h = IF Len(s) = 0 THEN NULL ELSE s[1]
    /\ \A i \in 1 .. Len(s) : nx[s[i]] = IF i = Len(s) THEN NULL ELSE s[i + 1]

\* A list without repetition is no longer than there are nodes, so the walk of From reaches its end.
LEMMA ChainFits ==
    ASSUME NodesAssumption, NEW s \in Seq(Nodes),
           \A i, j \in 1 .. Len(s) : s[i] = s[j] => i = j
    PROVE  Len(s) <= Cardinality(Nodes) /\ Cardinality(Nodes) \in Nat
<1>1. s \in Injection(1 .. Len(s), Nodes)
  BY DEF Injection, IsInjective
<1>2. IsFiniteSet(Nodes) /\ Cardinality(Nodes) \in Nat
  BY FS_CardinalityType DEF NodesAssumption
<1>3. Len(s) \in Nat /\ Cardinality(1 .. Len(s)) = Len(s)
  BY FS_Interval
<1> QED
  BY <1>1, <1>2, <1>3, FS_Injection

\* The nodes reached from h are exactly the list that starts there.
LEMMA FromChain ==
    ASSUME NodesAssumption, NEW h, NEW nx, NEW s, Chain(s, h, nx)
    PROVE  From(h, nx) = s
<1> DEFINE M == Cardinality(Nodes)
           Step(w) == [d \in 0 .. M |-> IF d = 0 THEN h
                          ELSE IF w[d - 1] = NULL THEN NULL ELSE nx[w[d - 1]]]
           walk == CHOOSE w : w = Step(w)
           v == [d \in 0 .. M |-> IF d < Len(s) THEN s[d + 1] ELSE NULL]
           reached == {d \in 0 .. M : walk[d] # NULL}
<1>1. From(h, nx) = [d \in 1 .. Cardinality(reached) |-> walk[d - 1]]
  BY DEF From
<1>2. s \in Seq(Nodes) /\ Len(s) \in Nat /\ M \in Nat /\ Len(s) <= M
  BY ChainFits DEF Chain
<1>3. \A i \in 1 .. Len(s) : s[i] \in Nodes /\ s[i] # NULL
  BY <1>2 DEF NodesAssumption
<1>4. v = Step(v)
  <2> SUFFICES ASSUME NEW d \in 0 .. M PROVE v[d] = Step(v)[d]
    OBVIOUS
  <2>1. CASE d = 0
    BY <1>2, <2>1 DEF Chain
  <2>2. CASE d > 0 /\ d - 1 < Len(s)
    <3>1. v[d - 1] = s[d] /\ s[d] # NULL /\ d \in 1 .. Len(s)
      BY <1>2, <1>3, <2>2
    <3>2. nx[s[d]] = IF d = Len(s) THEN NULL ELSE s[d + 1]
      BY <3>1 DEF Chain
    <3> QED
      BY <1>2, <2>2, <3>1, <3>2
  <2>3. CASE d > 0 /\ ~(d - 1 < Len(s))
    BY <1>2, <2>3
  <2> QED
    BY <1>2, <2>1, <2>2, <2>3
<1>5. walk = Step(walk)
  <2> HIDE DEF v, Step
  <2> QED
    BY <1>4
<1>6. \A d \in 0 .. M : walk[d] = v[d]
  <2> DEFINE T == {d \in 0 .. M : walk[d] # v[d]}
  <2> SUFFICES ASSUME T # {} PROVE FALSE
    OBVIOUS
  <2> HIDE DEF v, walk
  <2>1. T \in SUBSET Nat
    BY <1>2
  <2>2. PICK x \in T : \A y \in T : x <= y
    BY <2>1, Least
  <2>3. x # 0
    BY <1>2, <1>4, <1>5, <2>2
  <2>4. x \in 0 .. M /\ x - 1 \in 0 .. M /\ x - 1 \notin T
    BY <1>2, <2>2, <2>3
  <2>5. walk[x - 1] = v[x - 1]
    BY <2>4
  <2>6. walk[x] = Step(walk)[x] /\ v[x] = Step(v)[x]
    BY <1>4, <1>5
  <2> QED
    BY <2>2, <2>3, <2>4, <2>5, <2>6
<1>7. reached = 0 .. Len(s) - 1
  <2> HIDE DEF walk
  <2> QED
    BY <1>2, <1>3, <1>6
<1>8. Cardinality(reached) = Len(s)
  <2>1. Cardinality(0 .. Len(s) - 1) = Len(s)
    <3>1. 0 \in Int /\ Len(s) - 1 \in Int
      BY <1>2
    <3>2. Cardinality(0 .. Len(s) - 1) = IF 0 > Len(s) - 1 THEN 0 ELSE (Len(s) - 1) - 0 + 1
      BY <3>1, FS_Interval
    <3> QED
      BY <1>2, <3>2
  <2> HIDE DEF reached
  <2> QED
    BY <1>7, <2>1
<1>9. \A d \in 1 .. Len(s) : walk[d - 1] = s[d]
  <2> HIDE DEF walk
  <2> QED
    BY <1>2, <1>6
<1> HIDE DEF reached, walk
<1>10. From(h, nx) = [d \in 1 .. Len(s) |-> s[d]]
  BY <1>1, <1>8, <1>9
<1> QED
  BY <1>2, <1>10

-----------------------------------------------------------------------------
\* Where a thread can be, and what a pointer can be.
LFPoints == {"absent", "malloc", "push_load", "push_cas", "pop_load",
             "pop_next", "pop_cas", "use", "done", "exit1"}
Ptr == Nodes \cup {NULL}

\* Types, and no thread pushes more nodes than it has.
LFTypeOK ==
    /\ team \in SUBSET Threads
    /\ head \in Ptr
    /\ next \in [Nodes -> Ptr]
    /\ live \in SUBSET Nodes
    /\ pc \in [Threads -> LFPoints]
    /\ k \in [Threads -> Nat]
    /\ old_head \in [Threads -> Ptr]
    /\ new_head \in [Threads -> Ptr]
    /\ popped \in [Threads -> Seq(Nodes)]
    /\ \A t \in Threads :
         /\ k[t] <= Len(Mine[t])
         /\ pc[t] \in {"malloc", "push_load", "push_cas"} => k[t] < Len(Mine[t])
         /\ t \notin team => pc[t] = "absent"

\* x has been pushed at some time.
IsPushed(x) == \E t \in Threads : \E i \in 1 .. k[t] : x = Mine[t][i]

\* What the locals of lf_push and lf_pop are worth at each point of their loops.
LFLocals ==
    \A t \in Threads :
      /\ pc[t] \in {"push_load", "push_cas"} => node(t) \in live
      /\ pc[t] = "push_cas" => next[node(t)] = old_head[t]
      /\ pc[t] \in {"pop_next", "pop_cas", "use"} => IsPushed(old_head[t])
      /\ pc[t] = "pop_cas" => new_head[t] = next[old_head[t]]

\* One thread on its own is never interfered with: what it frees is out of the stack.
LFAlone ==
    \A t \in Threads : team = {t} =>
      /\ pc[t] \in {"pop_next", "pop_cas"} => head = old_head[t]
      /\ pc[t] = "use" => old_head[t] \in live

\* A team shares the stack and frees nothing.
LFShared ==
    (\A t \in Threads : team # {t}) => \A x : IsPushed(x) => x \in live

\* s is what the stack holds: pushed nodes, none of them freed or about to be.
Stacked(s) ==
    /\ Chain(s, head, next)
    /\ \A i \in 1 .. Len(s) :
         /\ IsPushed(s[i]) /\ s[i] \in live
         /\ \A t \in Threads : team = {t} /\ pc[t] = "use" => s[i] # old_head[t]

(***************************************************************************)
(* The inductive invariant of the Treiber stack: the next pointers from    *)
(* head form a list of live nodes, and a compare-exchange that succeeds    *)
(* does so on locals that are still right.                                 *)
(***************************************************************************)
LFInv == LFTypeOK /\ LFLocals /\ LFAlone /\ LFShared /\ \E s : Stacked(s)

\* A pushed node is a node, and the node a thread is about to push is new to everyone.
LEMMA PushedNodes ==
    ASSUME NodesAssumption, LFTypeOK
    PROVE  /\ \A x : IsPushed(x) => x \in Nodes /\ x # NULL
           /\ \A t \in Threads : k[t] < Len(Mine[t]) =>
                /\ node(t) \in Nodes /\ node(t) # NULL /\ ~IsPushed(node(t))
                /\ \A u \in Threads : k[u] < Len(Mine[u]) /\ node(u) = node(t) => u = t
<1>1. \A t \in Threads : Mine[t] \in Seq(Nodes) /\ Len(Mine[t]) \in Nat /\ k[t] \in 0 .. Len(Mine[t])
  BY DEF NodesAssumption, LFTypeOK
<1>2. \A x : IsPushed(x) => x \in Nodes /\ x # NULL
  BY <1>1 DEF IsPushed, NodesAssumption
<1>3. ASSUME NEW t \in Threads, k[t] < Len(Mine[t])
      PROVE  /\ node(t) \in Nodes /\ node(t) # NULL /\ ~IsPushed(node(t))
             /\ \A u \in Threads : k[u] < Len(Mine[u]) /\ node(u) = node(t) => u = t
  <2>1. k[t] + 1 \in 1 .. Len(Mine[t])
    BY <1>1, <1>3
  <2>2. node(t) \in Nodes /\ node(t) # NULL
    BY <1>1, <2>1 DEF node, NodesAssumption
  <2>3. ~IsPushed(node(t))
    <3> SUFFICES ASSUME NEW u \in Threads, NEW i \in 1 .. k[u], Mine[t][k[t] + 1] = Mine[u][i]
                 PROVE  FALSE
      BY DEF IsPushed, node
    <3>1. i \in 1 .. Len(Mine[u])
      BY <1>1
    <3>2. t = u /\ k[t] + 1 = i
      BY <2>1, <3>1 DEF NodesAssumption
    <3> QED
      BY <1>1, <3>2
  <2>4. ASSUME NEW u \in Threads, k[u] < Len(Mine[u]), node(u) = node(t) PROVE u = t
    <3>1. k[u] + 1 \in 1 .. Len(Mine[u])
      BY <1>1, <2>4
    <3> QED
      BY <2>1, <2>4, <3>1 DEF NodesAssumption, node
  <2> QED
    BY <2>2, <2>3, <2>4
<1> QED
  BY <1>2, <1>3

\* Before the first malloc the stack is empty.
LEMMA LFInit == ASSUME NodesAssumption, Init PROVE LFInv
<1>1. \A t \in Threads : Len(Mine[t]) \in Nat /\ Len(Mine[t]) > 0
  BY DEF NodesAssumption
<1>2. LFTypeOK
  BY <1>1 DEF Init, LFTypeOK, LFPoints, Ptr, NodesAssumption
<1>3. \A x : ~IsPushed(x)
  BY DEF Init, IsPushed
<1>4. Stacked(<<>>)
  BY DEF Init, Stacked, Chain
<1> QED
  BY <1>2, <1>3, <1>4 DEF Init, LFInv, LFLocals, LFAlone, LFShared

\* The steps of lf_push and lf_pop before their exchange leave the stack as it is.
LEMMA KeepsStack ==
    ASSUME NodesAssumption, LFTypeOK, NEW s, Stacked(s),
           head' = head, k' = k, team' = team,
           \A x : IsPushed(x) => next'[x] = next[x],
           \A i \in 1 .. Len(s) : s[i] \in live',
           \A t \in Threads : pc'[t] = "use" => pc[t] = "use" /\ old_head'[t] = old_head[t]
    PROVE  Stacked(s)'
<1>1. \A x : IsPushed(x)' <=> IsPushed(x)
  BY DEF IsPushed
<1>2. Chain(s, head, next)'
  BY DEF Stacked, Chain
<1> QED
  BY <1>1, <1>2 DEF Stacked

\* A successful exchange in lf_push puts the thread's node on top of the list.
LEMMA Pushes ==
    ASSUME NodesAssumption, LFTypeOK, LFLocals, NEW s, Stacked(s),
           NEW t \in Threads, NEW n, n = node(t), lf_push_cas(t)
    PROVE  Stacked(<<n>> \o s)'
<1> DEFINE r == <<n>> \o s
<1>1. s \in Seq(Nodes) /\ Len(s) \in Nat
  BY DEF Stacked, Chain
<1>2. /\ k[t] < Len(Mine[t]) /\ pc[t] = "push_cas" /\ head' = n /\ next' = next
      /\ live' = live /\ team' = team /\ old_head' = old_head /\ n \in live
      /\ next[n] = head /\ k' = [k EXCEPT ![t] = @ + 1]
  BY DEF lf_push_cas, Goto, LFTypeOK, LFLocals
<1>3. n \in Nodes /\ ~IsPushed(n)
  BY <1>2, PushedNodes
<1>4. /\ r \in Seq(Nodes) /\ Len(r) = Len(s) + 1 /\ r[1] = n
      /\ \A i \in 2 .. Len(r) : i - 1 \in 1 .. Len(s) /\ r[i] = s[i - 1]
  BY <1>1, <1>3
<1>5. \A x : IsPushed(x) => IsPushed(x)'
  BY <1>2 DEF IsPushed, LFTypeOK
<1>6. IsPushed(n)'
  <2>1. k'[t] = k[t] + 1 /\ k[t] + 1 \in 1 .. k'[t]
    BY <1>2 DEF LFTypeOK
  <2> QED
    BY <2>1 DEF IsPushed, node
<1>7. \A i, j \in 1 .. Len(r) : r[i] = r[j] => i = j
  <2> SUFFICES ASSUME NEW i \in 1 .. Len(r), NEW j \in 1 .. Len(r), r[i] = r[j] PROVE i = j
    OBVIOUS
  <2>1. CASE i = 1 /\ j # 1
    <3>1. IsPushed(r[j])
      BY <1>1, <1>4, <2>1 DEF Stacked
    <3> QED
      BY <1>3, <1>4, <2>1, <3>1
  <2>2. CASE j = 1 /\ i # 1
    <3>1. IsPushed(r[i])
      BY <1>1, <1>4, <2>2 DEF Stacked
    <3> QED
      BY <1>3, <1>4, <2>2, <3>1
  <2>3. CASE i # 1 /\ j # 1
    BY <1>1, <1>4, <2>3 DEF Stacked, Chain
  <2> QED
    BY <2>1, <2>2, <2>3
<1>8. \A i \in 1 .. Len(r) : next[r[i]] = IF i = Len(r) THEN NULL ELSE r[i + 1]
  <2> SUFFICES ASSUME NEW i \in 1 .. Len(r)
               PROVE  next[r[i]] = IF i = Len(r) THEN NULL ELSE r[i + 1]
    OBVIOUS
  <2>1. CASE i = 1
    BY <1>1, <1>2, <1>4, <2>1 DEF Stacked, Chain
  <2>2. CASE i # 1
    BY <1>1, <1>4, <2>2 DEF Stacked, Chain
  <2> QED
    BY <2>1, <2>2
<1>9. Chain(r, head, next)'
  <2> HIDE DEF r
  <2> QED
  BY <1>1, <1>2, <1>4, <1>7, <1>8 DEF Chain
<1>10. \A i \in 1 .. Len(r) : IsPushed(r[i])' /\ r[i] \in live
  BY <1>1, <1>2, <1>4, <1>5, <1>6 DEF Stacked
<1>11. \A u \in Threads : pc'[u] = "use" => pc[u] = "use"
  BY DEF lf_push_cas, Goto, LFTypeOK
<1>12. ASSUME NEW i \in 1 .. Len(r), NEW u \in Threads, team' = {u}, pc'[u] = "use"
       PROVE  r[i] # old_head'[u]
  <2>1. IsPushed(old_head[u])
    BY <1>11, <1>12 DEF LFLocals
  <2>2. CASE i = 1
    BY <1>2, <1>3, <1>4, <2>1, <2>2
  <2>3. CASE i # 1
    BY <1>1, <1>2, <1>4, <1>11, <1>12, <2>3 DEF Stacked
  <2> QED
    BY <2>2, <2>3
<1> QED
  BY <1>2, <1>9, <1>10, <1>12 DEF Stacked

\* A successful exchange in lf_pop takes the top off, the node the thread had loaded.
LEMMA Pops ==
    ASSUME NodesAssumption, LFTypeOK, LFLocals, NEW s, Stacked(s),
           NEW t \in Threads, lf_pop_cas(t)
    PROVE  s # << >> /\ Head(s) = old_head[t] /\ Stacked(Tail(s))'
<1> DEFINE r == Tail(s)
<1>1. s \in Seq(Nodes) /\ Len(s) \in Nat
  BY DEF Stacked, Chain
<1>2. /\ pc[t] = "pop_cas" /\ head = old_head[t] /\ head' = new_head[t] /\ next' = next
      /\ live' = live /\ team' = team /\ old_head' = old_head /\ k' = k
      /\ new_head[t] = next[head] /\ IsPushed(head)
  BY DEF lf_pop_cas, Goto, LFLocals
<1>3. Len(s) > 0 /\ s[1] = head
  BY <1>1, <1>2, PushedNodes DEF Stacked, Chain
<1>4. /\ r \in Seq(Nodes) /\ Len(r) = Len(s) - 1 /\ s # << >> /\ Head(s) = s[1]
      /\ \A i \in 1 .. Len(r) : i + 1 \in 1 .. Len(s) /\ r[i] = s[i + 1]
  BY <1>1, <1>3
<1>5. \A x : IsPushed(x)' <=> IsPushed(x)
  BY <1>2 DEF IsPushed
<1>6. head' = IF Len(r) = 0 THEN NULL ELSE r[1]
  <2>1. \A i \in 1 .. Len(s) : next[s[i]] = IF i = Len(s) THEN NULL ELSE s[i + 1]
    BY DEF Stacked, Chain
  <2>2. 1 \in 1 .. Len(s)
    BY <1>1, <1>3
  <2>3. next[s[1]] = IF 1 = Len(s) THEN NULL ELSE s[1 + 1]
    BY <2>1, <2>2
  <2> HIDE DEF r
  <2> QED
    BY <1>1, <1>2, <1>3, <1>4, <2>3
<1>7. Chain(r, head, next)'
  <2>1. ASSUME NEW i \in 1 .. Len(r), NEW j \in 1 .. Len(r), r[i] = r[j] PROVE i = j
    <3> HIDE DEF r
    <3>1. s[i + 1] = s[j + 1] /\ i + 1 \in 1 .. Len(s) /\ j + 1 \in 1 .. Len(s)
      BY <1>4, <2>1
    <3>2. i + 1 = j + 1
      BY <3>1 DEF Stacked, Chain
    <3> QED
      BY <3>2
  <2>2. ASSUME NEW i \in 1 .. Len(r)
        PROVE  next[r[i]] = IF i = Len(r) THEN NULL ELSE r[i + 1]
    <3> HIDE DEF r
    <3>1. next[s[i + 1]] = IF i + 1 = Len(s) THEN NULL ELSE s[i + 1 + 1]
      BY <1>1, <1>4 DEF Stacked, Chain
    <3>2. i # Len(r) => r[i + 1] = s[i + 1 + 1]
      BY <1>1, <1>4
    <3> QED
      BY <1>1, <1>4, <3>1, <3>2
  <2> HIDE DEF r
  <2> QED
    BY <1>2, <1>4, <1>6, <2>1, <2>2 DEF Chain
<1>8. \A u \in Threads : u # t /\ pc'[u] = "use" => pc[u] = "use"
  BY DEF lf_pop_cas, Goto, LFTypeOK
<1>9. ASSUME NEW i \in 1 .. Len(r), NEW u \in Threads, team' = {u}, pc'[u] = "use"
      PROVE  r[i] # old_head'[u]
  <2>1. CASE u = t
    <3>1. r[i] = s[i + 1] /\ i + 1 # 1 /\ i + 1 \in 1 .. Len(s) /\ 1 \in 1 .. Len(s)
      BY <1>1, <1>3, <1>4
    <3>2. s[i + 1] # s[1]
      BY <3>1 DEF Stacked, Chain
    <3> QED
      BY <1>2, <1>3, <2>1, <3>1, <3>2
  <2>2. CASE u # t
    BY <1>1, <1>2, <1>4, <1>8, <1>9, <2>2 DEF Stacked
  <2> QED
    BY <2>1, <2>2
<1>10. Stacked(r)'
  BY <1>1, <1>2, <1>4, <1>5, <1>7, <1>9 DEF Stacked
<1> QED
  BY <1>2, <1>3, <1>4, <1>10

\* Every step of a thread keeps the types.
LEMMA LFTypeStep ==
    ASSUME NodesAssumption, LFTypeOK, LFLocals,
           NEW t \in Threads, thread(t)
    PROVE  LFTypeOK'
<1> USE DEF LFTypeOK, LFPoints, Ptr, Goto
<1>1. /\ \A u \in Threads : Mine[u] \in Seq(Nodes) /\ Len(Mine[u]) \in Nat
      /\ k[t] < Len(Mine[t]) => node(t) \in Nodes
      /\ pc[t] \in {"pop_next", "pop_cas"} => old_head[t] \in Nodes
  BY SMTT(30), PushedNodes DEF NodesAssumption, LFLocals
<1>2. CASE malloc_node(t)
  BY <1>1, <1>2 DEF malloc_node
<1>3. CASE malloc_fails(t)
  BY <1>1, <1>3 DEF malloc_fails
<1>4. CASE lf_push_load(t)
  BY <1>1, <1>4 DEF lf_push_load
<1>5. CASE lf_push_cas(t)
  BY <1>1, <1>5 DEF lf_push_cas
<1>6. CASE lf_push_retry(t)
  BY <1>1, <1>6 DEF lf_push_retry
<1>7. CASE lf_pop_load(t)
  BY <1>1, <1>7 DEF lf_pop_load
<1>8. CASE lf_pop_next(t)
  BY <1>1, <1>8 DEF lf_pop_next
<1>9. CASE lf_pop_cas(t)
  BY <1>1, <1>9 DEF lf_pop_cas
<1>10. CASE lf_pop_retry(t)
  BY <1>1, <1>10 DEF lf_pop_retry
<1>11. CASE use_and_free(t)
  BY <1>1, <1>11 DEF use_and_free
<1>12. CASE use_and_keep(t)
  BY <1>1, <1>12 DEF use_and_keep
<1> QED
  BY <1>2, <1>3, <1>4, <1>5, <1>6, <1>7, <1>8, <1>9, <1>10, <1>11, <1>12
  DEF thread, section6_lockfree_stack, sharing_client, lf_push, lf_pop

(***************************************************************************)
(* Every step of lf_push, lf_pop and their caller keeps the invariant: an  *)
(* exchange that succeeds, fails because head changed or fails spuriously, *)
(* a malloc that returns NULL, and the free of a popped node.              *)
(***************************************************************************)
LEMMA LFStep == ASSUME NodesAssumption, LFInv, [Next]_vars PROVE LFInv'
<1> USE DEF LFInv
<1>1. CASE UNCHANGED vars
  <2>1. UNCHANGED <<team, head, next, live, pc, k, old_head, new_head, popped>>
    BY <1>1 DEF vars
  <2>2. PICK s : Stacked(s)
    OBVIOUS
  <2>3. Stacked(s)'
    BY SMTT(30), <2>1, <2>2 DEF Stacked, Chain, IsPushed
  <2>4. LFTypeOK' /\ LFLocals' /\ LFAlone' /\ LFShared'
    BY <2>1 DEF LFTypeOK, LFLocals, LFAlone, LFShared, IsPushed, node
  <2> QED
    BY <2>3, <2>4
<1>2. ASSUME NEW t \in Threads, thread(t) PROVE LFInv'
  <2>1. LFTypeOK'
    BY <1>2, LFTypeStep
  <2>2. PICK s : Stacked(s)
    OBVIOUS
  <2>3. /\ \A u \in Threads : pc[u] # "absent" => u \in team
        /\ \A x : IsPushed(x) => x \in Nodes /\ x # NULL
        /\ \A u \in Threads : k[u] < Len(Mine[u]) =>
             /\ node(u) \in Nodes /\ ~IsPushed(node(u))
             /\ \A w \in Threads : k[w] < Len(Mine[w]) /\ node(w) = node(u) => u = w
    BY PushedNodes DEF LFTypeOK
  <2>4. k' = k => /\ \A x : IsPushed(x)' <=> IsPushed(x)
                  /\ \A u \in Threads : node(u)' = node(u)
    BY DEF IsPushed, node
  <2>5. /\ \A i \in 1 .. Len(s) : s[i] \in live /\ IsPushed(s[i])
        /\ head # NULL => IsPushed(head) /\ head \in live
    BY <2>2 DEF Stacked, Chain
  <2>6. CASE malloc_node(t)
    <3> USE <2>6 DEF malloc_node, Goto, LFTypeOK
    <3>1. LFLocals'
      BY <2>1, <2>3, <2>4, <2>5 DEF LFLocals
    <3>2. LFAlone'
      BY <2>1, <2>3, <2>4, <2>5 DEF LFLocals, LFAlone
    <3>3. LFShared'
      BY <2>1, <2>3, <2>4, <2>5 DEF LFLocals, LFShared
    <3>4. Stacked(s)'
      BY <2>2, <2>3, <2>5, KeepsStack DEF Stacked
    <3> QED
      BY <2>1, <3>1, <3>2, <3>3, <3>4
  <2>7. CASE malloc_fails(t)
    <3> USE <2>7 DEF malloc_fails, Goto, LFTypeOK
    <3>1. LFLocals'
      BY <2>1, <2>3, <2>4, <2>5 DEF LFLocals
    <3>2. LFAlone'
      BY <2>1, <2>3, <2>4, <2>5 DEF LFLocals, LFAlone
    <3>3. LFShared'
      BY <2>1, <2>3, <2>4, <2>5 DEF LFLocals, LFShared
    <3>4. Stacked(s)'
      BY <2>2, <2>3, <2>5, KeepsStack DEF Stacked
    <3> QED
      BY <2>1, <3>1, <3>2, <3>3, <3>4
  <2>8. CASE lf_push_load(t)
    <3> USE <2>8 DEF lf_push_load, Goto, LFTypeOK
    <3>1. LFLocals'
      BY <2>1, <2>3, <2>4, <2>5 DEF LFLocals
    <3>2. LFAlone'
      BY <2>1, <2>3, <2>4, <2>5 DEF LFLocals, LFAlone
    <3>3. LFShared'
      BY <2>1, <2>3, <2>4, <2>5 DEF LFLocals, LFShared
    <3>4. Stacked(s)'
      BY ZenonT(60), <2>2, <2>3, <2>5, KeepsStack DEF Stacked
    <3> QED
      BY <2>1, <3>1, <3>2, <3>3, <3>4
  <2>9. CASE lf_push_cas(t)
    <3>1. PICK n : n = node(t)
      OBVIOUS
    <3>2. Stacked(<<n>> \o s)'
      BY <2>2, <2>9, <3>1, Pushes
    <3>3. /\ pc[t] = "push_cas" /\ pc' = [pc EXCEPT ![t] = pc'[t]]
          /\ pc'[t] \in {"malloc", "pop_load"} /\ k[t] < Len(Mine[t])
          /\ k' = [k EXCEPT ![t] = k[t] + 1]
          /\ UNCHANGED <<team, next, live, old_head, new_head, popped>>
      BY <2>9 DEF lf_push_cas, Goto, LFTypeOK
    <3>4. /\ \A x : IsPushed(x) => IsPushed(x)'
          /\ \A x : IsPushed(x)' => IsPushed(x) \/ x = n
          /\ \A u \in Threads : u # t => node(u)' = node(u)
      BY <3>1, <3>3 DEF IsPushed, node, LFTypeOK
    <3>5. n \in live
      BY <3>1, <3>3 DEF LFLocals
    <3>6. LFLocals'
      BY <2>3, <3>3, <3>4 DEF LFLocals, LFTypeOK
    <3>7. LFAlone'
      BY <2>3, <3>3 DEF LFAlone, LFTypeOK
    <3>8. LFShared'
      BY <3>3, <3>4, <3>5 DEF LFShared
    <3> QED
      BY <2>1, <3>2, <3>6, <3>7, <3>8
  <2>10. CASE lf_push_retry(t)
    <3> USE <2>10 DEF lf_push_retry, Goto, LFTypeOK
    <3>1. LFLocals'
      BY <2>1, <2>3, <2>4, <2>5 DEF LFLocals
    <3>2. LFAlone'
      BY <2>1, <2>3, <2>4, <2>5 DEF LFLocals, LFAlone
    <3>3. LFShared'
      BY <2>1, <2>3, <2>4, <2>5 DEF LFLocals, LFShared
    <3>4. Stacked(s)'
      BY <2>2, <2>3, <2>5, KeepsStack DEF Stacked
    <3> QED
      BY <2>1, <3>1, <3>2, <3>3, <3>4
  <2>11. CASE lf_pop_load(t)
    <3> USE <2>11 DEF lf_pop_load, Goto, LFTypeOK
    <3>1. LFLocals'
      BY <2>1, <2>3, <2>4, <2>5 DEF LFLocals
    <3>2. LFAlone'
      BY <2>1, <2>3, <2>4, <2>5 DEF LFLocals, LFAlone
    <3>3. LFShared'
      BY <2>1, <2>3, <2>4, <2>5 DEF LFLocals, LFShared
    <3>4. Stacked(s)'
      BY <2>2, <2>3, <2>5, KeepsStack DEF Stacked
    <3> QED
      BY <2>1, <3>1, <3>2, <3>3, <3>4
  <2>12. CASE lf_pop_next(t)
    <3> USE <2>12 DEF lf_pop_next, Goto, LFTypeOK
    <3>1. LFLocals'
      BY <2>1, <2>3, <2>4, <2>5 DEF LFLocals
    <3>2. LFAlone'
      BY <2>1, <2>3, <2>4, <2>5 DEF LFLocals, LFAlone
    <3>3. LFShared'
      BY <2>1, <2>3, <2>4, <2>5 DEF LFLocals, LFShared
    <3>4. Stacked(s)'
      BY <2>2, <2>3, <2>5, KeepsStack DEF Stacked
    <3> QED
      BY <2>1, <3>1, <3>2, <3>3, <3>4
  <2>13. CASE lf_pop_cas(t)
    <3>4. Stacked(Tail(s))'
      BY <2>2, <2>13, Pops
    <3> USE <2>13 DEF lf_pop_cas, Goto, LFTypeOK
    <3>1. LFLocals'
      BY <2>1, <2>3, <2>4, <2>5 DEF LFLocals
    <3>2. LFAlone'
      BY <2>1, <2>3, <2>4, <2>5 DEF LFLocals, LFAlone
    <3>3. LFShared'
      BY <2>1, <2>3, <2>4, <2>5 DEF LFLocals, LFShared
    <3> QED
      BY <2>1, <3>1, <3>2, <3>3, <3>4
  <2>14. CASE lf_pop_retry(t)
    <3> USE <2>14 DEF lf_pop_retry, Goto, LFTypeOK
    <3>1. LFLocals'
      BY <2>1, <2>3, <2>4, <2>5 DEF LFLocals
    <3>2. LFAlone'
      BY <2>1, <2>3, <2>4, <2>5 DEF LFLocals, LFAlone
    <3>3. LFShared'
      BY <2>1, <2>3, <2>4, <2>5 DEF LFLocals, LFShared
    <3>4. Stacked(s)'
      BY <2>2, <2>3, <2>5, KeepsStack DEF Stacked
    <3> QED
      BY <2>1, <3>1, <3>2, <3>3, <3>4
  <2>15. CASE team = {t} /\ use_and_free(t)
    <3> USE <2>15 DEF use_and_free, Goto, LFTypeOK
    <3>1. LFLocals'
      BY <2>1, <2>3, <2>4, <2>5 DEF LFLocals
    <3>2. LFAlone'
      BY <2>1, <2>3, <2>4, <2>5 DEF LFLocals, LFAlone
    <3>3. LFShared'
      BY <2>1, <2>3, <2>4, <2>5 DEF LFLocals, LFShared
    <3>4. Stacked(s)'
      BY <2>2, <2>3, <2>5, KeepsStack DEF Stacked
    <3> QED
      BY <2>1, <3>1, <3>2, <3>3, <3>4
  <2>16. CASE use_and_keep(t)
    <3> USE <2>16 DEF use_and_keep, Goto, LFTypeOK
    <3>1. LFLocals'
      BY <2>1, <2>3, <2>4, <2>5 DEF LFLocals
    <3>2. LFAlone'
      BY <2>1, <2>3, <2>4, <2>5 DEF LFLocals, LFAlone
    <3>3. LFShared'
      BY <2>1, <2>3, <2>4, <2>5 DEF LFLocals, LFShared
    <3>4. Stacked(s)'
      BY <2>2, <2>3, <2>5, KeepsStack DEF Stacked
    <3> QED
      BY <2>1, <3>1, <3>2, <3>3, <3>4
  <2> QED
    BY <1>2, <2>6, <2>7, <2>8, <2>9, <2>10, <2>11, <2>12, <2>13, <2>14, <2>15, <2>16
    DEF thread, section6_lockfree_stack, sharing_client, lf_push, lf_pop
<1> QED
  BY <1>1, <1>2 DEF Next

\* What the abstract stack sees is the list of the invariant.
LEMMA StackContents ==
    ASSUME NodesAssumption
    PROVE  \A s : Stacked(s) => Contents = s
BY FromChain DEF Stacked, Contents

(***************************************************************************)
(* What a step does to the stack: the successful exchange of lf_push puts  *)
(* the thread's node on top, that of lf_pop takes off the node the thread  *)
(* had loaded, and nothing else changes it.                                *)
(***************************************************************************)
LEMMA Effect ==
    ASSUME NodesAssumption, LFInv, NEW t \in Threads, thread(t)
    PROVE  /\ lf_push_cas(t) => Contents' = <<Mine[t][k[t] + 1]>> \o Contents
           /\ lf_pop_cas(t) => /\ Contents # << >> /\ Head(Contents) = old_head[t]
                               /\ Contents' = Tail(Contents)
           /\ ~lf_push_cas(t) /\ ~lf_pop_cas(t) => Contents' = Contents
<1>1. PICK s : Stacked(s)
  BY DEF LFInv
<1>2. Contents = s
  BY <1>1, StackContents
<1>3. \A r : Stacked(r)' => Contents' = r
  <2> SUFFICES ASSUME NEW r, Stacked(r)' PROVE Contents' = r
    OBVIOUS
  <2>1. Chain(r, head', next')
    BY DEF Stacked, Chain
  <2>2. From(head', next') = r
    BY <2>1, FromChain
  <2>3. Contents' = From(head', next')
    BY DEF Contents, From
  <2> QED
    BY <2>2, <2>3
<1>4. ASSUME lf_push_cas(t) PROVE Contents' = <<Mine[t][k[t] + 1]>> \o Contents
  <2>1. PICK n : n = node(t)
    OBVIOUS
  <2>2. Stacked(<<n>> \o s)'
    BY <1>1, <1>4, <2>1, Pushes DEF LFInv
  <2> QED
    BY <1>2, <1>3, <2>1, <2>2 DEF node
<1>5. ASSUME lf_pop_cas(t)
      PROVE  Contents # << >> /\ Head(Contents) = old_head[t] /\ Contents' = Tail(Contents)
  <2>1. s # << >> /\ Head(s) = old_head[t] /\ Stacked(Tail(s))'
    BY <1>1, <1>5, Pops DEF LFInv
  <2> QED
    BY <1>2, <1>3, <2>1
<1>6. ASSUME ~lf_push_cas(t), ~lf_pop_cas(t) PROVE Contents' = Contents
  <2>1. CASE lf_push_load(t)
    <3>1. k[t] < Len(Mine[t])
      BY <2>1 DEF lf_push_load, Goto, LFInv, LFTypeOK
    <3>2. /\ \A x : IsPushed(x) => x \in Nodes /\ x # node(t)
          /\ node(t) \in Nodes
      BY <3>1, PushedNodes DEF LFInv
    <3>3. \A x : IsPushed(x) => next'[x] = next[x]
      BY <2>1, <3>2 DEF lf_push_load, LFInv, LFTypeOK
    <3>4. \A u \in Threads : pc'[u] = "use" => pc[u] = "use" /\ old_head'[u] = old_head[u]
      BY <2>1 DEF lf_push_load, Goto, LFInv, LFTypeOK
    <3>5. head' = head /\ k' = k /\ team' = team /\ \A i \in 1 .. Len(s) : s[i] \in live'
      BY <1>1, <2>1 DEF lf_push_load, Stacked
    <3>6. Stacked(s)'
      BY <1>1, <3>3, <3>4, <3>5, KeepsStack DEF LFInv
    <3> QED
      BY <1>2, <1>3, <3>6
  <2>2. CASE ~lf_push_load(t)
    <3>1. head' = head /\ next' = next
      BY <1>6, <2>2 DEF thread, section6_lockfree_stack, sharing_client, lf_push,
                        lf_pop, malloc_node,
         malloc_fails, lf_push_retry, lf_pop_load, lf_pop_next, lf_pop_retry, use_and_free, use_and_keep
    <3> QED
      BY <3>1 DEF Contents
  <2> QED
    BY <2>1, <2>2
<1> QED
  BY <1>4, <1>5, <1>6

(***************************************************************************)
(* Refinement: whatever the interleaving, lf_push and lf_pop take effect   *)
(* at their successful compare-exchange, as the atomic push and pop of     *)
(* AtomicStack, and every other step is invisible.                         *)
(***************************************************************************)
THEOREM StackIsAtomic == Spec => ImplementsStack
<1> USE StackNodes
<1> DEFINE gone == {t \in Threads : pc[t] = "done"}
<1>1. Init => Atomic!StackInit
  <2> SUFFICES ASSUME Init PROVE Atomic!StackInit
    OBVIOUS
  <2>1. Stacked(<< >>)
    BY DEF Init, Stacked, Chain
  <2>2. Contents = << >>
    BY <2>1, StackContents
  <2> QED
    BY <2>2 DEF Init, Atomic!StackInit
<1>2. ASSUME LFInv, [Next]_vars PROVE [Atomic!StackNext]_(Atomic!stackVars)
  <2> SUFFICES ASSUME NEW t \in Threads, thread(t)
               PROVE  [Atomic!StackNext]_(Atomic!stackVars)
    <3>1. CASE UNCHANGED vars
      BY <3>1 DEF vars, Atomic!stackVars, Contents
    <3> QED
      BY <1>2, <3>1 DEF Next
  <2>1. LFTypeOK
    BY <1>2 DEF LFInv
  <2>2. CASE lf_push_cas(t)
    <3>1. Contents' = <<Mine[t][k[t] + 1]>> \o Contents
      BY <1>2, <2>2, Effect
    <3>2. /\ k[t] < Len(Mine[t]) /\ k' = [k EXCEPT ![t] = @ + 1]
          /\ popped' = popped /\ gone' = gone
      BY <2>1, <2>2 DEF lf_push_cas, Goto, LFTypeOK
    <3>3. Atomic!Push(t)
      BY <3>1, <3>2 DEF Atomic!Push
    <3> QED
      BY <3>3 DEF Atomic!StackNext
  <2>3. CASE lf_pop_cas(t)
    <3>1. /\ Contents # << >> /\ Head(Contents) = old_head[t]
          /\ Contents' = Tail(Contents)
      BY <1>2, <2>3, Effect
    <3>2. /\ t \notin gone /\ k' = k /\ gone' = gone
          /\ popped' = [popped EXCEPT ![t] = Append(@, old_head[t])]
      BY <2>1, <2>3 DEF lf_pop_cas, Goto, LFTypeOK
    <3>3. Atomic!Pop(t)
      BY <3>1, <3>2 DEF Atomic!Pop
    <3> QED
      BY <3>3 DEF Atomic!StackNext
  <2>4. CASE ~lf_push_cas(t) /\ ~lf_pop_cas(t)
    <3>1. Contents' = Contents
      BY <1>2, <2>4, Effect
    <3>2. CASE lf_pop_load(t) /\ head = NULL
      <4>1. PICK s : Stacked(s)
        BY <1>2 DEF LFInv
      <4>2. s \in Seq(Nodes) /\ (Len(s) = 0 \/ s[1] = NULL) /\ NULL \notin Nodes
        BY <3>2, <4>1 DEF Stacked, Chain, NodesAssumption
      <4>3. Contents = << >>
        BY <4>1, <4>2, StackContents
      <4>4. k' = k /\ popped' = popped /\ gone' = gone \cup {t}
        BY <2>1, <3>2 DEF lf_pop_load, Goto, LFTypeOK
      <4>5. Atomic!PopEmpty(t)
        BY <3>1, <4>3, <4>4 DEF Atomic!PopEmpty
      <4> QED
        BY <4>5 DEF Atomic!StackNext
    <3>3. CASE ~(lf_pop_load(t) /\ head = NULL)
      <4>1. k' = k /\ popped' = popped /\ gone' = gone
        BY <2>1, <2>4, <3>3 DEF thread, section6_lockfree_stack, sharing_client,
                                lf_push, lf_pop,
           malloc_node, malloc_fails, lf_push_load, lf_push_retry, lf_pop_load, lf_pop_next,
           lf_pop_retry, use_and_free, use_and_keep, Goto, LFTypeOK
      <4> QED
        BY <3>1, <4>1 DEF Atomic!stackVars
    <3> QED
      BY <3>2, <3>3
  <2> QED
    BY <2>2, <2>3, <2>4
<1>3. Init => LFInv
  BY LFInit
<1>4. LFInv /\ [Next]_vars => LFInv'
  BY LFStep
<1> QED
  BY <1>1, <1>2, <1>3, <1>4, PTL DEF Spec, ImplementsStack, Atomic!StackSpec

-----------------------------------------------------------------------------
\* Every node a thread holds as allocated is on the stack or in the thread's hands, if it runs alone.
Owned ==
    \A t \in Threads : team = {t} /\ pc[t] # "exit1" =>
      /\ \A x \in live :
           \/ \E i \in 1 .. Len(Contents) : Contents[i] = x
           \/ pc[t] \in {"push_load", "push_cas"} /\ x = node(t)
           \/ pc[t] = "use" /\ x = old_head[t]
      /\ pc[t] = "done" => head = NULL

\* The accounts of the abstract stack: pushed nodes are on it or were popped once.
Accounts ==
    /\ Contents \in Seq(Nodes)
    /\ \A i, j \in 1 .. Len(Contents) : Contents[i] = Contents[j] => i = j
    /\ PoppedOnce

\* section6 allocates, pushes, pops and frees one node at a time.
LEMMA OwnedStep ==
    ASSUME NodesAssumption, LFInv, LFInv', Owned, [Next]_vars
    PROVE  Owned'
<1>1. CASE UNCHANGED vars
  <2>1. UNCHANGED <<team, head, next, live, pc, k, old_head>>
    BY <1>1 DEF vars
  <2>2. Contents' = Contents /\ \A t \in Threads : node(t)' = node(t)
    BY <2>1 DEF Contents, node
  <2> QED
    BY <2>1, <2>2 DEF Owned
<1>2. ASSUME NEW t \in Threads, thread(t) PROVE Owned'
  <2>1. LFTypeOK /\ LFTypeOK' /\ LFLocals /\ LFAlone
    BY DEF LFInv
  <2>2. team' = team /\ pc[t] # "absent"
    BY <1>2 DEF thread, section6_lockfree_stack, sharing_client, lf_push, lf_pop,
                malloc_node,
       malloc_fails, lf_push_load, lf_push_cas, lf_push_retry, lf_pop_load, lf_pop_next, lf_pop_cas,
       lf_pop_retry, use_and_free, use_and_keep, Goto
  <2>3. t \in team
    BY <2>1, <2>2 DEF LFTypeOK
  <2> SUFFICES ASSUME team = {t}, pc'[t] # "exit1"
               PROVE  /\ \A x \in live' :
                           \/ \E i \in 1 .. Len(Contents') : Contents'[i] = x
                           \/ pc'[t] \in {"push_load", "push_cas"} /\ x = node(t)'
                           \/ pc'[t] = "use" /\ x = old_head'[t]
                      /\ pc'[t] = "done" => head' = NULL
    BY <2>2, <2>3 DEF Owned
  <2>4. section6_lockfree_stack(t)
    BY <1>2 DEF thread
  <2>5. ~malloc_fails(t) /\ pc[t] # "exit1"
    BY <2>1, <2>4 DEF section6_lockfree_stack, lf_push, lf_pop, malloc_node,
       malloc_fails, lf_push_load, lf_push_cas, lf_push_retry, lf_pop_load, lf_pop_next, lf_pop_cas,
       lf_pop_retry, use_and_free, Goto, LFTypeOK
  <2>6. /\ \A x \in live :
             \/ \E i \in 1 .. Len(Contents) : Contents[i] = x
             \/ pc[t] \in {"push_load", "push_cas"} /\ x = node(t)
             \/ pc[t] = "use" /\ x = old_head[t]
        /\ pc[t] = "done" => head = NULL
    BY <2>5 DEF Owned
  <2>7. PICK s : Stacked(s)
    BY DEF LFInv
  <2>8. Contents = s /\ Contents \in Seq(Nodes) /\ Len(Contents) \in Nat
    <3>1. Contents = s
      BY <2>7, StackContents
    <3> QED
      BY <2>7, <3>1 DEF Stacked, Chain
  <2>9. CASE lf_push_cas(t)
    <3>1. Contents' = <<node(t)>> \o Contents
      BY <1>2, <2>9, Effect DEF node
    <3>2. node(t) \in Nodes
      BY <2>1, <2>9, PushedNodes DEF lf_push_cas, Goto, LFTypeOK
    <3>3. /\ Len(Contents') = Len(Contents) + 1 /\ Contents'[1] = node(t)
          /\ \A i \in 1 .. Len(Contents) : i + 1 \in 1 .. Len(Contents') /\ Contents'[i + 1] = Contents[i]
      BY <2>8, <3>1, <3>2
    <3>4. live' = live /\ pc[t] = "push_cas" /\ pc'[t] \in {"malloc", "pop_load"}
      BY <2>1, <2>9 DEF lf_push_cas, Goto, LFTypeOK
    <3>5. 1 \in 1 .. Len(Contents')
      BY <2>8, <3>3
    <3> QED
      BY <2>6, <3>3, <3>4, <3>5
  <2>10. CASE lf_pop_cas(t)
    <3>1. /\ Contents # << >> /\ Head(Contents) = old_head[t]
          /\ Contents' = Tail(Contents)
      BY <1>2, <2>10, Effect
    <3>2. /\ Contents[1] = old_head[t] /\ Len(Contents') = Len(Contents) - 1
          /\ \A i \in 1 .. Len(Contents) : i # 1 => i - 1 \in 1 .. Len(Contents') /\ Contents'[i - 1] = Contents[i]
      BY <2>8, <3>1
    <3>3. /\ live' = live /\ pc[t] = "pop_cas" /\ pc'[t] = "use"
          /\ old_head' = old_head
      BY <2>1, <2>10 DEF lf_pop_cas, Goto, LFTypeOK
    <3> QED
      BY <2>6, <3>2, <3>3
  <2>11. CASE ~lf_push_cas(t) /\ ~lf_pop_cas(t)
    <3>1. Contents' = Contents
      BY <1>2, <2>11, Effect
    <3>2. CASE malloc_node(t)
      <4>1. /\ pc[t] = "malloc" /\ pc'[t] = "push_load" /\ live' = live \cup {node(t)} /\ node(t)' = node(t)
        BY <2>1, <3>2 DEF malloc_node, Goto, LFTypeOK, node
      <4> QED
        BY <2>6, <3>1, <4>1
    <3>3. CASE use_and_free(t)
      <4>1. pc[t] = "use" /\ pc'[t] = "pop_load" /\ live' = live \ {old_head[t]}
        BY <2>1, <3>3 DEF use_and_free, Goto, LFTypeOK
      <4> QED
        BY <2>6, <3>1, <4>1
    <3>4. CASE lf_push_load(t) \/ lf_push_retry(t)
      <4>1. /\ pc[t] \in {"push_load", "push_cas"} /\ pc'[t] \in {"push_load", "push_cas"}
            /\ live' = live /\ node(t)' = node(t)
        BY <2>1, <3>4 DEF lf_push_load, lf_push_retry, Goto, LFTypeOK, node
      <4> QED
        BY <2>6, <3>1, <4>1
    <3>5. CASE lf_pop_load(t) \/ lf_pop_next(t) \/ lf_pop_retry(t)
      <4>1. /\ pc[t] \in {"pop_load", "pop_next", "pop_cas"} /\ live' = live
            /\ pc'[t] \in {"pop_load", "pop_next", "pop_cas", "done"}
            /\ pc'[t] = "done" => head' = NULL
        BY <2>1, <3>5 DEF lf_pop_load, lf_pop_next, lf_pop_retry, Goto, LFTypeOK
      <4> QED
        BY <2>6, <3>1, <4>1
    <3> QED
      BY <2>4, <2>5, <2>11, <3>2, <3>3, <3>4, <3>5 DEF section6_lockfree_stack,
                                                       lf_push, lf_pop
  <2> QED
    BY <2>9, <2>10, <2>11
<1> QED
  BY <1>1, <1>2 DEF Next

\* Where the nodes are before anything was pushed.
LEMMA AccountsInit == ASSUME NodesAssumption, Init PROVE Owned /\ Accounts
<1>1. Contents = << >>
  <2>1. Stacked(<< >>)
    BY DEF Init, Stacked, Chain
  <2> QED
    BY <2>1, StackContents
<1>2. Owned
  BY DEF Init, Owned
<1>3. \A t \in Threads : k[t] = 0 /\ popped[t] = << >>
  BY DEF Init
<1>4. Pushed = {} /\ Popped = {} /\ OnStack = {}
  BY <1>1, <1>3 DEF Pushed, Popped, OnStack, Range
<1> QED
  BY <1>1, <1>2, <1>3, <1>4 DEF Accounts, PoppedOnce

\* An atomic push adds a new node to both sides of the account, an atomic pop moves one over.
LEMMA AccountsStep ==
    ASSUME NodesAssumption, LFTypeOK, Accounts, [Atomic!StackNext]_(Atomic!stackVars)
    PROVE  Accounts'
<1> USE DEF Accounts
<1>1. CASE UNCHANGED Atomic!stackVars
  <2>1. Contents' = Contents /\ k' = k /\ popped' = popped
    BY <1>1 DEF Atomic!stackVars
  <2>2. Pushed' = Pushed /\ Popped' = Popped /\ OnStack' = OnStack
    BY <2>1 DEF Pushed, Popped, OnStack
  <2> QED
    BY <2>1, <2>2 DEF PoppedOnce
<1>2. ASSUME NEW t \in Threads, Atomic!Push(t) PROVE Accounts'
  <2> DEFINE n == Mine[t][k[t] + 1]
  <2>1. /\ k[t] < Len(Mine[t]) /\ k' = [k EXCEPT ![t] = @ + 1]
        /\ Contents' = <<n>> \o Contents /\ popped' = popped
    BY <1>2 DEF Atomic!Push
  <2>2. n \in Nodes /\ ~IsPushed(n)
    BY <2>1, PushedNodes DEF node
  <2>3. \A x : IsPushed(x) <=> x \in Pushed
    BY DEF IsPushed, Pushed
  <2> HIDE DEF n
  <2>4. /\ Contents' \in Seq(Nodes) /\ Len(Contents') = Len(Contents) + 1
        /\ Contents'[1] = n /\ Len(Contents) \in Nat
        /\ \A i \in 1 .. Len(Contents') : i # 1 => i - 1 \in 1 .. Len(Contents) /\ Contents'[i] = Contents[i - 1]
        /\ \A i \in 1 .. Len(Contents) : i + 1 \in 1 .. Len(Contents') /\ Contents'[i + 1] = Contents[i]
    BY <2>1, <2>2
  <2>5. /\ DOMAIN Contents = 1 .. Len(Contents) /\ DOMAIN Contents' = 1 .. Len(Contents') /\ 1 \in 1 .. Len(Contents')
        /\ OnStack = {Contents[i] : i \in 1 .. Len(Contents)}
        /\ OnStack' = {Contents'[i] : i \in 1 .. Len(Contents')}
    BY <2>4 DEF OnStack, Range
  <2>6. OnStack' = OnStack \cup {n}
    <3>1. ASSUME NEW x \in OnStack' PROVE x \in OnStack \cup {n}
      <4>1. PICK i \in 1 .. Len(Contents') : x = Contents'[i]
        BY <2>5, <3>1
      <4>2. CASE i = 1
        BY <2>4, <4>1, <4>2
      <4>3. CASE i # 1
        <5>1. i - 1 \in 1 .. Len(Contents) /\ x = Contents[i - 1]
          BY <2>4, <4>1, <4>3
        <5> QED
          BY <2>5, <5>1
      <4> QED
        BY <4>2, <4>3
    <3>2. ASSUME NEW x \in OnStack PROVE x \in OnStack'
      <4>1. PICK i \in 1 .. Len(Contents) : x = Contents[i]
        BY <2>5, <3>2
      <4>2. i + 1 \in 1 .. Len(Contents') /\ x = Contents'[i + 1]
        BY <2>4, <4>1
      <4> QED
        BY <2>5, <4>2
    <3>3. n \in OnStack'
      BY <2>4, <2>5
    <3> QED
      BY <3>1, <3>2, <3>3
  <2>7. Pushed' = Pushed \cup {n}
    <3>1. \A u \in Threads : k[u] \in Nat
      BY DEF LFTypeOK
    <3>2. k'[t] = k[t] + 1 /\ \A u \in Threads : u # t => k'[u] = k[u]
      BY <2>1, <3>1 DEF LFTypeOK
    <3>3. n = Mine[t][k[t] + 1]
      BY DEF n
    <3>4. {Mine[t][i] : i \in 1 .. k'[t]} = {Mine[t][i] : i \in 1 .. k[t]} \cup {n}
      BY <3>1, <3>2, <3>3
    <3>5. \A u \in Threads : u # t => {Mine[u][i] : i \in 1 .. k'[u]} = {Mine[u][i] : i \in 1 .. k[u]}
      BY <3>2
    <3>6. ASSUME NEW x PROVE x \in Pushed' <=> x \in Pushed \cup {n}
      <4>1. x \in Pushed <=> \E u \in Threads : x \in {Mine[u][i] : i \in 1 .. k[u]}
        BY DEF Pushed
      <4>2. x \in Pushed' <=> \E u \in Threads : x \in {Mine[u][i] : i \in 1 .. k'[u]}
        BY DEF Pushed
      <4> QED
        BY ZenonT(60), <3>4, <3>5, <4>1, <4>2
    <3> QED
      BY <3>6
  <2>8. Popped' = Popped
    BY <2>1 DEF Popped
  <2>9. n \notin OnStack /\ n \notin Popped
    BY <2>2, <2>3 DEF PoppedOnce
  <2>10. PoppedOnce'
    BY <2>1, <2>6, <2>7, <2>8, <2>9 DEF PoppedOnce
  <2>11. \A i, j \in 1 .. Len(Contents') : Contents'[i] = Contents'[j] => i = j
    <3>1. \A i \in 1 .. Len(Contents') : i # 1 => Contents'[i] # n
      BY <2>4, <2>5, <2>9
    <3>2. ASSUME NEW i \in 1 .. Len(Contents'), NEW j \in 1 .. Len(Contents'), i # 1, j # 1,
                 Contents'[i] = Contents'[j]
          PROVE  i = j
      <4>1. /\ i - 1 \in 1 .. Len(Contents) /\ j - 1 \in 1 .. Len(Contents)
            /\ Contents[i - 1] = Contents[j - 1]
        BY <2>4, <3>2
      <4>2. i - 1 = j - 1
        BY <4>1
      <4> QED
        BY <2>4, <4>2
    <3> QED
      BY <2>4, <3>1, <3>2
  <2> QED
    BY <2>4, <2>10, <2>11
<1>3. ASSUME NEW t \in Threads, Atomic!Pop(t) PROVE Accounts'
  <2>1. /\ Contents # << >> /\ popped' = [popped EXCEPT ![t] = Append(@, Head(Contents))]
        /\ Contents' = Tail(Contents) /\ k' = k
    BY <1>3 DEF Atomic!Pop
  <2> DEFINE n == Contents[1]
  <2>2. /\ Len(Contents) \in Nat /\ Len(Contents) > 0 /\ Head(Contents) = n /\ n \in Nodes
        /\ Contents' \in Seq(Nodes) /\ Len(Contents') = Len(Contents) - 1
        /\ \A i \in 1 .. Len(Contents') : i + 1 \in 1 .. Len(Contents) /\ Contents'[i] = Contents[i + 1]
        /\ \A i \in 1 .. Len(Contents) : i # 1 => i - 1 \in 1 .. Len(Contents') /\ Contents'[i - 1] = Contents[i]
    BY <2>1
  <2>3. \A i, j \in 1 .. Len(Contents') : Contents'[i] = Contents'[j] => i = j
    <3> SUFFICES ASSUME NEW i \in 1 .. Len(Contents'), NEW j \in 1 .. Len(Contents'), Contents'[i] = Contents'[j]
                 PROVE  i = j
      OBVIOUS
    <3>1. i + 1 = j + 1
      BY <2>2
    <3> QED
      BY <3>1
  <2>4. /\ OnStack = {Contents[i] : i \in 1 .. Len(Contents)}
        /\ OnStack' = {Contents'[i] : i \in 1 .. Len(Contents')}
    <3>1. /\ DOMAIN Contents = 1 .. Len(Contents)
          /\ DOMAIN Contents' = 1 .. Len(Contents')
      BY <2>2
    <3> QED
      BY <3>1 DEF OnStack, Range
  <2>5. OnStack = OnStack' \cup {n} /\ n \notin OnStack'
    <3>1. 1 \in 1 .. Len(Contents)
      BY <2>2
    <3>2. ASSUME NEW i \in 1 .. Len(Contents') PROVE Contents'[i] # n
      <4>1. /\ i + 1 \in 1 .. Len(Contents) /\ i + 1 # 1
            /\ Contents'[i] = Contents[i + 1]
        BY <2>2
      <4> QED
        BY <3>1, <4>1
    <3>3. ASSUME NEW x \in OnStack PROVE x \in OnStack' \cup {n}
      <4>1. PICK i \in 1 .. Len(Contents) : x = Contents[i]
        BY <2>4
      <4> QED
        BY ZenonT(60), <2>2, <2>4, <4>1
    <3>4. ASSUME NEW x \in OnStack' PROVE x \in OnStack
      <4>1. PICK i \in 1 .. Len(Contents') : x = Contents'[i]
        BY <2>4
      <4>2. i + 1 \in 1 .. Len(Contents) /\ x = Contents[i + 1]
        BY <2>2, <4>1
      <4> QED
        BY <2>4, <4>2
    <3> QED
      BY <2>4, <3>1, <3>2, <3>3, <3>4
  <2> HIDE DEF n
  <2>6. /\ popped[t] \in Seq(Nodes) /\ Len(popped[t]) \in Nat /\ popped'[t] = Append(popped[t], n)
        /\ \A u \in Threads : u # t => popped'[u] = popped[u]
    BY <2>1, <2>2 DEF LFTypeOK
  <2>7. /\ DOMAIN popped[t] = 1 .. Len(popped[t]) /\ DOMAIN popped'[t] = 1 .. Len(popped[t]) + 1
        /\ popped'[t][Len(popped[t]) + 1] = n
        /\ \A i \in 1 .. Len(popped[t]) : popped'[t][i] = popped[t][i]
    BY <2>2, <2>6
  <2>8. Range(popped'[t]) = Range(popped[t]) \cup {n}
    BY SMTT(30), <2>6, <2>7 DEF Range
  <2>9. Popped' = Popped \cup {n}
    <3> SUFFICES ASSUME NEW x PROVE x \in Popped' <=> x \in Popped \cup {n}
      OBVIOUS
    <3>1. x \in Popped <=> \E u \in Threads : x \in Range(popped[u])
      BY DEF Popped
    <3>2. x \in Popped' <=> \E u \in Threads : x \in Range(popped'[u])
      BY DEF Popped
    <3> QED
      BY <2>6, <2>8, <3>1, <3>2
  <2>10. Pushed' = Pushed
    BY <2>1 DEF Pushed
  <2>11. \A u \in Threads : \A i \in DOMAIN popped[u] : popped[u][i] # n
    <3>1. n \notin Popped
      BY <2>5 DEF PoppedOnce
    <3> QED
      BY <3>1 DEF Popped, Range
  <2>12. ASSUME NEW u \in Threads, NEW w \in Threads, NEW i \in DOMAIN popped'[u], NEW j \in DOMAIN popped'[w],
                popped'[u][i] = popped'[w][j]
         PROVE  u = w /\ i = j
    <3>1. \A v \in Threads : \A h \in DOMAIN popped'[v] :
            \/ h \in DOMAIN popped[v] /\ popped'[v][h] = popped[v][h] /\ popped'[v][h] # n
            \/ v = t /\ h = Len(popped[t]) + 1 /\ popped'[v][h] = n
      <4> SUFFICES ASSUME NEW v \in Threads, NEW h \in DOMAIN popped'[v]
                   PROVE  \/ h \in DOMAIN popped[v] /\ popped'[v][h] = popped[v][h] /\ popped'[v][h] # n
                          \/ v = t /\ h = Len(popped[t]) + 1 /\ popped'[v][h] = n
        OBVIOUS
      <4>1. CASE v # t
        BY <2>6, <2>11, <4>1
      <4>2. CASE v = t
        <5>1. h \in 1 .. Len(popped[t]) \/ h = Len(popped[t]) + 1
          BY <2>6, <2>7, <4>2
        <5> QED
          BY <2>7, <2>11, <4>2, <5>1
      <4> QED
        BY <4>1, <4>2
    <3>2. \A v, y \in Threads : \A h \in DOMAIN popped[v], l \in DOMAIN popped[y] :
            popped[v][h] = popped[y][l] => v = y /\ h = l
      BY DEF PoppedOnce
    <3>3. CASE popped'[u][i] = n
      BY ZenonT(60), <2>12, <3>1, <3>3
    <3>4. CASE popped'[u][i] # n
      BY <2>12, <3>1, <3>2, <3>4
    <3> QED
      BY <3>3, <3>4
  <2>13. PoppedOnce'
    BY <2>5, <2>9, <2>10, <2>12 DEF PoppedOnce
  <2> QED
    BY <2>2, <2>3, <2>13
<1>4. ASSUME NEW t \in Threads, Atomic!PopEmpty(t) PROVE Accounts'
  <2>1. Contents' = Contents /\ k' = k /\ popped' = popped
    BY <1>4 DEF Atomic!PopEmpty
  <2>2. Pushed' = Pushed /\ Popped' = Popped /\ OnStack' = OnStack
    BY <2>1 DEF Pushed, Popped, OnStack
  <2> QED
    BY <2>1, <2>2 DEF PoppedOnce
<1> QED
  BY <1>1, <1>2, <1>3, <1>4 DEF Atomic!StackNext

(***************************************************************************)
(* For any number of threads and nodes: lf_push and lf_pop lose no node    *)
(* and hand none out twice, no loop and no printf reads a freed node, and  *)
(* section6, which frees what it pops, has freed all its nodes when it     *)
(* finds the stack empty. The account of pushed and popped nodes is kept   *)
(* by the abstract stack and carries over by the refinement.               *)
(***************************************************************************)
THEOREM StackNodesAccounted == Spec => []NodesAccounted
<1> USE StackNodes
<1>1. Init => LFInv /\ Owned /\ Accounts
  BY LFInit, AccountsInit
<1>2. LFInv /\ [Next]_vars => LFInv'
  BY LFStep
<1>3. LFInv /\ LFInv' /\ Owned /\ [Next]_vars => Owned'
  BY OwnedStep
<1>4. LFInv /\ Accounts /\ [Atomic!StackNext]_(Atomic!stackVars) => Accounts'
  BY AccountsStep DEF LFInv
<1>5. LFInv /\ Owned /\ Accounts => NodesAccounted
  <2> SUFFICES ASSUME LFInv, Owned, Accounts PROVE NodesAccounted
    OBVIOUS
  <2>1. PICK s : Stacked(s)
    BY DEF LFInv
  <2>2. Contents = s
    BY <2>1, StackContents
  <2>3. OnStack \subseteq live
    <3>1. \A i \in 1 .. Len(s) : s[i] \in live
      BY <2>1 DEF Stacked
    <3>2. DOMAIN s = 1 .. Len(s)
      BY <2>1 DEF Stacked, Chain
    <3> QED
      BY <2>2, <3>1, <3>2 DEF OnStack, Range
  <2>4. ASSUME NEW t \in Threads
        PROVE  /\ pc[t] \in {"pop_next", "use"} => old_head[t] \in live
               /\ pc[t] \in {"push_load", "push_cas"} => node(t) \in live
    <3>1. pc[t] \in {"push_load", "push_cas"} => node(t) \in live
      BY DEF LFInv, LFLocals
    <3>2. head # NULL => head \in live
      BY DEF LFInv, Stacked, Chain
    <3>3. pc[t] \in {"pop_next", "use"} => old_head[t] # NULL
      BY PushedNodes DEF LFInv, LFLocals
    <3>4. CASE team = {t}
      BY <3>1, <3>2, <3>3, <3>4 DEF LFInv, LFAlone
    <3>5. CASE team # {t} /\ pc[t] \in {"pop_next", "use"}
      <4>1. \A u \in Threads : team # {u}
        BY <3>5 DEF LFInv, LFTypeOK
      <4> QED
        BY <3>1, <3>5, <4>1 DEF LFInv, LFLocals, LFShared
    <3> QED
      BY <3>1, <3>4, <3>5
  <2>5. ASSUME NEW t \in Threads, team = {t}, pc[t] = "done" PROVE live = {}
    <3>1. head = NULL /\ \A x \in live : \E i \in 1 .. Len(Contents) : Contents[i] = x
      BY <2>5 DEF Owned
    <3>2. s \in Seq(Nodes) /\ (Len(s) = 0 \/ s[1] = NULL) /\ NULL \notin Nodes
      BY <2>1, <3>1 DEF Stacked, Chain, NodesAssumption
    <3>3. Len(s) = 0
      BY <3>2
    <3> QED
      BY <2>2, <3>1, <3>3
  <2> QED
    BY <2>3, <2>4, <2>5 DEF Accounts, NodesAccounted, NoUseAfterFree, NothingLeaked
<1>6. Spec => Atomic!StackSpec
  BY StackIsAtomic DEF ImplementsStack
<1> QED
  BY <1>1, <1>2, <1>3, <1>4, <1>5, <1>6, PTL DEF Spec, Atomic!StackSpec

-----------------------------------------------------------------------------
\* The arrays the loop goes through hold natural numbers.
LEMMA NaturalArrays == values \in [Threads -> Seq(Nat)]
  BY MaximumArrays DEF Max!ValuesAssumption

\* The inductive invariant of the compare-exchange loop.
CasInv == Max!TypeOK /\ Max!StaleCurIsSafe /\ Max!IsMaximum

(***************************************************************************)
(* The invariant of the compare-exchange loop holds before the threads     *)
(* start.                                                                  *)
(***************************************************************************)
LEMMA CasInit == Max!Init => CasInv
  BY NaturalArrays DEF Max!Init, CasInv, Max!TypeOK, Max!StaleCurIsSafe,
                       Max!IsMaximum, Max!Seen

\* A thread that leaves element v of its array behind has seen v as well.
LEMMA SeenGrows ==
    ASSUME Max!TypeOK, NEW t \in Threads, max_i[t] <= Len(values[t]),
           max_i' = [max_i EXCEPT ![t] = @ + 1]
    PROVE  /\ Max!Seen(t)' = Max!Seen(t) \cup {values[t][max_i[t]]}
           /\ \A u \in Threads : u # t => Max!Seen(u)' = Max!Seen(u)
<1>1. /\ max_i[t] \in Nat /\ max_i[t] >= 1 /\ max_i'[t] = max_i[t] + 1
      /\ \A u \in Threads : u # t => max_i'[u] = max_i[u]
  BY NaturalArrays DEF Max!TypeOK
<1>2. 1 .. max_i'[t] - 1 = (1 .. max_i[t] - 1) \cup {max_i[t]}
  BY <1>1
<1> QED
  BY <1>1, <1>2 DEF Max!Seen

\* The element a thread is looking at exists and is a natural number.
LEMMA CurrentElement ==
    ASSUME Max!TypeOK, NEW t \in Threads, max_pc[t] = "while"
    PROVE  /\ max_i[t] \in 1 .. Len(values[t]) /\ max_i[t] <= Len(values[t])
           /\ values[t][max_i[t]] \in Nat
<1>1. values[t] \in Seq(Nat) /\ Len(values[t]) \in Nat
  BY NaturalArrays
<1>2. max_i[t] \in 1 .. Len(values[t])
  BY <1>1 DEF Max!TypeOK
<1> QED
  BY <1>1, <1>2

(***************************************************************************)
(* Every step of a thread in the loop of section3_cas keeps the invariant, *)
(* whether the compare-exchange succeeds, fails on a stale value or fails  *)
(* spuriously.                                                             *)
(***************************************************************************)
LEMMA CasStep == CasInv /\ [Max!Next]_Max!vars => CasInv'
<1> SUFFICES ASSUME CasInv, [Max!Next]_Max!vars PROVE CasInv'
  OBVIOUS
<1> USE NaturalArrays
<1>1. ASSUME NEW t \in Threads, Max!load(t) PROVE CasInv'
  BY <1>1 DEF Max!load, CasInv, Max!TypeOK, Max!StaleCurIsSafe, Max!IsMaximum,
              Max!Seen
<1>2. ASSUME NEW t \in Threads, Max!no_larger(t) PROVE CasInv'
  <2>1. Max!TypeOK'
    BY <1>2 DEF Max!no_larger, CasInv, Max!TypeOK
  <2>2. Max!StaleCurIsSafe'
    BY <1>2 DEF Max!no_larger, CasInv, Max!StaleCurIsSafe
  <2>3. /\ max_i[t] \in 1 .. Len(values[t]) /\ values[t][max_i[t]] \in Nat
        /\ max_i[t] <= Len(values[t])
        /\ max_cur[t] \in Nat /\ max_maximum \in Nat /\ max_cur[t] <= max_maximum
    BY <1>2, CurrentElement DEF Max!no_larger, CasInv, Max!TypeOK,
                                Max!StaleCurIsSafe
  <2>4. values[t][max_i[t]] <= max_maximum
    BY <1>2, <2>3 DEF Max!no_larger
  <2>5. /\ Max!Seen(t)' = Max!Seen(t) \cup {values[t][max_i[t]]}
        /\ \A u \in Threads : u # t => Max!Seen(u)' = Max!Seen(u)
    BY <1>2, <2>3, SeenGrows DEF Max!no_larger, CasInv
  <2>6. Max!IsMaximum'
    BY <1>2, <2>4, <2>5 DEF Max!no_larger, CasInv, Max!IsMaximum
  <2> QED
    BY <2>1, <2>2, <2>6 DEF CasInv
<1>3. ASSUME NEW t \in Threads, Max!cas_success(t) PROVE CasInv'
  <2>1. Max!TypeOK'
    BY <1>3 DEF Max!cas_success, CasInv, Max!TypeOK
  <2>2. /\ max_i[t] \in 1 .. Len(values[t]) /\ values[t][max_i[t]] \in Nat
        /\ max_i[t] <= Len(values[t])
        /\ max_maximum \in Nat /\ max_maximum' = values[t][max_i[t]] /\ max_maximum < max_maximum'
    BY <1>3, CurrentElement DEF Max!cas_success, CasInv, Max!TypeOK
  <2>3. Max!StaleCurIsSafe'
    BY <1>3, <2>2 DEF Max!cas_success, CasInv, Max!TypeOK, Max!StaleCurIsSafe
  <2>4. /\ Max!Seen(t)' = Max!Seen(t) \cup {values[t][max_i[t]]}
        /\ \A u \in Threads : u # t => Max!Seen(u)' = Max!Seen(u)
    BY <1>3, <2>2, SeenGrows DEF Max!cas_success, CasInv
  <2>5. \A u \in Threads : \A v \in Max!Seen(u) : v \in Nat /\ v <= max_maximum
    <3> SUFFICES ASSUME NEW u \in Threads, NEW v \in Max!Seen(u) PROVE v \in Nat
      BY DEF CasInv, Max!IsMaximum
    <3>1. values[u] \in Seq(Nat) /\ max_i[u] \in 1 .. Len(values[u]) + 1
      BY DEF CasInv, Max!TypeOK
    <3>2. PICK e \in 1 .. max_i[u] - 1 : v = values[u][e]
      BY DEF Max!Seen
    <3>3. e \in 1 .. Len(values[u])
      BY <3>1, <3>2
    <3> QED
      BY <3>1, <3>2, <3>3
  <2>6. \A u \in Threads : \A v \in Max!Seen(u)' : v <= max_maximum'
    <3> SUFFICES ASSUME NEW u \in Threads, NEW v \in Max!Seen(u)'
                 PROVE  v <= max_maximum'
      OBVIOUS
    <3>1. v \in Max!Seen(u) \/ v = max_maximum'
      BY <2>2, <2>4
    <3>2. v \in Max!Seen(u) => v \in Nat /\ v <= max_maximum
      BY <2>5
    <3> QED
      BY <3>1, <3>2, <2>2
  <2>7. max_maximum' \in Max!Seen(t)'
    BY <2>2, <2>4
  <2>8. Max!IsMaximum'
    BY <2>6, <2>7 DEF Max!IsMaximum
  <2> QED
    BY <2>1, <2>3, <2>8 DEF CasInv
<1>4. ASSUME NEW t \in Threads, Max!cas_failure(t) PROVE CasInv'
  BY <1>4 DEF Max!cas_failure, CasInv, Max!TypeOK, Max!StaleCurIsSafe,
              Max!IsMaximum, Max!Seen
<1>5. ASSUME NEW t \in Threads, Max!finish(t) PROVE CasInv'
  BY <1>5 DEF Max!finish, CasInv, Max!TypeOK, Max!StaleCurIsSafe, Max!IsMaximum,
              Max!Seen
<1>6. CASE UNCHANGED Max!vars
  BY <1>6 DEF Max!vars, CasInv, Max!TypeOK, Max!StaleCurIsSafe, Max!IsMaximum,
              Max!Seen
<1> QED
  BY <1>1, <1>2, <1>3, <1>4, <1>5, <1>6 DEF Max!Next, Max!thread

\* The inductive invariant: types, stale expectations, and the maximum itself.
THEOREM CasCorrect == Max!Spec => []CasInv
  BY CasInit, CasStep, PTL DEF Max!Spec

\* The compare-exchange loop computes the maximum of what has been processed,
\* for any number of threads and any arrays.
THEOREM MaximumCorrect == Max!Spec => []IsMaximum
  BY CasCorrect, PTL DEF CasInv, IsMaximum

\* No step of any thread lowers the published maximum.
THEOREM Monotone == Max!Spec => Max!MaximumNeverDecreases
<1>1. CasInv /\ [Max!Next]_Max!vars => [max_maximum' >= max_maximum]_max_maximum
  <2> SUFFICES ASSUME CasInv, [Max!Next]_Max!vars, max_maximum' # max_maximum
               PROVE  max_maximum' >= max_maximum
    OBVIOUS
  <2>1. PICK t \in Threads : Max!cas_success(t)
    BY DEF Max!Next, Max!thread, Max!load, Max!no_larger, Max!cas_failure,
       Max!finish, Max!vars
  <2>2. max_maximum \in Nat /\ values[t][max_i[t]] \in Nat
    BY <2>1, CurrentElement DEF CasInv, Max!TypeOK, Max!cas_success
  <2> QED
    BY <2>1, <2>2 DEF Max!cas_success
<1> QED
  BY <1>1, CasCorrect, PTL DEF Max!Spec, Max!MaximumNeverDecreases
==============================================================================
