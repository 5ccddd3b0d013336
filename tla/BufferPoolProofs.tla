-------------------------- MODULE BufferPoolProofs --------------------------
(***************************************************************************)
(* With one allocating thread and any number of deallocating threads, the  *)
(* lock-free pool never hands a slot out twice, for every capacity above   *)
(* zero: the single popper makes the classic ABA schedule impossible,      *)
(* because a slot that an allocate() has seen at the head of the list      *)
(* stays on the list, with its link unchanged, until that allocate() ends. *)
(***************************************************************************)
EXTENDS BufferPool, FiniteSetTheorems, WellFoundedInduction, TLAPS

\* The inductive invariant.
IInv ==
    /\ TypeOK
    /\ ChainOver(Nat)
    /\ UniqueHolder
    /\ LocalsAgree
    /\ NoPanic

\* The constants of the theorems: one allocating thread, at least one slot.
Assumed == SingleAllocator /\ Capacity > 0

\* BufferPool::new links every slot, the last one to END_OF_LIST, and puts slot 0
\* on top.
LEMMA InitIInv == ASSUME Assumed PROVE Init => IInv
<1> SUFFICES ASSUME Init PROVE IInv
  OBVIOUS
<1> USE PoolAssumption
<1>1. TypeOK
  BY DEF Init, TypeOK, Slots, Index, END_OF_LIST, PC, InitialNext, Assumed
<1>2. ChainOver(Nat)
  <2> DEFINE depth == [s \in Slots |-> Capacity - s]
  <2>1. depth \in [Slots -> Nat] /\ Capacity \in Nat
    BY DEF Slots
  <2>2. IsChain(depth, Capacity)
    BY DEF Init, IsChain, Slots, END_OF_LIST, InitialNext, Assumed
  <2>3. \A s \in Slots : depth[s] = 0 <=> \E t \in Threads : s \in held[t]
    BY DEF Init, Slots
  <2>4. \A t \in Threads : pc[t] \notin {"alloc_next", "alloc_cas"}
    BY DEF Init
  <2> HIDE DEF depth
  <2> QED
    BY <2>1, <2>2, <2>3, <2>4 DEF ChainOver
<1>3. UniqueHolder /\ LocalsAgree /\ NoPanic
  BY DEF Init, UniqueHolder, LocalsAgree, NoPanic
<1> QED
  BY <1>1, <1>2, <1>3 DEF IInv

\* A step that leaves the list, its head and the set of held slots alone, and
\* moves no thread into the middle of an allocate() unless the slot it read is on
\* the list, keeps the chain.
LEMMA ChainStable ==
    ASSUME ChainOver(Nat),
           \A s \in Slots : (\E t \in Threads : s \in held'[t])
                                <=> \E t \in Threads : s \in held[t],
           free_head' = free_head,
           \A s \in Slots : (\E t \in Threads : s \in held[t])
                                \/ free_list'[s] = free_list[s],
           \A t \in Threads :
               pc'[t] \in {"alloc_next", "alloc_cas"} =>
                  \/ pc[t] \in {"alloc_next", "alloc_cas"} /\ head'[t] = head[t]
                  \/ head'[t] = free_head /\ free_head # END_OF_LIST
    PROVE  ChainOver(Nat)'
<1> PICK depth \in [Slots -> Nat], n \in Nat :
        /\ IsChain(depth, n)
        /\ \A s \in Slots : depth[s] = 0 <=> \E t \in Threads : s \in held[t]
        /\ \A t \in Threads :
              pc[t] \in {"alloc_next", "alloc_cas"} =>
                  head[t] \in Slots /\ depth[head[t]] > 0
  BY DEF ChainOver
<1>1. IsChain(depth, n)'
  BY DEF IsChain
<1>2. \A s \in Slots : depth[s] = 0 <=> \E t \in Threads : s \in held'[t]
  OBVIOUS
<1>3. \A t \in Threads :
         pc'[t] \in {"alloc_next", "alloc_cas"} =>
             head'[t] \in Slots /\ depth[head'[t]] > 0
  BY DEF IsChain
<1> QED
  BY <1>1, <1>2, <1>3 DEF ChainOver

\* A successful exchange of allocate() pops the top of the chain.
LEMMA PopChain ==
    ASSUME IInv, Assumed, NEW t \in Threads, AllocCasOk(t)
    PROVE  /\ ChainOver(Nat)'
           /\ \A u \in Threads : head[t] \notin held[u]
           /\ head[t] \in Slots
<1> USE PoolAssumption
<1> PICK depth \in [Slots -> Nat], n \in Nat :
        /\ IsChain(depth, n)
        /\ \A s \in Slots : depth[s] = 0 <=> \E u \in Threads : s \in held[u]
        /\ \A u \in Threads :
              pc[u] \in {"alloc_next", "alloc_cas"} =>
                  head[u] \in Slots /\ depth[head[u]] > 0
  BY DEF IInv, ChainOver
<1> PICK h : h = head[t]
  OBVIOUS
<1> DEFINE d == [depth EXCEPT ![h] = 0]
<1>1. /\ h \in Slots /\ depth[h] = n /\ n > 0
      /\ free_head' = free_list[h]
      /\ free_list' = free_list
  BY DEF AllocCasOk, IInv, LocalsAgree, IsChain, Slots, END_OF_LIST
<1>2. \A u \in Threads : h \notin held[u]
  BY <1>1
<1>3. d \in [Slots -> Nat] /\ n - 1 \in Nat
  BY <1>1
<1>4. IsChain(d, n - 1)'
  <2>1. \A s \in Slots : d[s] <= n - 1
    BY <1>1 DEF IsChain
  <2>2. \A r, s \in Slots : d[r] = d[s] /\ d[r] > 0 => r = s
    BY <1>1 DEF IsChain
  <2>3. IF n - 1 = 0 THEN free_head' = END_OF_LIST
                     ELSE free_head' \in Slots /\ d[free_head'] = n - 1
    BY <1>1 DEF IsChain
  <2>4. \A s \in Slots : d[s] = 1 => free_list'[s] = END_OF_LIST
    BY <1>1 DEF IsChain
  <2>5. \A s \in Slots : d[s] > 1 =>
           free_list'[s] \in Slots /\ d[free_list'[s]] = d[s] - 1
    <3> SUFFICES ASSUME NEW s \in Slots, d[s] > 1
                 PROVE  free_list[s] \in Slots /\ d[free_list[s]] = d[s] - 1
      BY <1>1
    <3>1. depth[s] = d[s] /\ depth[s] > 1
      BY <1>1
    <3>2. free_list[s] \in Slots /\ depth[free_list[s]] = depth[s] - 1
      BY <3>1 DEF IsChain
    <3>3. free_list[s] # h
      BY <3>1, <3>2, <1>1 DEF IsChain
    <3> QED
      BY <3>1, <3>2, <3>3
  <2> HIDE DEF d
  <2> QED
    BY <2>1, <2>2, <2>3, <2>4, <2>5 DEF IsChain
<1>5. \A s \in Slots : d[s] = 0 <=> \E u \in Threads : s \in held'[u]
  BY <1>1 DEF AllocCasOk, IInv, TypeOK
<1>6. \A u \in Threads : pc'[u] \notin {"alloc_next", "alloc_cas"}
  BY DEF AllocCasOk, IInv, TypeOK, LocalsAgree, Assumed, SingleAllocator, Goto
<1> HIDE DEF d
<1>7. ChainOver(Nat)'
  BY <1>3, <1>4, <1>5, <1>6 DEF ChainOver
<1> QED
  BY <1>1, <1>2, <1>7

\* A successful exchange of deallocate() pushes the caller's slot on the chain.
LEMMA PushChain ==
    ASSUME IInv, Assumed, NEW t \in Threads, FreeCasOk(t)
    PROVE  ChainOver(Nat)'
<1> USE PoolAssumption
<1> PICK depth \in [Slots -> Nat], n \in Nat :
        /\ IsChain(depth, n)
        /\ \A s \in Slots : depth[s] = 0 <=> \E u \in Threads : s \in held[u]
        /\ \A u \in Threads :
              pc[u] \in {"alloc_next", "alloc_cas"} =>
                  head[u] \in Slots /\ depth[head[u]] > 0
  BY DEF IInv, ChainOver
<1> PICK h : h = handle[t]
  OBVIOUS
<1> DEFINE d == [depth EXCEPT ![h] = n + 1]
<1>1. /\ h \in held[t] /\ h \in Slots /\ depth[h] = 0
      /\ free_head' = h
      /\ free_list[h] = free_head
      /\ free_list' = free_list
  BY DEF FreeCasOk, IInv, LocalsAgree, TypeOK
<1>3. d \in [Slots -> Nat] /\ n + 1 \in Nat
  BY <1>1
<1>4. IsChain(d, n + 1)'
  <2>1. \A s \in Slots : d[s] <= n + 1
    BY <1>1 DEF IsChain
  <2>2. \A r, s \in Slots : d[r] = d[s] /\ d[r] > 0 => r = s
    BY <1>1 DEF IsChain
  <2>3. IF n + 1 = 0 THEN free_head' = END_OF_LIST
                     ELSE free_head' \in Slots /\ d[free_head'] = n + 1
    BY <1>1 DEF IsChain
  <2>4. \A s \in Slots : d[s] = 1 => free_list'[s] = END_OF_LIST
    BY <1>1 DEF IsChain
  <2>5. \A s \in Slots : d[s] > 1 =>
           free_list'[s] \in Slots /\ d[free_list'[s]] = d[s] - 1
    BY <1>1 DEF IsChain
  <2> HIDE DEF d
  <2> QED
    BY <2>1, <2>2, <2>3, <2>4, <2>5 DEF IsChain
<1>5. \A s \in Slots : d[s] = 0 <=> \E u \in Threads : s \in held'[u]
  BY <1>1 DEF FreeCasOk, IInv, TypeOK, UniqueHolder
<1>6. \A u \in Threads :
         pc'[u] \in {"alloc_next", "alloc_cas"} =>
             head'[u] \in Slots /\ d[head'[u]] > 0
  BY <1>1 DEF FreeCasOk, IInv, TypeOK, Goto
<1> HIDE DEF d
<1> QED
  BY <1>3, <1>4, <1>5, <1>6 DEF ChainOver

\* Every access of every thread preserves the invariant.
LEMMA StepIInv == ASSUME IInv, Assumed, [Next]_vars PROVE IInv'
<1> USE PoolAssumption
<1>0. TypeOK /\ ChainOver(Nat) /\ UniqueHolder /\ LocalsAgree /\ NoPanic
  BY DEF IInv
<1>t. TypeOK'
  <2>0. Index \union {0} = Index
    BY DEF Index, Slots, Assumed
  <2>1. ASSUME NEW t \in Threads, AllocCall(t) \/ FreeCall(t) PROVE TypeOK'
    BY <2>1, <1>0 DEF TypeOK, AllocCall, FreeCall, Goto, PC, Index
  <2>2. ASSUME NEW t \in Threads, AllocStep(t) PROVE TypeOK'
    <3>1. ASSUME AllocCasOk(t) PROVE TypeOK'
      <4>1. head[t] \in Slots
        BY <1>0, <3>1 DEF AllocCasOk, ChainOver
      <4> QED
        BY <1>0, <2>0, <3>1, <4>1 DEF TypeOK, AllocCasOk, Goto, PC
    <3>2. ASSUME AllocLoadHead(t) \/ AllocCasFail(t) PROVE TypeOK'
      BY <1>0, <2>0, <3>2, ZenonT(60) DEF TypeOK, AllocLoadHead, AllocCasFail, Goto, PC
    <3>3. ASSUME AllocLoadNext(t) PROVE TypeOK'
      BY <1>0, <2>0, <3>3 DEF TypeOK, AllocLoadNext, Goto, PC
    <3> QED
      BY <2>2, <3>1, <3>2, <3>3 DEF AllocStep
  <2>3. ASSUME NEW t \in Threads, FreeStep(t) PROVE TypeOK'
    <3>1. ASSUME FreeStoreNext(t) PROVE TypeOK'
      BY <1>0, <2>0, <3>1 DEF TypeOK, FreeStoreNext, Goto, PC
    <3>2. ASSUME FreeLoadHead(t) \/ FreeCasOk(t) \/ FreeCasFail(t) PROVE TypeOK'
      BY <1>0, <2>0, <3>2 DEF TypeOK, FreeLoadHead, FreeCasOk, FreeCasFail, Goto, PC
    <3> QED
      BY <2>3, <3>1, <3>2 DEF FreeStep
  <2>4. ASSUME NEW t \in Threads, NEW u \in Threads, HandOver(t, u) PROVE TypeOK'
    BY <2>4, <1>0 DEF TypeOK, HandOver
  <2>5. CASE UNCHANGED vars
    BY <2>5, <1>0 DEF TypeOK, vars
  <2> QED
    BY <2>1, <2>2, <2>3, <2>4, <2>5 DEF Next, Step
<1>1. ASSUME NEW t \in Threads, AllocCall(t) PROVE IInv'
  <2>1. ChainOver(Nat)'
    BY <1>0, <1>1, ChainStable DEF AllocCall, Goto, TypeOK
  <2>2. (UniqueHolder /\ LocalsAgree /\ NoPanic)'
    BY <1>0, <1>1 DEF AllocCall, Goto, TypeOK, UniqueHolder, LocalsAgree, NoPanic
  <2> QED
    BY <1>t, <2>1, <2>2 DEF IInv
<1>2. ASSUME NEW t \in Threads, AllocLoadHead(t) PROVE IInv'
  <2>1. ChainOver(Nat)'
    BY <1>0, <1>2, ChainStable DEF AllocLoadHead, Goto, TypeOK
  <2>2. (UniqueHolder /\ LocalsAgree /\ NoPanic)'
    BY <1>0, <1>2 DEF AllocLoadHead, Goto, TypeOK, UniqueHolder, LocalsAgree, NoPanic
  <2> QED
    BY <1>t, <2>1, <2>2 DEF IInv
<1>3. ASSUME NEW t \in Threads, AllocLoadNext(t) PROVE IInv'
  <2>1. head[t] \in Slots
    BY <1>0, <1>3 DEF AllocLoadNext, ChainOver
  <2>2. ChainOver(Nat)'
    BY <1>0, <1>3, <2>1, ChainStable DEF AllocLoadNext, Goto, TypeOK
  <2>3. (UniqueHolder /\ LocalsAgree /\ NoPanic)'
    BY <1>0, <1>3, <2>1
    DEF AllocLoadNext, Goto, TypeOK, UniqueHolder, LocalsAgree, NoPanic
  <2> QED
    BY <1>t, <2>2, <2>3 DEF IInv
<1>4. ASSUME NEW t \in Threads, AllocCasOk(t) PROVE IInv'
  <2>1. /\ ChainOver(Nat)'
        /\ \A u \in Threads : head[t] \notin held[u]
    BY <1>4, PopChain
  <2>2. (UniqueHolder /\ LocalsAgree /\ NoPanic)'
    BY <1>0, <1>4, <2>1
    DEF AllocCasOk, Goto, TypeOK, UniqueHolder, LocalsAgree, NoPanic
  <2> QED
    BY <1>t, <2>1, <2>2 DEF IInv
<1>5. ASSUME NEW t \in Threads, AllocCasFail(t) PROVE IInv'
  <2>1. ChainOver(Nat)'
    BY <1>0, <1>5, ChainStable DEF AllocCasFail, Goto, TypeOK
  <2>2. (UniqueHolder /\ LocalsAgree /\ NoPanic)'
    BY <1>0, <1>5 DEF AllocCasFail, Goto, TypeOK, UniqueHolder, LocalsAgree, NoPanic
  <2> QED
    BY <1>t, <2>1, <2>2 DEF IInv
<1>6. ASSUME NEW t \in Threads, FreeCall(t) PROVE IInv'
  <2>1. ChainOver(Nat)'
    BY <1>0, <1>6, ChainStable DEF FreeCall, Goto, TypeOK
  <2>2. (UniqueHolder /\ LocalsAgree /\ NoPanic)'
    BY <1>0, <1>6 DEF FreeCall, Goto, TypeOK, UniqueHolder, LocalsAgree, NoPanic
  <2> QED
    BY <1>t, <2>1, <2>2 DEF IInv
<1>7. ASSUME NEW t \in Threads, FreeLoadHead(t) PROVE IInv'
  <2>1. ChainOver(Nat)'
    BY <1>0, <1>7, ChainStable DEF FreeLoadHead, Goto, TypeOK
  <2>2. (UniqueHolder /\ LocalsAgree /\ NoPanic)'
    BY <1>0, <1>7 DEF FreeLoadHead, Goto, TypeOK, UniqueHolder, LocalsAgree, NoPanic
  <2> QED
    BY <1>t, <2>1, <2>2 DEF IInv
<1>8. ASSUME NEW t \in Threads, FreeStoreNext(t) PROVE IInv'
  <2>1. handle[t] \in held[t] /\ handle[t] \in Slots
    BY <1>0, <1>8 DEF FreeStoreNext, LocalsAgree, TypeOK
  <2>2. ChainOver(Nat)'
    BY <1>0, <1>8, <2>1, ChainStable DEF FreeStoreNext, Goto, TypeOK
  <2>3. (UniqueHolder /\ NoPanic)'
    BY <1>0, <1>8 DEF FreeStoreNext, Goto, TypeOK, UniqueHolder, NoPanic
  <2>4. ASSUME NEW u \in Threads, pc'[u] = "alloc_cas"
        PROVE  next'[u] = free_list'[head'[u]]
    <3>1. u # t /\ pc[u] = "alloc_cas"
      BY <1>0, <1>8, <2>4 DEF FreeStoreNext, Goto, TypeOK
    <3>2. head[u] # handle[t]
      BY <1>0, <2>1, <3>1 DEF ChainOver
    <3> QED
      BY <1>0, <1>8, <2>1, <3>1, <3>2 DEF FreeStoreNext, LocalsAgree, TypeOK
  <2>5. ASSUME NEW u \in Threads, pc'[u] = "free_cas"
        PROVE  free_list'[handle'[u]] = head'[u]
    <3>1. CASE u = t
      BY <1>0, <1>8, <2>1, <3>1 DEF FreeStoreNext, TypeOK
    <3>2. CASE u # t
      <4>1. pc[u] = "free_cas" /\ handle[u] \in held[u] /\ handle[u] \in Slots
        BY <1>0, <1>8, <2>5, <3>2 DEF FreeStoreNext, Goto, LocalsAgree, TypeOK
      <4>2. handle[u] # handle[t]
        BY <1>0, <2>1, <3>2, <4>1 DEF UniqueHolder
      <4> QED
        BY <1>0, <1>8, <2>1, <4>1, <4>2 DEF FreeStoreNext, LocalsAgree, TypeOK
    <3> QED
      BY <3>1, <3>2
  <2>6. LocalsAgree'
    BY <1>0, <1>8, <2>4, <2>5 DEF FreeStoreNext, Goto, LocalsAgree, TypeOK
  <2> QED
    BY <1>t, <2>2, <2>3, <2>6 DEF IInv
<1>9. ASSUME NEW t \in Threads, FreeCasOk(t) PROVE IInv'
  <2>1. ChainOver(Nat)'
    BY <1>9, PushChain
  <2>2. (UniqueHolder /\ NoPanic)'
    BY <1>0, <1>9 DEF FreeCasOk, Goto, TypeOK, UniqueHolder, NoPanic
  <2>3. LocalsAgree'
    BY <1>0, <1>9 DEF FreeCasOk, Goto, TypeOK, UniqueHolder, LocalsAgree
  <2> QED
    BY <1>t, <2>1, <2>2, <2>3 DEF IInv
<1>10. ASSUME NEW t \in Threads, FreeCasFail(t) PROVE IInv'
  <2>1. ChainOver(Nat)'
    BY <1>0, <1>10, ChainStable DEF FreeCasFail, Goto, TypeOK
  <2>2. (UniqueHolder /\ LocalsAgree /\ NoPanic)'
    BY <1>0, <1>10 DEF FreeCasFail, Goto, TypeOK, UniqueHolder, LocalsAgree, NoPanic
  <2> QED
    BY <1>t, <2>1, <2>2 DEF IInv
<1>11. ASSUME NEW t \in Threads, NEW u \in Threads, HandOver(t, u) PROVE IInv'
  <2>1. \A s \in Slots : (\E v \in Threads : s \in held'[v])
                            <=> \E v \in Threads : s \in held[v]
    BY <1>0, <1>11 DEF HandOver, TypeOK
  <2>2. ChainOver(Nat)'
    BY <1>0, <1>11, <2>1, ChainStable DEF HandOver, TypeOK
  <2>3. (UniqueHolder /\ NoPanic)'
    BY <1>0, <1>11 DEF HandOver, TypeOK, UniqueHolder, NoPanic
  <2>4. LocalsAgree'
    BY <1>0, <1>11 DEF HandOver, TypeOK, UniqueHolder, LocalsAgree
  <2> QED
    BY <1>t, <2>2, <2>3, <2>4 DEF IInv
<1>12. CASE UNCHANGED vars
  <2>1. ChainOver(Nat)'
    BY <1>0, <1>12, ChainStable DEF vars
  <2>2. (UniqueHolder /\ LocalsAgree /\ NoPanic)'
    BY <1>0, <1>12 DEF vars, UniqueHolder, LocalsAgree, NoPanic
  <2> QED
    BY <1>t, <2>1, <2>2 DEF IInv
<1> QED
  BY <1>1, <1>2, <1>3, <1>4, <1>5, <1>6, <1>7, <1>8, <1>9, <1>10, <1>11, <1>12
  DEF Next, Step, AllocStep, FreeStep

\* The inductive invariant holds for every capacity above zero and every set of
\* threads of which one allocates.
THEOREM PoolInvariant == ASSUME Assumed PROVE Spec => []IInv
<1>1. Init => IInv
  BY InitIInv
<1>2. IInv /\ [Next]_vars => IInv'
  BY StepIInv
<1> QED
  BY <1>1, <1>2, PTL DEF Spec

\* Type correctness of the pool's shared words and of every thread's locals.
THEOREM PoolTypeCorrect == ASSUME Assumed PROVE Spec => []TypeOK
BY PoolInvariant, PTL DEF IInv

\* No interleaving of one allocating thread with any number of deallocating
\* threads hands a slot out while a thread holds it, or makes allocate() panic.
THEOREM PoolSafety ==
    ASSUME Assumed PROVE Spec => [](UniqueHolder /\ LocalsAgree /\ NoPanic)
BY PoolInvariant, PTL DEF IInv

\* A chain has a slot at each of its depths, so it is no longer than the array.
LEMMA ChainFits ==
    ASSUME NEW depth \in [Slots -> Nat], NEW n \in Nat, IsChain(depth, n)
    PROVE  n <= Capacity
<1> USE PoolAssumption
<1> DEFINE Missing == {k \in Nat : k < n /\ \A s \in Slots : depth[s] # n - k}
<1>1. Missing = {}
  <2> SUFFICES ASSUME Missing # {} PROVE FALSE
    OBVIOUS
  <2> DEFINE R == OpToRel(<, Nat)
  <2>1. IsWellFoundedOn(R, Nat)
    BY NatLessThanWellFounded
  <2>2. \A i, j \in Nat : j < i => <<j, i>> \in R
    BY DEF OpToRel
  <2> HIDE DEF R
  <2>3. PICK k \in Missing : \A j \in Missing : ~(<<j, k>> \in R)
    BY <2>1, WFMin
  <2>4. k # 0
    BY <2>3 DEF IsChain
  <2>5. k \in Nat /\ k < n /\ k - 1 \in Nat /\ k - 1 < n
    BY <2>4
  <2>6. <<k - 1, k>> \in R
    BY <2>2, <2>5
  <2>7. k - 1 \notin Missing
    BY <2>3, <2>6
  <2>8. PICK s \in Slots : depth[s] = n - (k - 1)
    BY <2>5, <2>7
  <2>9. free_list[s] \in Slots /\ depth[free_list[s]] = n - k
    BY <2>3, <2>8 DEF IsChain
  <2> QED
    BY <2>3, <2>9
<1> DEFINE D == {s \in Slots : depth[s] > 0}
           f == [s \in D |-> depth[s]]
<1>2. f \in Surjection(D, 1 .. n)
  <2>1. f \in [D -> 1 .. n]
    BY DEF IsChain
  <2>2. ASSUME NEW d \in 1 .. n PROVE \E s \in D : f[s] = d
    <3>1. n - d \in Nat /\ n - d < n /\ n - (n - d) = d
      OBVIOUS
    <3>2. PICK s \in Slots : depth[s] = d
      BY <1>1, <3>1
    <3> QED
      BY <3>2
  <2> QED
    BY <2>1, <2>2 DEF Surjection
<1>3. IsFiniteSet(Slots) /\ Cardinality(Slots) = Capacity
  BY FS_Interval DEF Slots
<1>4. IsFiniteSet(D) /\ Cardinality(D) <= Capacity /\ Cardinality(D) \in Nat
  BY <1>3, FS_Subset, FS_CardinalityType
<1>5. Cardinality(1 .. n) <= Cardinality(D) /\ Cardinality(1 .. n) = n
  <2>1. Cardinality(1 .. n) = n
    BY FS_Interval
  <2> HIDE DEF D, f
  <2>2. Cardinality(1 .. n) <= Cardinality(D)
    BY <1>2, <1>4, FS_Surjection
  <2> QED
    BY <2>1, <2>2
<1> QED
  BY <1>4, <1>5

\* Between the accesses of concurrent operations the free list is one chain that
\* holds exactly the slots nobody has: no slot is lost and none is on it twice.
THEOREM PoolStaysIntact == ASSUME Assumed PROVE Spec => []PoolIntact
<1>1. ChainOver(Nat) => PoolIntact
  <2> SUFFICES ASSUME ChainOver(Nat) PROVE PoolIntact
    OBVIOUS
  <2>1. PICK depth \in [Slots -> Nat], n \in Nat :
           /\ IsChain(depth, n)
           /\ \A s \in Slots : depth[s] = 0 <=> \E t \in Threads : s \in held[t]
           /\ \A t \in Threads :
                 pc[t] \in {"alloc_next", "alloc_cas"} =>
                     head[t] \in Slots /\ depth[head[t]] > 0
    BY DEF ChainOver
  <2>2. n <= Capacity
    BY <2>1, ChainFits
  <2>3. \A s \in Slots : depth[s] <= n
    BY <2>1 DEF IsChain
  <2>4. depth \in [Slots -> 0 .. Capacity] /\ n \in 0 .. Capacity
    BY <2>2, <2>3, PoolAssumption
  <2> QED
    BY <2>1, <2>4 DEF PoolIntact, ChainOver
<1> QED
  BY <1>1, PoolInvariant, PTL DEF IInv

\* The pool implements PoolSpec: seen by its callers, each allocate() takes
\* effect at its successful exchange, or at the load that finds the list empty,
\* and each deallocate() at its exchange.
THEOREM PoolRefinement == ASSUME Assumed PROVE Spec => ImplementsPoolSpec
<1> USE PoolAssumption
<1>1. Init => Abstract!Init
  BY DEF Init, Abstract!Init
<1>2. IInv /\ [Next]_vars => [Abstract!Next]_(Abstract!pvars)
  <2> SUFFICES ASSUME IInv, [Next]_vars
               PROVE  [Abstract!Next]_(Abstract!pvars)
    OBVIOUS
  <2>0. TypeOK /\ ChainOver(Nat) /\ UniqueHolder /\ LocalsAgree
    BY DEF IInv
  <2>1. ASSUME NEW t \in Threads, AllocCasOk(t) PROVE Abstract!Allocate(t)
    <3>1. head[t] \in Slots \ Abstract!Held
      BY <2>1, PopChain DEF Abstract!Held
    <3> QED
      BY <2>1, <3>1 DEF AllocCasOk, Abstract!Allocate
  <2>2. ASSUME NEW t \in Threads, AllocLoadHead(t), free_head = END_OF_LIST
        PROVE  Abstract!Exhausted(t)
    <3>1. \A s \in Slots : \E u \in Threads : s \in held[u]
      BY <2>0, <2>2 DEF ChainOver, IsChain, Slots, END_OF_LIST
    <3>2. Abstract!Held = Slots
      BY <2>0, <3>1 DEF Abstract!Held, TypeOK
    <3> QED
      BY <2>2, <3>2 DEF AllocLoadHead, Abstract!Exhausted
  <2>3. ASSUME NEW t \in Threads, FreeCasOk(t) PROVE Abstract!Deallocate(t)
    BY <2>0, <2>3 DEF FreeCasOk, Abstract!Deallocate, LocalsAgree
  <2>4. ASSUME NEW t \in Threads, NEW u \in Threads, HandOver(t, u)
        PROVE  u \in Threads \ {t} /\ Abstract!HandOver(t, u)
    BY <2>4 DEF HandOver, Abstract!HandOver
  <2>5. ASSUME NEW t \in Threads,
               \/ AllocCall(t) \/ FreeCall(t) \/ AllocLoadNext(t) \/ AllocCasFail(t)
               \/ FreeLoadHead(t) \/ FreeStoreNext(t) \/ FreeCasFail(t)
               \/ AllocLoadHead(t) /\ free_head # END_OF_LIST
        PROVE  UNCHANGED Abstract!pvars
    BY <2>5 DEF AllocCall, FreeCall, AllocLoadNext, AllocCasFail, FreeLoadHead,
       FreeStoreNext, FreeCasFail, AllocLoadHead, Abstract!pvars
  <2>6. CASE UNCHANGED vars
    BY <2>6 DEF vars, Abstract!pvars
  <2> QED
    BY <2>1, <2>2, <2>3, <2>4, <2>5, <2>6
    DEF Next, Step, AllocStep, FreeStep, Abstract!Next
<1> QED
  BY <1>1, <1>2, PoolInvariant, PTL DEF Spec, ImplementsPoolSpec, Abstract!Spec

=============================================================================
