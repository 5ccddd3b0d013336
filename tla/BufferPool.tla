----------------------------- MODULE BufferPool -----------------------------
(***************************************************************************)
(* pool.rs: a fixed slab of slots whose free slots form a LIFO list linked *)
(* by index (free_list[s] is the slot below s, free_head the top).         *)
(* allocate() and deallocate() are lock-free: each is a loop of three      *)
(* atomic accesses that ends when its compare_exchange_weak on free_head   *)
(* succeeds.  Every atomic access is a step of its own here, so the steps  *)
(* of different threads interleave as they do in the program.              *)
(*                                                                         *)
(* The accesses to free_list are Relaxed and those to free_head are        *)
(* Acquire / AcqRel.  Every write of free_head is an AcqRel                *)
(* read-modify-write, so a thread that reads free_head has synchronised    *)
(* with every earlier push and pop, and interleaving is a faithful account *)
(* of what a Relaxed load of free_list can return.                         *)
(***************************************************************************)
EXTENDS Integers, FiniteSets

CONSTANTS
    Capacity,       \* number of slots
    Threads,        \* threads of the program that use the pool
    Allocators,     \* those that call allocate(); any thread may deallocate()
    Spurious        \* TRUE iff compare_exchange_weak may fail for no reason

ASSUME PoolAssumption ==
    /\ Capacity \in Nat
    /\ Allocators \subseteq Threads
    /\ Spurious \in BOOLEAN

Slots == 0 .. Capacity - 1

\* Stands for u32::MAX, the index that is no slot.
END_OF_LIST == -1

Index == Slots \union {END_OF_LIST}

VARIABLES
    free_list,  \* free_list[s]: the slot below s in the free list
    free_head,  \* top of the free list
    pc,         \* where each thread is in allocate() or deallocate()
    head,       \* each thread's local `head`
    next,       \* each thread's local `next` of allocate()
    handle,     \* the slot each thread is deallocating
    held,       \* the handles each thread holds: returned to it, not yet pushed back
    told        \* whether the thread's last allocate() returned None

locals == <<pc, head, next, handle>>
vars == <<free_list, free_head, pc, head, next, handle, held, told>>

PC == {"idle", "alloc_load", "alloc_next", "alloc_cas",
       "free_load", "free_store", "free_cas", "panicked"}

TypeOK ==
    /\ free_list \in [Slots -> Index]
    /\ free_head \in Index \union {0}
    /\ pc \in [Threads -> PC]
    /\ head \in [Threads -> Index \union {0}]
    /\ next \in [Threads -> Index]
    /\ handle \in [Threads -> Index]
    /\ held \in [Threads -> SUBSET Slots]
    /\ told \in [Threads -> BOOLEAN]

-----------------------------------------------------------------------------
(* BufferPool::new.  free_head starts at 0 whatever the capacity is.       *)

\* Mutated form: the last slot is not recognised.
InitialNextOffByOne(s) == IF s + 1 <= Capacity THEN s + 1 ELSE END_OF_LIST

InitialNext(s) == IF s + 1 < Capacity THEN s + 1 ELSE END_OF_LIST

Init ==
    /\ free_list = [s \in Slots |-> InitialNext(s)]
    /\ free_head = 0
    /\ pc = [t \in Threads |-> "idle"]
    /\ head = [t \in Threads |-> END_OF_LIST]
    /\ next = [t \in Threads |-> END_OF_LIST]
    /\ handle = [t \in Threads |-> END_OF_LIST]
    /\ held = [t \in Threads |-> {}]
    /\ told = [t \in Threads |-> FALSE]

Goto(t, label) == pc' = [pc EXCEPT ![t] = label]

-----------------------------------------------------------------------------
(* allocate()                                                              *)

AllocCall(t) ==
    /\ pc[t] = "idle"
    /\ t \in Allocators
    /\ Goto(t, "alloc_load")
    /\ UNCHANGED <<free_list, free_head, head, next, handle, held, told>>

\* let head = self.free_head.load(Acquire): return None at the end of the list.
AllocLoadHead(t) ==
    /\ pc[t] = "alloc_load"
    /\ head' = [head EXCEPT ![t] = free_head]
    /\ \/ /\ free_head = END_OF_LIST
          /\ told' = [told EXCEPT ![t] = TRUE]
          /\ Goto(t, "idle")
       \/ /\ free_head # END_OF_LIST
          /\ Goto(t, "alloc_next")
          /\ UNCHANGED told
    /\ UNCHANGED <<free_list, free_head, next, handle, held>>

\* let next = self.free_list[head].load(Relaxed): an index past the end panics.
AllocLoadNext(t) ==
    /\ pc[t] = "alloc_next"
    /\ \/ /\ head[t] \in Slots
          /\ next' = [next EXCEPT ![t] = free_list[head[t]]]
          /\ Goto(t, "alloc_cas")
       \/ /\ head[t] \notin Slots
          /\ Goto(t, "panicked")
          /\ UNCHANGED next
    /\ UNCHANGED <<free_list, free_head, head, handle, held, told>>

\* Mutated form: the exchange installs the slot below `next`.
AllocCasOkSkipsOne(t) ==
    /\ pc[t] = "alloc_cas"
    /\ free_head = head[t]
    /\ free_head' = IF next[t] \in Slots THEN free_list[next[t]] ELSE next[t]
    /\ held' = [held EXCEPT ![t] = @ \union {head[t]}]
    /\ told' = [told EXCEPT ![t] = FALSE]
    /\ Goto(t, "idle")
    /\ UNCHANGED <<free_list, head, next, handle>>

\* compare_exchange_weak(head, next) succeeds: the caller now holds `head`.
AllocCasOk(t) ==
    /\ pc[t] = "alloc_cas"
    /\ free_head = head[t]
    /\ free_head' = next[t]
    /\ held' = [held EXCEPT ![t] = @ \union {head[t]}]
    /\ told' = [told EXCEPT ![t] = FALSE]
    /\ Goto(t, "idle")
    /\ UNCHANGED <<free_list, head, next, handle>>

\* Mutated form: the loop retries the exchange without reloading `head`.
AllocCasFailNoReload(t) ==
    /\ pc[t] = "alloc_cas"
    /\ free_head # head[t] \/ Spurious
    /\ UNCHANGED vars

\* compare_exchange_weak(head, next) fails: go round the loop again.
AllocCasFail(t) ==
    /\ pc[t] = "alloc_cas"
    /\ free_head # head[t] \/ Spurious
    /\ Goto(t, "alloc_load")
    /\ UNCHANGED <<free_list, free_head, head, next, handle, held, told>>

-----------------------------------------------------------------------------
(* deallocate(handle), by the thread that holds the handle                 *)

FreeCall(t) ==
    /\ pc[t] = "idle"
    /\ \E s \in held[t] : handle' = [handle EXCEPT ![t] = s]
    /\ Goto(t, "free_load")
    /\ UNCHANGED <<free_list, free_head, head, next, held, told>>

FreeLoadHead(t) ==
    /\ pc[t] = "free_load"
    /\ head' = [head EXCEPT ![t] = free_head]
    /\ Goto(t, "free_store")
    /\ UNCHANGED <<free_list, free_head, next, handle, held, told>>

\* self.free_list[handle].store(head, Relaxed)
FreeStoreNext(t) ==
    /\ pc[t] = "free_store"
    /\ free_list' = [free_list EXCEPT ![handle[t]] = head[t]]
    /\ Goto(t, "free_cas")
    /\ UNCHANGED <<free_head, head, next, handle, held, told>>

\* Mutated form: a plain store of free_head instead of a compare-exchange.
FreeCasOkPlainStore(t) ==
    /\ pc[t] = "free_cas"
    /\ free_head' = handle[t]
    /\ held' = [held EXCEPT ![t] = @ \ {handle[t]}]
    /\ Goto(t, "idle")
    /\ UNCHANGED <<free_list, head, next, handle, told>>

FreeCasOk(t) ==
    /\ pc[t] = "free_cas"
    /\ free_head = head[t]
    /\ free_head' = handle[t]
    /\ held' = [held EXCEPT ![t] = @ \ {handle[t]}]
    /\ Goto(t, "idle")
    /\ UNCHANGED <<free_list, head, next, handle, told>>

\* Mutated form: the retry reloads `head` but skips the store of free_list.
FreeCasFailNoRestore(t) ==
    /\ pc[t] = "free_cas"
    /\ free_head # head[t] \/ Spurious
    /\ head' = [head EXCEPT ![t] = free_head]
    /\ UNCHANGED <<free_list, free_head, pc, next, handle, held, told>>

FreeCasFail(t) ==
    /\ pc[t] = "free_cas"
    /\ free_head # head[t] \/ Spurious
    /\ Goto(t, "free_load")
    /\ UNCHANGED <<free_list, free_head, head, next, handle, held, told>>

-----------------------------------------------------------------------------
\* A PoolHandle is a plain index: the program may pass it to another thread,
\* which from then on is the one that may deallocate it.
HandOver(t, u) ==
    /\ pc[t] = "idle"
    /\ u # t
    /\ \E s \in held[t] :
          held' = [held EXCEPT ![t] = @ \ {s}, ![u] = @ \union {s}]
    /\ UNCHANGED <<free_list, free_head, pc, head, next, handle, told>>

AllocStep(t) ==
    \/ AllocLoadHead(t)
    \/ AllocLoadNext(t)
    \/ AllocCasOk(t)
    \/ AllocCasFail(t)

FreeStep(t) ==
    \/ FreeLoadHead(t)
    \/ FreeStoreNext(t)
    \/ FreeCasOk(t)
    \/ FreeCasFail(t)

\* The next access of an operation that t has begun.
Step(t) == AllocStep(t) \/ FreeStep(t)

Next ==
    \E t \in Threads :
        \/ AllocCall(t)
        \/ FreeCall(t)
        \/ Step(t)
        \/ \E u \in Threads : HandOver(t, u)

Spec == Init /\ [][Next]_vars

\* A thread inside an operation is not suspended for ever.
FairSpec == Spec /\ \A t \in Threads : WF_vars(Step(t))

-----------------------------------------------------------------------------
(* Properties                                                              *)

Held == UNION {held[t] : t \in Threads}

Busy == {t \in Threads : pc[t] # "idle"}

\* At most one thread calls allocate().
SingleAllocator == \A a, b \in Allocators : a = b

\* A slot is in the hands of at most one thread: between them, allocate()'s
\* and deallocate()'s exchanges on free_head never hand a slot out twice.
UniqueHolder == \A t, u \in Threads : t # u => held[t] \intersect held[u] = {}

\* depth numbers the free slots 1..n from the bottom of the list to the top and
\* gives 0 to the others; free_head and free_list follow that numbering.
IsChain(depth, n) ==
    /\ \A s \in Slots : depth[s] <= n
    /\ \A r, s \in Slots : depth[r] = depth[s] /\ depth[r] > 0 => r = s
    /\ IF n = 0 THEN free_head = END_OF_LIST
                ELSE free_head \in Slots /\ depth[free_head] = n
    /\ \A s \in Slots : depth[s] = 1 => free_list[s] = END_OF_LIST
    /\ \A s \in Slots : depth[s] > 1 =>
          free_list[s] \in Slots /\ depth[free_list[s]] = depth[s] - 1

\* The free list is a finite chain without a cycle, and the slots on it are
\* exactly the slots no thread holds: no slot is lost and none is both free and
\* in use, at any point between the accesses of concurrent operations.
ChainOver(Depths) ==
    \E depth \in [Slots -> Depths], n \in Depths :
        /\ IsChain(depth, n)
        /\ \A s \in Slots : depth[s] = 0 <=> \E t \in Threads : s \in held[t]
        /\ \A t \in Threads :
              pc[t] \in {"alloc_next", "alloc_cas"} =>
                  head[t] \in Slots /\ depth[head[t]] > 0

PoolIntact == ChainOver(0 .. Capacity)

\* What a thread read or wrote in one access of an operation still holds when it
\* makes the next: the link below the slot an allocate() is about to pop has not
\* changed since it was read, the slot a deallocate() is about to push is still
\* the caller's own and still linked to the head the exchange compares with.
LocalsAgree ==
    \A t \in Threads :
        /\ pc[t] \in {"alloc_load", "alloc_next", "alloc_cas"} => t \in Allocators
        /\ pc[t] = "alloc_cas" => next[t] = free_list[head[t]]
        /\ pc[t] \in {"free_load", "free_store", "free_cas"} => handle[t] \in held[t]
        /\ pc[t] = "free_cas" => free_list[handle[t]] = head[t]

\* allocate() never indexes free_list out of bounds: with nothing to hand out it
\* returns None.
NoPanic == \A t \in Threads : pc[t] # "panicked"

Abstract == INSTANCE PoolSpec

\* The pool does for its callers exactly what PoolSpec says.
ImplementsPoolSpec == Abstract!Spec

\* Lock-freedom: whatever set of threads is inside an operation, it does not
\* stay that set for ever: one of them completes.
LockFree == \A T \in (SUBSET Threads) \ {{}} : []<>(Busy # T)
=============================================================================
