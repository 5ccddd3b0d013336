------------------------------ MODULE PoolSpec ------------------------------
(***************************************************************************)
(* What the buffer pool promises its callers, whatever its free list looks *)
(* like: a slot is handed to a caller only while nobody holds it, and a    *)
(* caller is told "exhausted" only at a moment when every slot is held.    *)
(* BufferPool implements this specification when one thread allocates.     *)
(***************************************************************************)
CONSTANTS Slots, Threads

VARIABLES
    held,       \* held[t]: the slots thread t holds
    told        \* told[t]: t's last allocate() returned None

pvars == <<held, told>>

Held == UNION {held[t] : t \in Threads}

Init ==
    /\ held = [t \in Threads |-> {}]
    /\ told = [t \in Threads |-> FALSE]

\* allocate() returns a slot that no thread holds.
Allocate(t) ==
    \E s \in Slots \ Held :
        /\ held' = [held EXCEPT ![t] = @ \union {s}]
        /\ told' = [told EXCEPT ![t] = FALSE]

\* allocate() returns None: every slot is held.
Exhausted(t) ==
    /\ Held = Slots
    /\ told' = [told EXCEPT ![t] = TRUE]
    /\ UNCHANGED held

\* deallocate(s) by the thread that holds s.
Deallocate(t) ==
    \E s \in held[t] :
        /\ held' = [held EXCEPT ![t] = @ \ {s}]
        /\ UNCHANGED told

\* A handle moves to another thread of the program.
HandOver(t, u) ==
    \E s \in held[t] :
        /\ held' = [held EXCEPT ![t] = @ \ {s}, ![u] = @ \union {s}]
        /\ UNCHANGED told

Next ==
    \E t \in Threads :
        \/ Allocate(t)
        \/ Exhausted(t)
        \/ Deallocate(t)
        \/ \E u \in Threads \ {t} : HandOver(t, u)

Spec == Init /\ [][Next]_pvars
=============================================================================
