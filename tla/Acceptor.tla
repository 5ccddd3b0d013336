------------------------------ MODULE Acceptor ------------------------------
(***************************************************************************)
(* acceptor.rs: the pool of connection slots behind a FIX server.  A slot  *)
(* keeps the id of its last connection after it is released; ids are never *)
(* reused.  Callers keep the ids accept_connection gave them and may use   *)
(* an id long after its connection is gone.                                *)
(***************************************************************************)
EXTENDS Integers, FiniteSets

CONSTANTS
    PoolSize,       \* config.connection_pool_size
    CompIds,        \* CompIDs remote sides present
    Allowed,        \* config.allowed_comp_ids; empty allows all
    RequireAuth,    \* config.require_auth
    MaxIdle,        \* evict_idle's max_idle_ms, in ticks
    MaxConnId,      \* bound on next_conn_id
    MaxRejected     \* bound on total_rejected

ASSUME AcceptorAssumption ==
    /\ PoolSize \in Nat
    /\ Allowed \subseteq CompIds
    /\ RequireAuth \in BOOLEAN
    /\ MaxIdle \in Nat
    /\ MaxConnId \in Nat
    /\ MaxRejected \in Nat

NoComp == "none"

ASSUME NoCompAssumption == NoComp \notin CompIds

Slots == 0 .. PoolSize - 1

VARIABLES
    connections,        \* the slots
    next_conn_id,
    total_accepted,
    total_rejected

avars == <<connections, next_conn_id, total_accepted, total_rejected>>

ConnectionState == {"Available", "InUse", "Draining", "Closed"}

\* idle is the age of last_active_ms; past MaxIdle it is all the same.
Connections ==
    [ id : Nat, state : ConnectionState, comp : CompIds \union {NoComp},
      idle : 0 .. MaxIdle + 1 ]

\* The types.  Every id given out is of an accepted connection, so the counters move
\* together; and no connection is ever Closed, a state no code sets.
AcceptorTypeOK ==
    /\ connections \in [Slots -> Connections]
    /\ \A i \in Slots : connections[i].state # "Closed"
    /\ next_conn_id \in Nat /\ total_accepted \in Nat /\ total_rejected \in Nat
    /\ next_conn_id = PoolSize + total_accepted

\* Acceptor::new
AcceptorInit ==
    /\ connections = [i \in Slots |->
          [id |-> i, state |-> "Available", comp |-> NoComp, idle |-> 0]]
    /\ next_conn_id = PoolSize
    /\ total_accepted = 0
    /\ total_rejected = 0

Active(c) == c.state \in {"InUse", "Draining"}

Freed(c) == [id |-> c.id, state |-> "Available", comp |-> NoComp, idle |-> 0]

\* iter().find / iter().position: the lowest slot.
First(S) == CHOOSE i \in S : \A j \in S : i <= j

is_comp_id_allowed(comp) == Allowed = {} \/ comp \in Allowed

\* Mutated form: a draining connection no longer counts.
find_in_use_by_comp_id(comp) ==
    {i \in Slots : connections[i].state = "InUse" /\ connections[i].comp = comp}

find_by_comp_id(comp) ==
    {i \in Slots : Active(connections[i]) /\ connections[i].comp = comp}

AvailableSlots == {i \in Slots : connections[i].state = "Available"}

active_count == Cardinality({i \in Slots : Active(connections[i])})

-----------------------------------------------------------------------------
(* Operations.  Each runs under the caller's lock (&mut self).             *)

Accepts(comp) ==
    /\ ~RequireAuth
    /\ is_comp_id_allowed(comp)
    /\ find_by_comp_id(comp) = {}
    /\ AvailableSlots # {}

\* Mutated form: the id is not taken from the counter.
accept_reuses_id(comp) ==
    /\ Accepts(comp)
    /\ next_conn_id < MaxConnId
    /\ connections' = [connections EXCEPT ![First(AvailableSlots)] =
          [id |-> active_count, state |-> "InUse", comp |-> comp, idle |-> 0]]
    /\ next_conn_id' = next_conn_id + 1
    /\ total_accepted' = total_accepted + 1
    /\ UNCHANGED total_rejected

\* accept_connection returns Ok(next_conn_id).
accept_connection(comp) ==
    /\ Accepts(comp)
    /\ next_conn_id < MaxConnId
    /\ connections' = [connections EXCEPT ![First(AvailableSlots)] =
          [id |-> next_conn_id, state |-> "InUse", comp |-> comp, idle |-> 0]]
    /\ next_conn_id' = next_conn_id + 1
    /\ total_accepted' = total_accepted + 1
    /\ UNCHANGED total_rejected

\* Mutated form: the id is taken before the pool is searched, and stays taken when
\* the search fails.
reject_takes_id(comp) ==
    /\ ~Accepts(comp)
    /\ total_rejected < MaxRejected
    /\ total_rejected' = total_rejected + 1
    /\ next_conn_id' = next_conn_id + 1
    /\ UNCHANGED <<connections, total_accepted>>

\* accept_connection returns AuthRequired, CompIdNotAllowed, AlreadyConnected
\* or PoolExhausted.
reject_connection(comp) ==
    /\ ~Accepts(comp)
    /\ total_rejected < MaxRejected
    /\ total_rejected' = total_rejected + 1
    /\ UNCHANGED <<connections, next_conn_id, total_accepted>>

\* Mutated form: the first slot in use is released, whatever its id.
release_any(id) ==
    LET found == {i \in Slots : connections[i].state # "Available"} IN
    /\ connections' =
          IF found = {} THEN connections
          ELSE [connections EXCEPT ![First(found)] = Freed(@)]
    /\ UNCHANGED <<next_conn_id, total_accepted, total_rejected>>

\* release_connection; ConnectionNotFound changes nothing.
release_connection(id) ==
    LET found == {i \in Slots : /\ connections[i].id = id
                                /\ connections[i].state # "Available"} IN
    /\ connections' =
          IF found = {} THEN connections
          ELSE [connections EXCEPT ![First(found)] = Freed(@)]
    /\ UNCHANGED <<next_conn_id, total_accepted, total_rejected>>

\* drain_connection: only a connection InUse; otherwise ConnectionNotFound.
drain_connection(id) ==
    LET found == {i \in Slots : connections[i].id = id} IN
    /\ connections' =
          IF found # {} /\ connections[First(found)].state = "InUse"
          THEN [connections EXCEPT ![First(found)].state = "Draining"]
          ELSE connections
    /\ UNCHANGED <<next_conn_id, total_accepted, total_rejected>>

\* get_connection_mut, through which a caller records activity; it finds the slot
\* by id whatever the slot's state.
touch_connection(id) ==
    LET found == {i \in Slots : connections[i].id = id} IN
    /\ connections' =
          IF found = {} THEN connections
          ELSE [connections EXCEPT ![First(found)].idle = 0]
    /\ UNCHANGED <<next_conn_id, total_accepted, total_rejected>>

\* Mutated form: Draining connections are evicted too.
evict_draining ==
    /\ connections' = [i \in Slots |->
          IF Active(connections[i]) /\ connections[i].idle > MaxIdle
          THEN Freed(connections[i]) ELSE connections[i]]
    /\ UNCHANGED <<next_conn_id, total_accepted, total_rejected>>

\* evict_idle
evict_idle ==
    /\ connections' = [i \in Slots |->
          IF connections[i].state = "InUse" /\ connections[i].idle > MaxIdle
          THEN Freed(connections[i]) ELSE connections[i]]
    /\ UNCHANGED <<next_conn_id, total_accepted, total_rejected>>

\* Time passes for the connections in the pool.
Age ==
    /\ connections' = [i \in Slots |->
          IF Active(connections[i]) /\ connections[i].idle <= MaxIdle
          THEN [connections[i] EXCEPT !.idle = @ + 1] ELSE connections[i]]
    /\ UNCHANGED <<next_conn_id, total_accepted, total_rejected>>

\* Every id a caller has ever been given; 0 .. PoolSize-1 are the ids of new slots.
Issued == 0 .. next_conn_id - 1

AcceptorNext ==
    \/ \E comp \in CompIds : accept_connection(comp) \/ reject_connection(comp)
    \/ \E id \in Issued :
          \/ release_connection(id)
          \/ drain_connection(id)
          \/ touch_connection(id)
    \/ evict_idle
    \/ Age

AcceptorSpec == AcceptorInit /\ [][AcceptorNext]_avars

-----------------------------------------------------------------------------
(* Properties                                                              *)

\* No two slots ever carry the same id, free ones included, and no slot carries
\* an id that is still to be given out: looking a slot up by id alone, as every
\* method does, finds the connection the id was issued for or nothing.
UniqueIds ==
    /\ \A i, j \in Slots : connections[i].id = connections[j].id => i = j
    /\ \A i \in Slots : connections[i].id < next_conn_id

\* At most one connection per CompID is in the pool, whatever was drained,
\* evicted or released late in between; a free slot names none.
OneConnectionPerCompId ==
    /\ \A i, j \in Slots :
          /\ Active(connections[i]) /\ Active(connections[j])
          /\ connections[i].comp = connections[j].comp
          => i = j
    /\ \A i \in Slots : Active(connections[i]) <=> connections[i].comp # NoComp

\* The connections in the pool, as the callers know them.
Live ==
    {[ id |-> connections[i].id, comp |-> connections[i].comp,
       draining |-> connections[i].state = "Draining" ] :
         i \in {j \in Slots : Active(connections[j])}}

Registry == INSTANCE ConnectionRegistry WITH
    live <- Live, issued <- next_conn_id, accepted <- total_accepted,
    rejected <- total_rejected

\* The slots, with their reuse, stale ids and eviction, behave as a registry of
\* connections that has no slots at all.
ImplementsRegistry == Registry!Spec
=============================================================================
