--------------------------- MODULE FixServerProofs --------------------------
(***************************************************************************)
(* The connection pool of acceptor.rs keeps its ids unique and holds at    *)
(* most one connection per CompID, for every pool size, every set of       *)
(* CompIDs, every whitelist and every order of calls, stale ids included.  *)
(* The connection threads of server.rs share it, any number of them: a     *)
(* registered thread keeps its slot, a slot in use has an owner, and the   *)
(* pool stays what it is on its own when only the threads call it.         *)
(***************************************************************************)
EXTENDS FixServer, FiniteSetTheorems, WellFoundedInduction, TLAPS

-----------------------------------------------------------------------------
(* The acceptor                                                            *)

\* The inductive invariant.  No conjunct stands alone: that accept_connection
\* leaves a CompID once in the pool needs free slots to name none, that it leaves
\* ids unique needs every id to be below next_conn_id.
AInv ==
    /\ AcceptorTypeOK
    /\ UniqueIds
    /\ OneConnectionPerCompId

\* iter().find and iter().position return a slot they were asked to look for.
LEMMA FirstIsMember == ASSUME NEW S \in SUBSET Slots, S # {} PROVE First(S) \in S
<1>1. S \subseteq Nat
  BY AcceptorAssumption DEF Slots
<1> DEFINE R == OpToRel(<, Nat)
<1>2. IsWellFoundedOn(R, Nat)
  BY NatLessThanWellFounded
<1>3. \A j, i \in Nat : <<j, i>> \notin R => i <= j
  BY DEF OpToRel
<1> HIDE DEF R
<1>4. PICK i \in S : \A j \in S : ~(<<j, i>> \in R)
  BY <1>1, <1>2, WFMin
<1>5. \A j \in S : i <= j
  BY <1>1, <1>3, <1>4
<1> QED
  BY <1>5 DEF First

\* A new pool.
LEMMA InitAInv == AcceptorInit => AInv
BY AcceptorAssumption, NoCompAssumption
DEF AcceptorInit, AInv, AcceptorTypeOK, UniqueIds, OneConnectionPerCompId, Active,
    Connections, ConnectionState, Slots

\* Every operation preserves the invariant.
LEMMA StepAInv == ASSUME AInv, [AcceptorNext]_avars PROVE AInv'
<1> USE AcceptorAssumption, NoCompAssumption
<1> USE DEF AInv, AcceptorTypeOK, UniqueIds, OneConnectionPerCompId, Active,
            Connections, ConnectionState
<1>1. ASSUME NEW c \in CompIds, accept_connection(c) PROVE AInv'
  <2> DEFINE k == First(AvailableSlots)
  <2>1. k \in Slots /\ connections[k].state = "Available"
    <3>1. AvailableSlots # {} /\ AvailableSlots \in SUBSET Slots
      BY <1>1, Zenon DEF accept_connection, Accepts, AvailableSlots
    <3>2. k \in AvailableSlots
      BY <3>1, FirstIsMember, Zenon
    <3> QED
      BY <3>2, Zenon DEF AvailableSlots
  <2>2. \A i \in Slots : Active(connections[i]) => connections[i].comp # c
    BY <1>1 DEF accept_connection, Accepts, find_by_comp_id
  <2>3. connections' = [connections EXCEPT ![k] =
           [id |-> next_conn_id, state |-> "InUse", comp |-> c, idle |-> 0]]
    BY <1>1 DEF accept_connection
  <2> HIDE DEF k
  <2> QED
    BY <1>1, <2>1, <2>2, <2>3 DEF accept_connection
<1>2. ASSUME NEW c \in CompIds, reject_connection(c) PROVE AInv'
  BY <1>2 DEF reject_connection
<1>3. ASSUME NEW id \in Issued, release_connection(id) PROVE AInv'
  <2> DEFINE found == {i \in Slots : /\ connections[i].id = id
                                     /\ connections[i].state # "Available"}
             k == First(found)
  <2>1. CASE found = {}
    BY <1>3, <2>1 DEF release_connection
  <2>2. CASE found # {}
    <3>1. k \in Slots
      BY <2>2, FirstIsMember
    <3>2. connections' = [connections EXCEPT ![k] = Freed(@)]
      BY <1>3, <2>2 DEF release_connection
    <3>3. UNCHANGED <<next_conn_id, total_accepted, total_rejected>>
      BY <1>3 DEF release_connection
    <3> HIDE DEF found, k
    <3>4. AcceptorTypeOK'
      BY <3>1, <3>2, <3>3 DEF Freed
    <3>5. UniqueIds'
      BY <3>1, <3>2, <3>3 DEF Freed
    <3>6. OneConnectionPerCompId'
      BY <3>1, <3>2, <3>3 DEF Freed
    <3> QED
      BY <3>4, <3>5, <3>6
  <2> QED
    BY <2>1, <2>2
<1>4. ASSUME NEW id \in Issued, drain_connection(id) PROVE AInv'
  <2> DEFINE found == {i \in Slots : connections[i].id = id}
             k == First(found)
  <2>1. CASE ~(found # {} /\ connections[k].state = "InUse")
    <3>1. connections' = connections
      BY <1>4, <2>1 DEF drain_connection
    <3> QED
      BY <1>4, <3>1 DEF drain_connection
  <2>2. CASE found # {} /\ connections[k].state = "InUse"
    <3>1. k \in Slots
      BY <2>2, FirstIsMember
    <3>2. connections' = [connections EXCEPT ![k].state = "Draining"]
      BY <1>4, <2>2 DEF drain_connection
    <3>3. connections[k].state = "InUse"
      BY <2>2
    <3> HIDE DEF found, k
    <3> QED
      BY <1>4, <3>1, <3>2, <3>3 DEF drain_connection
  <2> QED
    BY <2>1, <2>2
<1>5. ASSUME NEW id \in Issued, touch_connection(id) PROVE AInv'
  <2> DEFINE found == {i \in Slots : connections[i].id = id}
             k == First(found)
  <2>1. CASE found = {}
    BY <1>5, <2>1 DEF touch_connection
  <2>2. CASE found # {}
    <3>1. k \in Slots
      BY <2>2, FirstIsMember
    <3>2. connections' = [connections EXCEPT ![k].idle = 0]
      BY <1>5, <2>2 DEF touch_connection
    <3>3. UNCHANGED <<next_conn_id, total_accepted, total_rejected>>
      BY <1>5 DEF touch_connection
    <3> HIDE DEF found, k
    <3>4. AcceptorTypeOK'
      BY <3>1, <3>2, <3>3
    <3>5. UniqueIds'
      BY <3>1, <3>2, <3>3
    <3>6. OneConnectionPerCompId'
      BY <3>1, <3>2, <3>3
    <3> QED
      BY <3>4, <3>5, <3>6
  <2> QED
    BY <2>1, <2>2
<1>6. CASE evict_idle
  BY <1>6 DEF evict_idle, Freed
<1>7. CASE Age
  BY <1>7 DEF Age
<1>8. CASE UNCHANGED avars
  BY <1>8 DEF avars
<1> QED
  BY <1>1, <1>2, <1>3, <1>4, <1>5, <1>6, <1>7, <1>8 DEF AcceptorNext

\* Type correctness of the pool.
THEOREM AcceptorTypeCorrect == AcceptorSpec => []AcceptorTypeOK
<1>1. AInv /\ [AcceptorNext]_avars => AInv'
  BY StepAInv
<1>2. AInv => AcceptorTypeOK
  BY DEF AInv
<1> QED
  BY InitAInv, <1>1, <1>2, PTL DEF AcceptorSpec

\* Whatever the order of accepts, releases of stale ids, drains and evictions, an
\* id names one slot at most and a CompID has one connection at most.
THEOREM AcceptorSafety == AcceptorSpec => [](UniqueIds /\ OneConnectionPerCompId)
<1>1. AInv /\ [AcceptorNext]_avars => AInv'
  BY StepAInv
<1>2. AInv => UniqueIds /\ OneConnectionPerCompId
  BY DEF AInv
<1> QED
  BY InitAInv, <1>1, <1>2, PTL DEF AcceptorSpec

\* A CompID is refused while a connection of its own is in the pool, and only then:
\* one connection per CompID, for every pool.
THEOREM AcceptorOnePerCompId == AcceptorSpec => []OneConnectionPerCompId
BY AcceptorSafety, PTL

-----------------------------------------------------------------------------
(* The pool implements ConnectionRegistry.                                 *)

\* The connection in a slot, as Live shows it to the callers.
Shown(i) ==
    [ id |-> connections[i].id, comp |-> connections[i].comp,
      draining |-> connections[i].state = "Draining" ]

\* There is a free slot exactly when fewer than PoolSize connections are live: ids
\* are unique, so no two slots show the same connection.
LEMMA FreeSlotIffRoom ==
    ASSUME AInv PROVE AvailableSlots # {} <=> Cardinality(Live) < PoolSize
<1> DEFINE A == {j \in Slots : Active(connections[j])}
           f == [i \in A |-> Shown(i)]
<1>1. IsFiniteSet(Slots) /\ Cardinality(Slots) = PoolSize
  BY FS_Interval, AcceptorAssumption DEF Slots
<1>2. IsFiniteSet(A) /\ Cardinality(A) \in Nat /\ Cardinality(A) <= PoolSize
  BY <1>1, FS_Subset, FS_CardinalityType
<1>3. Cardinality(A) = PoolSize => A = Slots
  BY <1>1, FS_Subset
<1>4. AvailableSlots = Slots \ A
  BY DEF AInv, AcceptorTypeOK, Connections, ConnectionState, AvailableSlots, Active
<1>5. Live = {Shown(i) : i \in A}
  BY DEF Live, Shown
<1>6. f \in Surjection(A, Live)
  BY <1>5 DEF Surjection
<1>7. \A i, j \in A : f[i] = f[j] => i = j
  BY DEF Shown, AInv, UniqueIds
<1>8. ExistsBijection(A, Live)
  <2> HIDE DEF A, f
  <2>1. f \in [A -> Live]
    BY <1>6 DEF Surjection
  <2>2. f \in Injection(A, Live)
    BY <1>7, <2>1 DEF Injection, IsInjective
  <2>3. f \in Bijection(A, Live)
    BY <1>6, <2>2 DEF Bijection
  <2> QED
    BY <2>3 DEF ExistsBijection
<1>9. Cardinality(Live) = Cardinality(A)
  BY <1>2, <1>8, FS_Bijection
<1>10. A = Slots => Cardinality(A) = PoolSize
  BY <1>1
<1> HIDE DEF A
<1>11. A \subseteq Slots
  BY DEF A
<1> QED
  BY <1>2, <1>3, <1>4, <1>9, <1>10, <1>11, AcceptorAssumption

\* accept_connection takes a connection exactly when the registry admits it.
LEMMA AcceptsIffAdmissible ==
    ASSUME AInv, NEW c \in CompIds PROVE Accepts(c) <=> Registry!Admissible(c)
<1>1. find_by_comp_id(c) = {} <=> \A l \in Live : l.comp # c
  <2>1. \A l : l \in Live <=> \E i \in Slots : Active(connections[i]) /\ l = Shown(i)
    BY DEF Live, Shown
  <2>2. \A i \in Slots : Shown(i).comp = connections[i].comp
    BY DEF Shown
  <2> QED
    BY <2>1, <2>2 DEF find_by_comp_id
<1>2. AvailableSlots # {} <=> Cardinality(Live) < PoolSize
  BY FreeSlotIffRoom
<1>3. Registry!Cardinality(Live) = Cardinality(Live)
  BY DEF Cardinality, Registry!Cardinality
<1> QED
  BY <1>1, <1>2, <1>3 DEF Accepts, is_comp_id_allowed, Registry!Admissible

\* Every operation of the pool is an operation of the registry, or invisible.
LEMMA RegistryStep ==
    ASSUME AInv, [AcceptorNext]_avars PROVE [Registry!Next]_(Registry!rvars)
<1> USE DEF Active
<1>0. AcceptorTypeOK /\ UniqueIds
  BY DEF AInv
<1>t. \A i \in Slots :
         /\ connections[i] \in Connections
         /\ connections[i] = [id |-> connections[i].id, state |-> connections[i].state,
               comp |-> connections[i].comp, idle |-> connections[i].idle]
         /\ connections[i].state \in ConnectionState
  BY <1>0 DEF AcceptorTypeOK, Connections
<1>1. ASSUME NEW c \in CompIds, accept_connection(c) PROVE Registry!Accept(c)
  <2> DEFINE new == [id |-> next_conn_id, comp |-> c, draining |-> FALSE]
  <2>1. First(AvailableSlots) \in AvailableSlots
    BY <1>1, FirstIsMember DEF accept_connection, Accepts, AvailableSlots
  <2>2. PICK k \in Slots :
           /\ connections[k].state = "Available"
           /\ connections' = [connections EXCEPT ![k] =
                 [id |-> next_conn_id, state |-> "InUse", comp |-> c, idle |-> 0]]
    BY <1>1, <2>1 DEF accept_connection, AvailableSlots
  <2>3. \A i \in Slots : connections'[i] = IF i = k
           THEN [id |-> next_conn_id, state |-> "InUse", comp |-> c, idle |-> 0]
           ELSE connections[i]
    BY <2>2, <1>0 DEF AcceptorTypeOK
  <2>4. Live = {Shown(i) : i \in {j \in Slots : Active(connections[j])}}
    BY DEF Live, Shown
  <2>5. Live' = {Shown(i)' : i \in {j \in Slots : Active(connections'[j])}}
    BY DEF Live, Shown
  <2>6. Shown(k)' = new /\ \A i \in Slots : i # k => Shown(i)' = Shown(i)
    <3>1. Shown(k)' = new
      <4>1. /\ connections'[k].id = next_conn_id
            /\ connections'[k].comp = c
            /\ (connections'[k].state = "Draining") = FALSE
        BY <2>2, <2>3
      <4> QED
        BY <4>1, Zenon DEF Shown
    <3>2. \A i \in Slots : i # k => Shown(i)' = Shown(i)
      BY <2>3 DEF Shown
    <3> QED
      BY <3>1, <3>2
  <2>7. {j \in Slots : Active(connections'[j])}
           = {j \in Slots : Active(connections[j])} \union {k}
    BY <2>2, <2>3
  <2>8. ~Active(connections[k])
    BY <2>2
  <2> HIDE DEF Active, new
  <2>9. Live' = Live \union {new}
    BY <2>4, <2>5, <2>6, <2>7, <2>8
  <2> USE DEF new
  <2> QED
    BY <1>1, <2>9, AcceptsIffAdmissible DEF accept_connection, Registry!Accept
<1>2. ASSUME NEW c \in CompIds, reject_connection(c) PROVE Registry!Reject(c)
  <2>1. Live' = Live
    BY <1>2 DEF reject_connection, Live
  <2> QED
    BY <1>2, <2>1, AcceptsIffAdmissible DEF reject_connection, Registry!Reject
<1>3. ASSUME NEW id \in Issued, release_connection(id) PROVE Registry!Release(id)
  <2> DEFINE found == {i \in Slots : /\ connections[i].id = id
                                     /\ connections[i].state # "Available"}
             k == First(found)
  <2>1. CASE found = {}
    <3>1. connections' = connections
      BY <1>3, <2>1 DEF release_connection
    <3>2. \A l \in Live : l.id # id
      BY <2>1 DEF Live
    <3>3. Live' = {l \in Live : l.id # id}
      BY <3>1, <3>2 DEF Live
    <3> QED
      BY <1>3, <3>3 DEF release_connection, Registry!Release
  <2>2. CASE found # {}
    <3>1. k \in Slots /\ connections[k].id = id
      BY <2>2, FirstIsMember
    <3>2. connections' = [connections EXCEPT ![k] = Freed(@)]
      BY <1>3, <2>2 DEF release_connection
    <3> HIDE DEF found, k
    <3>3. \A i \in Slots : /\ i # k => connections'[i] = connections[i]
                           /\ ~Active(connections'[k])
                           /\ connections[i].id = id <=> i = k
      BY <3>1, <3>2, <1>0 DEF AcceptorTypeOK, UniqueIds, Freed
    <3>4. Live' = {l \in Live : l.id # id}
      BY <3>1, <3>3 DEF Live
    <3> QED
      BY <1>3, <3>4 DEF release_connection, Registry!Release
  <2> QED
    BY <2>1, <2>2
<1>4. ASSUME NEW id \in Issued, drain_connection(id) PROVE Registry!Drain(id)
  <2> DEFINE found == {i \in Slots : connections[i].id = id}
             k == First(found)
             after(l) == IF l.id = id THEN [l EXCEPT !.draining = TRUE] ELSE l
  <2>0. \A i \in Slots : connections[i].id = id => found # {} /\ i = k
    <3> SUFFICES ASSUME NEW i \in Slots, connections[i].id = id
                 PROVE  found # {} /\ i = k
      OBVIOUS
    <3>1. found # {}
      OBVIOUS
    <3>2. k \in found
      BY <3>1, FirstIsMember
    <3> QED
      BY <3>1, <3>2, <1>0 DEF UniqueIds
  <2>1. \A i \in Slots : connections'[i] = connections[i] \/
           /\ connections[i].id = id
           /\ connections[i].state = "InUse"
           /\ connections'[i] = [connections[i] EXCEPT !.state = "Draining"]
    <3>1. CASE found # {} /\ connections[k].state = "InUse"
      <4>1. k \in Slots /\ connections[k].id = id
        BY <3>1, FirstIsMember
      <4>2. connections' = [connections EXCEPT ![k].state = "Draining"]
        BY <1>4, <3>1 DEF drain_connection
      <4> HIDE DEF found, k
      <4> QED
        BY <3>1, <4>1, <4>2, <1>0 DEF AcceptorTypeOK
    <3>2. CASE ~(found # {} /\ connections[k].state = "InUse")
      BY <1>4, <3>2 DEF drain_connection
    <3> QED
      BY <3>1, <3>2
  <2>2. \A i \in Slots : connections[i].id = id /\ connections[i].state = "InUse" =>
           connections'[i] = [connections[i] EXCEPT !.state = "Draining"]
    <3> SUFFICES ASSUME NEW i \in Slots, connections[i].id = id,
                        connections[i].state = "InUse"
                 PROVE  connections'[i] = [connections[i] EXCEPT !.state = "Draining"]
      OBVIOUS
    <3>1. found # {} /\ i = k
      BY <2>0
    <3>2. connections' = [connections EXCEPT ![k].state = "Draining"]
      BY <1>4, <3>1 DEF drain_connection
    <3> HIDE DEF found, k
    <3> QED
      BY <3>1, <3>2, <1>0 DEF AcceptorTypeOK
  <2> HIDE DEF found, k
  <2>3. \A i \in Slots : /\ Active(connections'[i]) <=> Active(connections[i])
                         /\ Active(connections[i]) => Shown(i)' = after(Shown(i))
    BY <1>t, <2>1, <2>2, ZenonT(60) DEF Shown, Connections, ConnectionState
  <2>4. Live = {Shown(i) : i \in {j \in Slots : Active(connections[j])}}
    BY DEF Live, Shown
  <2>5. Live' = {Shown(i)' : i \in {j \in Slots : Active(connections'[j])}}
    BY DEF Live, Shown
  <2> HIDE DEF after
  <2>6. Live' = {after(l) : l \in Live}
    BY <2>3, <2>4, <2>5
  <2> QED
    BY <1>4, <2>6 DEF drain_connection, Registry!Drain, after
<1>5. ASSUME \/ \E id \in Issued : touch_connection(id)
             \/ Age
             \/ UNCHANGED avars
      PROVE  UNCHANGED Registry!rvars
  <2>1. \A i \in Slots : /\ connections'[i].id = connections[i].id
                         /\ connections'[i].state = connections[i].state
                         /\ connections'[i].comp = connections[i].comp
    <3>1. ASSUME NEW id \in Issued, touch_connection(id)
          PROVE  \A i \in Slots : /\ connections'[i].id = connections[i].id
                                  /\ connections'[i].state = connections[i].state
                                  /\ connections'[i].comp = connections[i].comp
      <4> DEFINE found == {i \in Slots : connections[i].id = id}
                 k == First(found)
      <4>1. connections' = connections \/ connections' = [connections EXCEPT ![k].idle = 0]
        BY <3>1 DEF touch_connection
      <4> HIDE DEF found, k
      <4> QED
        BY <4>1, <1>0, <1>t DEF AcceptorTypeOK, Connections
    <3>2. CASE Age
      BY <3>2, <1>0, <1>t DEF Age, AcceptorTypeOK, Connections
    <3>3. CASE UNCHANGED avars
      BY <3>3 DEF avars
    <3> QED
      BY <1>5, <3>1, <3>2, <3>3
  <2>2. UNCHANGED <<next_conn_id, total_accepted, total_rejected>>
    BY <1>5 DEF touch_connection, Age, avars
  <2>3. Live' = Live
    BY <2>1 DEF Live
  <2> QED
    BY <2>2, <2>3 DEF Registry!rvars
<1>6. ASSUME evict_idle PROVE Registry!Evict
  <2> DEFINE idle == {i \in Slots : connections[i].state = "InUse"
                                    /\ connections[i].idle > MaxIdle}
             gone == {Shown(i) : i \in idle}
  <2>1. \A i \in Slots : /\ i \in idle => ~Active(connections'[i])
                         /\ i \notin idle => connections'[i] = connections[i]
    BY <1>6 DEF evict_idle, Freed
  <2>2. idle \subseteq {j \in Slots : Active(connections[j])}
    OBVIOUS
  <2>3. \A i \in idle : Shown(i).draining = FALSE
    BY DEF Shown
  <2> HIDE DEF idle
  <2>4. gone \in SUBSET {l \in Live : ~l.draining}
    BY <2>2, <2>3 DEF Live, Shown
  <2>5. \A i, j \in Slots : Shown(i) = Shown(j) => i = j
    BY <1>0 DEF Shown, UniqueIds
  <2>6. Live = {Shown(i) : i \in {j \in Slots : Active(connections[j])}}
    BY DEF Live, Shown
  <2>7. \A i \in Slots \ idle : Shown(i)' = Shown(i)
    BY <2>1 DEF Shown
  <2>8. Live' = {Shown(i)' : i \in {j \in Slots : Active(connections'[j])}}
    BY DEF Live, Shown
  <2>9. {j \in Slots : Active(connections'[j])}
           = {j \in Slots : Active(connections[j])} \ idle
    BY <2>1, <2>2
  <2> HIDE DEF Active
  <2>10. Live' = Live \ gone
    BY <2>2, <2>5, <2>6, <2>7, <2>8, <2>9
  <2> QED
    BY <1>6, <2>4, <2>10 DEF evict_idle, Registry!Evict
<1> QED
  BY <1>1, <1>2, <1>3, <1>4, <1>5, <1>6 DEF AcceptorNext, Registry!Next, Issued

\* Seen by its callers, the pool of slots is a registry of connections without
\* slots: a stale id changes nothing, an admission depends on the live connections
\* alone, and eviction spares what is draining.
THEOREM AcceptorRefinement == AcceptorSpec => ImplementsRegistry
<1>1. AcceptorInit => Registry!Init
  BY DEF AcceptorInit, Registry!Init, Live, Active
<1>2. AInv /\ [AcceptorNext]_avars => AInv'
  BY StepAInv
<1>3. AInv /\ [AcceptorNext]_avars => [Registry!Next]_(Registry!rvars)
  BY RegistryStep
<1> QED
  BY InitAInv, <1>1, <1>2, <1>3, PTL DEF AcceptorSpec, ImplementsRegistry, Registry!Spec

-----------------------------------------------------------------------------
(* The server                                                              *)

Labels == {"none", "reading", "register", "starting", "running", "release"}

\* The threads' locals.  A thread that goes to register with the acceptor has read
\* a CompID; a server that is not hosted has no threads.
ThreadsOK ==
    /\ pc \in [Handlers -> Labels]
    /\ comp \in [Handlers -> CompIds \union {NoComp}]
    /\ conn_id \in [Handlers -> Int]
    /\ hosted \in BOOLEAN
    /\ \A h \in Handlers : pc[h] \notin {"none", "reading"} => comp[h] \in CompIds
    /\ ~hosted => abandoned = {} /\ \A h \in Handlers : pc[h] = "none"

\* No two threads hold the same id, and no thread holds one that was abandoned:
\* a thread that releases its slot takes nobody else's.
IdsAreOwn ==
    \A h \in Handlers : Registered(h) =>
        /\ conn_id[h] \notin abandoned
        /\ \A g \in Handlers : Registered(g) /\ conn_id[g] = conn_id[h] => g = h

\* What a dead thread left stays in use: the server never drains or evicts.
AbandonedStay ==
    \A a \in abandoned :
        \E i \in Slots : connections[i].id = a /\ connections[i].state = "InUse"

\* A slot in use has a thread or was abandoned.
SlotsHaveOwners ==
    hosted => \A i \in Slots : Active(connections[i]) =>
        \/ connections[i].id \in abandoned
        \/ \E h \in Handlers : Registered(h) /\ conn_id[h] = connections[i].id

\* The inductive invariant.
ServerInv ==
    /\ AInv
    /\ ThreadsOK
    /\ IdsAreOwn
    /\ AbandonedStay
    /\ SlotsHaveOwners
    /\ HandlerHasSlot

\* A thread's id was given out by the acceptor.
LEMMA RegisteredIdIssued ==
    ASSUME ServerInv, NEW h \in Handlers, Registered(h)
    PROVE  conn_id[h] \in Issued
<1>1. PICK i \in Slots : connections[i].id = conn_id[h]
  BY DEF ServerInv, HandlerHasSlot
<1>2. connections[i].id \in Nat /\ connections[i].id < next_conn_id /\ next_conn_id \in Nat
  BY DEF ServerInv, AInv, AcceptorTypeOK, UniqueIds, Connections
<1> QED
  BY <1>1, <1>2 DEF Issued

\* Whatever the threads do, to the acceptor it is a call of one of its operations,
\* or nothing.
LEMMA ServerCallsAcceptor ==
    ASSUME ServerInv, [Next]_vars
    PROVE  [AcceptorNext]_avars
<1>1. CASE UNCHANGED vars
  BY <1>1 DEF vars, avars
<1>2. CASE Embedded
  BY <1>2 DEF Embedded
<1>3. ASSUME NEW h \in Handlers, Incoming(h) \/ HandlerStep(h)
      PROVE  [AcceptorNext]_avars
  <2>1. CASE Register(h)
    <3>1. comp[h] \in CompIds
      BY <2>1 DEF Register, ServerInv, ThreadsOK
    <3> QED
      BY <2>1, <3>1 DEF Register, AcceptorNext
  <2>2. CASE Refused(h)
    <3>1. comp[h] \in CompIds
      BY <2>2 DEF Refused, ServerInv, ThreadsOK
    <3> QED
      BY <2>2, <3>1 DEF Refused, AcceptorNext
  <2>3. CASE Release(h)
    <3>1. conn_id[h] \in Issued
      BY <2>3, RegisteredIdIssued DEF Release, Registered
    <3> QED
      BY <2>3, <3>1 DEF Release, AcceptorNext
  <2> QED
    BY <1>3, <2>1, <2>2, <2>3
    DEF HandlerStep, Incoming, ReadLogon, ReadFails, StartEngine, StartFails,
        EngineReturns, AppPanics, Abandon
<1> QED
  BY <1>1, <1>2, <1>3 DEF Next

\* A server without threads and with a new pool.
LEMMA InitServerInv == Init => ServerInv
<1> SUFFICES ASSUME Init PROVE ServerInv
  OBVIOUS
<1>1. AInv
  BY InitAInv DEF Init
<1> QED
  BY <1>1, AcceptorAssumption
  DEF Init, AcceptorInit, ServerInv, ThreadsOK, IdsAreOwn, AbandonedStay,
      SlotsHaveOwners, HandlerHasSlot, Registered, Labels, Active, NoId

\* Every step of every thread preserves the invariant.
LEMMA StepServerInv == ASSUME ServerInv, [Next]_vars PROVE ServerInv'
<1>1. AInv'
  BY ServerCallsAcceptor, StepAInv DEF ServerInv
<1> USE DEF ThreadsOK, IdsAreOwn, AbandonedStay, SlotsHaveOwners, HandlerHasSlot,
            Registered
<1>2. CASE UNCHANGED vars
  BY <1>1, <1>2 DEF vars, hvars, ServerInv, Active
<1>3. CASE Embedded
  BY <1>1, <1>3 DEF Embedded, hvars, ServerInv
<1>4. ASSUME NEW h \in Handlers,
             Incoming(h) \/ ReadLogon(h) \/ StartEngine(h) \/ EngineReturns(h)
      PROVE  ServerInv'
  <2>1. UNCHANGED <<connections, conn_id, abandoned, hosted>> /\ hosted
    BY <1>4 DEF Incoming, ReadLogon, StartEngine, EngineReturns, avars, ServerInv
  <2>2. ThreadsOK' /\ \A g \in Handlers :
           /\ Registered(g)' <=> Registered(g)
           /\ Registered(g) => comp'[g] = comp[g]
    BY <1>4, <2>1 DEF Incoming, ReadLogon, StartEngine, EngineReturns, Goto, Labels, ServerInv
  <2> HIDE DEF Registered
  <2> QED
    BY <1>1, <2>1, <2>2 DEF ServerInv, Active
<1>5. ASSUME NEW h \in Handlers, ReadFails(h) \/ Refused(h) PROVE ServerInv'
  <2>1. UNCHANGED <<connections, abandoned, hosted>> /\ hosted
    BY <1>5 DEF ReadFails, Refused, reject_connection, avars, ServerInv
  <2>2. ThreadsOK' /\ \A g \in Handlers :
           /\ Registered(g)' <=> Registered(g)
           /\ Registered(g) => comp'[g] = comp[g] /\ conn_id'[g] = conn_id[g]
    BY <1>5, <2>1 DEF ReadFails, Refused, End, Goto, Labels, ServerInv, NoId
  <2> HIDE DEF Registered
  <2> QED
    BY <1>1, <2>1, <2>2 DEF ServerInv, Active
<1>6. ASSUME NEW h \in Handlers, Register(h) PROVE ServerInv'
  <2> DEFINE k == First(AvailableSlots)
  <2>1. k \in Slots /\ connections[k].state = "Available"
    BY <1>6, FirstIsMember DEF Register, accept_connection, Accepts, AvailableSlots
  <2>2. connections' = [connections EXCEPT ![k] =
           [id |-> next_conn_id, state |-> "InUse", comp |-> comp[h], idle |-> 0]]
    BY <1>6 DEF Register, accept_connection
  <2> HIDE DEF k
  <2>3. /\ UNCHANGED <<comp, abandoned, hosted>>
        /\ hosted
        /\ conn_id' = [conn_id EXCEPT ![h] = next_conn_id]
        /\ pc' = [pc EXCEPT ![h] = "starting"]
        /\ pc[h] = "register"
    BY <1>6 DEF Register, Goto, ServerInv
  <2>4. \A i \in Slots : /\ i # k => connections'[i] = connections[i]
                         /\ connections[i].id < next_conn_id
                         /\ connections[i].id \in Nat
    BY <2>2 DEF ServerInv, AInv, AcceptorTypeOK, Connections, UniqueIds
  <2>5. next_conn_id \in Nat /\ ~Active(connections[k]) /\ connections \in [Slots -> Connections]
    BY <2>1 DEF ServerInv, AInv, AcceptorTypeOK, Active
  <2>6. /\ connections'[k].id = next_conn_id
        /\ connections'[k].state = "InUse"
        /\ connections'[k].comp = comp[h]
    BY <2>1, <2>2, <2>5
  <2>7. ThreadsOK'
    BY <2>3, <2>5 DEF ServerInv, Labels
  <2>8. \A g \in Handlers : /\ Registered(g)' <=> Registered(g) \/ g = h
                            /\ g # h => conn_id'[g] = conn_id[g]
                            /\ conn_id'[h] = next_conn_id
                            /\ ~Registered(h)
    BY <2>3 DEF ServerInv
  <2>9. \A a \in abandoned : a \in Nat /\ a < next_conn_id
    BY <2>4 DEF ServerInv
  <2>10. \A g \in Handlers : Registered(g) => conn_id[g] < next_conn_id
    BY <2>4 DEF ServerInv
  <2> HIDE DEF Registered
  <2>11. IdsAreOwn'
    BY <2>3, <2>5, <2>8, <2>9, <2>10 DEF ServerInv
  <2>12. AbandonedStay'
    BY <2>1, <2>3, <2>4 DEF ServerInv
  <2>13. SlotsHaveOwners'
    BY <2>3, <2>4, <2>6, <2>8 DEF ServerInv, Active
  <2>14. HandlerHasSlot'
    BY <2>1, <2>3, <2>4, <2>6, <2>8 DEF ServerInv
  <2> QED
    BY <1>1, <2>7, <2>11, <2>12, <2>13, <2>14 DEF ServerInv
<1>7. ASSUME NEW h \in Handlers, StartFails(h) \/ AppPanics(h) PROVE ServerInv'
  <2>1. UNCHANGED <<connections, hosted>> /\ hosted /\ Registered(h)
    BY <1>7 DEF StartFails, AppPanics, Abandon, avars, ServerInv
  <2>2. abandoned' = abandoned \union {conn_id[h]}
    BY <1>7 DEF StartFails, AppPanics, Abandon
  <2>3. ThreadsOK' /\ \A g \in Handlers :
           /\ Registered(g)' <=> Registered(g) /\ g # h
           /\ g # h => comp'[g] = comp[g] /\ conn_id'[g] = conn_id[g]
    BY <1>7, <2>1 DEF StartFails, AppPanics, Abandon, End, Goto, Labels, ServerInv, NoId
  <2> HIDE DEF Registered
  <2> QED
    BY <1>1, <2>1, <2>2, <2>3 DEF ServerInv, Active
<1>8. ASSUME NEW h \in Handlers, Release(h) PROVE ServerInv'
  <2> DEFINE found == {i \in Slots : /\ connections[i].id = conn_id[h]
                                     /\ connections[i].state # "Available"}
             k == First(found)
  <2>1. Registered(h) /\ hosted /\ UNCHANGED <<abandoned, hosted>>
    BY <1>8 DEF Release, ServerInv
  <2>2. found # {}
    BY <2>1 DEF ServerInv
  <2>3. k \in Slots /\ connections[k].id = conn_id[h]
    BY <2>2, FirstIsMember
  <2>4. connections' = [connections EXCEPT ![k] = Freed(@)]
    BY <1>8, <2>2 DEF Release, release_connection
  <2> HIDE DEF found, k
  <2>5. /\ \A i \in Slots : i # k => connections'[i] = connections[i]
        /\ ~Active(connections'[k])
    BY <2>3, <2>4 DEF Freed, ServerInv, AInv, AcceptorTypeOK, Active
  <2>6. ThreadsOK' /\ \A g \in Handlers :
           /\ Registered(g)' <=> Registered(g) /\ g # h
           /\ g # h => comp'[g] = comp[g] /\ conn_id'[g] = conn_id[g]
    BY <1>8, <2>1 DEF Release, End, Goto, Labels, ServerInv, NoId
  <2> HIDE DEF Registered
  <2>7. \A i \in Slots : connections[i].id = conn_id[h] => i = k
    BY <2>3 DEF ServerInv, AInv, UniqueIds
  <2>8. IdsAreOwn'
    BY <2>1, <2>6 DEF ServerInv
  <2>9. AbandonedStay'
    BY <2>1, <2>3, <2>5, <2>7 DEF ServerInv
  <2>10. SlotsHaveOwners'
    BY <2>1, <2>3, <2>5, <2>6, <2>7 DEF ServerInv
  <2>11. HandlerHasSlot'
    BY <2>1, <2>3, <2>5, <2>6 DEF ServerInv
  <2> QED
    BY <1>1, <2>6, <2>8, <2>9, <2>10, <2>11 DEF ServerInv
<1> QED
  BY <1>2, <1>3, <1>4, <1>5, <1>6, <1>7, <1>8 DEF Next, HandlerStep

\* The inductive invariant holds for every set of threads and every pool.
THEOREM ServerInvariant == Spec => []ServerInv
<1>1. ServerInv /\ [Next]_vars => ServerInv'
  BY StepServerInv
<1> QED
  BY InitServerInv, <1>1, PTL DEF Spec

\* Between accept_connection and release_connection, which run under two separate
\* locks, nobody takes a thread's slot away or registers under its id.
THEOREM HandlersKeepTheirSlots == Spec => []HandlerHasSlot
BY ServerInvariant, PTL DEF ServerInv

\* The slots that handle_connection does not give back to the pool are those of threads
\* whose engine failed to start or whose application panicked: without either, every
\* connection is released.
THEOREM OnlyFailuresLeak == Spec => [](hosted => {connections[i].id : i \in Leaked} = abandoned)
<1>1. ServerInv => (hosted => {connections[i].id : i \in Leaked} = abandoned)
  <2> SUFFICES ASSUME ServerInv, hosted
               PROVE  {connections[i].id : i \in Leaked} = abandoned
    OBVIOUS
  <2>1. \A i \in Slots : Active(connections[i]) =>
           \/ connections[i].id \in abandoned
           \/ \E h \in Handlers : Registered(h) /\ conn_id[h] = connections[i].id
    BY DEF ServerInv, SlotsHaveOwners
  <2>2. \A a \in abandoned : \E i \in Slots : Active(connections[i]) /\ connections[i].id = a
    BY DEF ServerInv, AbandonedStay, Active
  <2>3. \A h \in Handlers : Registered(h) => conn_id[h] \notin abandoned
    BY DEF ServerInv, IdsAreOwn
  <2> QED
    BY <2>1, <2>2, <2>3 DEF Leaked
<1> QED
  BY <1>1, ServerInvariant, PTL

\* What is shown of the pool above holds when the server's threads call it:
\* ids are unique and a CompID has one connection.
THEOREM ServerPoolSafety ==
    Spec => [](AcceptorTypeOK /\ UniqueIds /\ OneConnectionPerCompId)
BY ServerInvariant, PTL DEF ServerInv, AInv

\* The server's pool, and an application's, implements the registry.
THEOREM ServerRefinement == Spec => ImplementsRegistry
<1>1. Init => Registry!Init
  BY DEF Init, AcceptorInit, Registry!Init, Live, Active
<1>2. ServerInv /\ [Next]_vars => [Registry!Next]_(Registry!rvars)
  BY ServerCallsAcceptor, RegistryStep DEF ServerInv
<1> QED
  BY <1>1, <1>2, ServerInvariant, PTL DEF Spec, ImplementsRegistry, Registry!Spec
=============================================================================
