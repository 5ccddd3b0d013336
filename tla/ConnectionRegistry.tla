------------------------ MODULE ConnectionRegistry --------------------------
(***************************************************************************)
(* What the acceptor promises its callers: a registry of live connections, *)
(* at most PoolSize of them and at most one per CompID, each with an id    *)
(* that no other connection ever has.  Using the id of a connection that   *)
(* is gone changes nothing.                                                *)
(***************************************************************************)
EXTENDS Integers, FiniteSets

CONSTANTS PoolSize, CompIds, Allowed, RequireAuth

VARIABLES live, issued, accepted, rejected

rvars == <<live, issued, accepted, rejected>>

Init ==
    /\ live = {}
    /\ issued = PoolSize
    /\ accepted = 0
    /\ rejected = 0

Admissible(comp) ==
    /\ ~RequireAuth
    /\ Allowed = {} \/ comp \in Allowed
    /\ \A l \in live : l.comp # comp
    /\ Cardinality(live) < PoolSize

Accept(comp) ==
    /\ Admissible(comp)
    /\ live' = live \union {[id |-> issued, comp |-> comp, draining |-> FALSE]}
    /\ issued' = issued + 1
    /\ accepted' = accepted + 1
    /\ UNCHANGED rejected

Reject(comp) ==
    /\ ~Admissible(comp)
    /\ rejected' = rejected + 1
    /\ UNCHANGED <<live, issued, accepted>>

\* The connection with this id leaves; every other one stays.
Release(id) ==
    /\ live' = {l \in live : l.id # id}
    /\ UNCHANGED <<issued, accepted, rejected>>

Drain(id) ==
    /\ live' = {IF l.id = id THEN [l EXCEPT !.draining = TRUE] ELSE l : l \in live}
    /\ UNCHANGED <<issued, accepted, rejected>>

\* Idle connections leave, except those that are draining.
Evict ==
    /\ \E gone \in SUBSET {l \in live : ~l.draining} : live' = live \ gone
    /\ UNCHANGED <<issued, accepted, rejected>>

Next ==
    \/ \E comp \in CompIds : Accept(comp) \/ Reject(comp)
    \/ \E id \in 0 .. issued - 1 : Release(id) \/ Drain(id)
    \/ Evict

Spec == Init /\ [][Next]_rvars
=============================================================================
