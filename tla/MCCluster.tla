----------------------------- MODULE MCCluster ------------------------------
(* Instances of Cluster for TLC: the configurations give the constants.    *)
EXTENDS Cluster, TLC

Limit(t, e, s, r, nodes) ==
    [term |-> t, entries |-> e, snapshots |-> s, restarts |-> r, replicas |-> nodes]

\* Replication through two terms; snapshots and a restart in a term; elections with
\* a restart.  The node that replicates can be any.
Scenarios ==
    UNION {{Limit(2, 2, 0, 0, {n}), Limit(1, 2, 1, 1, {n})} : n \in Nodes}
        \union {Limit(2, 0, 0, 1, {})}

\* The nodes are interchangeable, and so are the sessions.
Symm == Permutations(Nodes) \union Permutations(SessionIds)
=============================================================================
