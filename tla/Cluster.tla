------------------------------ MODULE Cluster -------------------------------
(***************************************************************************)
(* cluster.rs: ClusterNode, the state one engine keeps to replicate        *)
(* session states with its peers.  The repository has the node and no      *)
(* network: its methods are called by the host it runs in.  The host is    *)
(* external and does what the methods are for: it starts elections on a    *)
(* timeout, grants a peer its vote once in a term, carries the answers to  *)
(* receive_vote(), steps down when it hears of a higher term, appends      *)
(* session states, applies entries in the order of their index, and moves  *)
(* snapshots.                                                              *)
(*                                                                         *)
(* A node keeps everything in memory: when its process is restarted the    *)
(* new node starts at term 0 and knows nothing of the votes it has given.  *)
(***************************************************************************)
EXTENDS Integers, FiniteSets, Sequences

CONSTANTS
    Nodes,
    SessionIds,
    Duplicates,     \* TRUE iff an answer may be delivered more than once
    Limits          \* alternatives for the bounds: on the terms in which elections begin,
                    \* entries of a log, snapshots, restarts, and the nodes (replicas)
                    \* whose hosts append, apply and restore

ASSUME ClusterAssumption ==
    /\ IsFiniteSet(Nodes) /\ Nodes # {}
    /\ Duplicates \in BOOLEAN
    /\ Limits \subseteq [ term : Nat, entries : Nat, snapshots : {0, 1}, restarts : Nat,
                          replicas : SUBSET Nodes ]

VARIABLES
    role, state, current_term, voted_for, votes_received, leader_id,
    log, commit_index, last_applied, session_states,
    ballots,        \* votes that have been given: who, in which term, to whom
    memory,         \* those of them that the voter's process still knows of
    lost,           \* terms in which a vote has been forgotten
    restarts,       \* restarts so far
    limits,         \* the bounds of this behaviour
    replies,        \* answers on their way to receive_vote()
    counted,        \* counted[n]: the nodes whose votes n has added up
    elected,        \* every <<node, term>> that has become leader
    snapshot,       \* the snapshot the hosts have stored, if any
    restored        \* nodes whose table a snapshot has replaced

election == <<role, current_term, voted_for, votes_received, leader_id, counted, elected>>
replication == <<log, commit_index, last_applied, session_states, restored>>
crashes == <<lost, restarts, limits>>
vars == <<role, state, current_term, voted_for, votes_received, leader_id, log,
          commit_index, last_applied, session_states, ballots, memory, crashes, replies,
          counted, elected, snapshot, restored>>

None == "None"
NodeRole == {"Leader", "Follower", "Candidate"}
NodeState == {"Joining", "Active"}
Ballot == [from : Nodes, term : Nat, to : Nodes]
Reply == [from : Nodes, to : Nodes, term : Nat, granted : BOOLEAN]
LogEntry == [term : Nat, index : Nat, session : SessionIds, value : Nat]
Tables == [SessionIds -> Nat]

TypeOK ==
    /\ role \in [Nodes -> NodeRole]
    /\ state \in [Nodes -> NodeState]
    /\ current_term \in [Nodes -> Nat]
    /\ voted_for \in [Nodes -> Nodes \union {None}]
    /\ votes_received \in [Nodes -> Nat]
    /\ leader_id \in [Nodes -> Nodes \union {None}]
    /\ log \in [Nodes -> Seq(LogEntry)]
    /\ commit_index \in [Nodes -> Nat]
    /\ last_applied \in [Nodes -> Nat]
    /\ session_states \in [Nodes -> Tables]
    /\ memory \subseteq ballots /\ ballots \subseteq Ballot
    /\ lost \subseteq Nat /\ restarts \in Nat /\ limits \in Limits
    /\ replies \subseteq Reply
    /\ counted \in [Nodes -> SUBSET Nodes]
    /\ elected \subseteq Nodes \X Nat
    /\ snapshot \subseteq Tables
    /\ restored \subseteq Nodes

\* The sequence numbers of each session; 0 for a session the node does not know.
EmptyTable == [s \in SessionIds |-> 0]

\* ClusterNode::new
Init ==
    /\ role = [n \in Nodes |-> "Follower"]
    /\ state = [n \in Nodes |-> "Joining"]
    /\ current_term = [n \in Nodes |-> 0]
    /\ voted_for = [n \in Nodes |-> None]
    /\ votes_received = [n \in Nodes |-> 0]
    /\ leader_id = [n \in Nodes |-> None]
    /\ log = [n \in Nodes |-> <<>>]
    /\ commit_index = [n \in Nodes |-> 0]
    /\ last_applied = [n \in Nodes |-> 0]
    /\ session_states = [n \in Nodes |-> EmptyTable]
    /\ ballots = {} /\ memory = {}
    /\ lost = {} /\ restarts = 0 /\ limits \in Limits
    /\ replies = {}
    /\ counted = [n \in Nodes |-> {}]
    /\ elected = {}
    /\ snapshot = {}
    /\ restored = {}

-----------------------------------------------------------------------------
(* Elections                                                               *)

Majority == Cardinality(Nodes) \div 2 + 1

\* become_leader, on a node whose term is t.
become_leader(n, t) ==
    /\ role' = [role EXCEPT ![n] = "Leader"]
    /\ leader_id' = [leader_id EXCEPT ![n] = n]
    /\ votes_received' = [votes_received EXCEPT ![n] = 0]
    /\ elected' = elected \union {<<n, t>>}

\* A vote is given.
Vote(v, t, c) ==
    /\ ballots' = ballots \union {[from |-> v, term |-> t, to |-> c]}
    /\ memory' = memory \union {[from |-> v, term |-> t, to |-> c]}

\* begin_election: a vote for itself in a new term; alone it has won.
begin_election(n) ==
    LET t == current_term[n] + 1 IN
    /\ t <= limits.term
    /\ current_term' = [current_term EXCEPT ![n] = t]
    /\ voted_for' = [voted_for EXCEPT ![n] = n]
    /\ counted' = [counted EXCEPT ![n] = {n}]
    /\ Vote(n, t, n)
    /\ IF Nodes = {n}
       THEN become_leader(n, t)
       ELSE /\ role' = [role EXCEPT ![n] = "Candidate"]
            /\ votes_received' = [votes_received EXCEPT ![n] = 1]
            /\ leader_id' = [leader_id EXCEPT ![n] = None]
            /\ UNCHANGED elected

\* start
start(n) ==
    /\ state[n] = "Joining"
    /\ state' = [state EXCEPT ![n] = "Active"]
    /\ begin_election(n)
    /\ UNCHANGED <<replication, crashes, replies, snapshot>>

\* The host's election timeout.
ElectionTimeout(n) ==
    /\ state[n] = "Active"
    /\ begin_election(n)
    /\ UNCHANGED <<state, replication, crashes, replies, snapshot>>

\* step_down
step_down(n, new_term) ==
    /\ role' = [role EXCEPT ![n] = "Follower"]
    /\ current_term' = [current_term EXCEPT ![n] = new_term]
    /\ voted_for' = [voted_for EXCEPT ![n] = None]
    /\ votes_received' = [votes_received EXCEPT ![n] = 0]
    /\ leader_id' = [leader_id EXCEPT ![n] = None]
    /\ counted' = [counted EXCEPT ![n] = {}]
    /\ UNCHANGED elected

\* The host hears of the term of another node, which is higher.
HigherTerm(n, m) ==
    /\ current_term[m] > current_term[n]
    /\ step_down(n, current_term[m])
    /\ UNCHANGED <<state, replication, ballots, memory, crashes, replies, snapshot>>

\* External: the host of v gets a request, however old, of candidate c for its vote
\* in term t; the first it knows of in a term that is not over gets it.
Grant(v, c, t) ==
    /\ v # c
    /\ [from |-> c, term |-> t, to |-> c] \in ballots
    /\ t >= current_term[v]
    /\ ~\E b \in memory : b.from = v /\ b.term = t
    /\ Vote(v, t, c)
    /\ replies' = replies \union {[from |-> v, to |-> c, term |-> t, granted |-> TRUE]}
    /\ IF t > current_term[v] THEN step_down(v, t) ELSE UNCHANGED election
    /\ UNCHANGED <<state, replication, crashes, snapshot>>

\* External: v refuses a request of an earlier term and says which term it is in.
\* (A refusal in c's own term changes nothing at c and is left out.)
Refuse(v, c, t) ==
    /\ v # c
    /\ [from |-> c, term |-> t, to |-> c] \in ballots
    /\ t < current_term[v]
    /\ replies' = replies \union
          {[from |-> v, to |-> c, term |-> current_term[v], granted |-> FALSE]}
    /\ UNCHANGED <<state, election, replication, ballots, memory, crashes, snapshot>>

\* Mutated form: answers of earlier terms count.
receive_vote_any_term(n, from, term, granted) ==
    \/ /\ term > current_term[n]
       /\ step_down(n, term)
    \/ /\ term <= current_term[n] /\ role[n] = "Candidate" /\ granted
       /\ counted' = [counted EXCEPT ![n] = @ \union {from}]
       /\ UNCHANGED <<current_term, voted_for>>
       /\ IF votes_received[n] + 1 >= Majority
          THEN become_leader(n, current_term[n])
          ELSE /\ votes_received' = [votes_received EXCEPT ![n] = @ + 1]
               /\ UNCHANGED <<role, leader_id, elected>>
    \/ /\ term <= current_term[n] /\ ~(role[n] = "Candidate" /\ granted)
       /\ UNCHANGED election

\* Mutated form: any other term than its own makes a node step down.
receive_vote_lower_term(n, from, term, granted) ==
    \/ /\ term # current_term[n]
       /\ step_down(n, term)
    \/ /\ term = current_term[n]
       /\ UNCHANGED election

\* receive_vote: a higher term ends the candidacy; a granted vote of this
\* election is added up, and a majority makes the leader.
receive_vote(n, from, term, granted) ==
    LET counts == role[n] = "Candidate" /\ term = current_term[n] /\ granted IN
    \/ /\ term > current_term[n]
       /\ step_down(n, term)
    \/ /\ term <= current_term[n] /\ counts
       /\ counted' = [counted EXCEPT ![n] = @ \union {from}]
       /\ UNCHANGED <<current_term, voted_for>>
       /\ IF votes_received[n] + 1 >= Majority
          THEN become_leader(n, current_term[n])
          ELSE /\ votes_received' = [votes_received EXCEPT ![n] = @ + 1]
               /\ UNCHANGED <<role, leader_id, elected>>
    \/ /\ term <= current_term[n] /\ ~counts
       /\ UNCHANGED election

\* The network delivers an answer; with Duplicates it may do so again.
Deliver(r) ==
    /\ r \in replies
    /\ receive_vote(r.to, r.from, r.term, r.granted)
    /\ replies' = IF Duplicates THEN replies ELSE replies \ {r}
    /\ UNCHANGED <<state, replication, ballots, memory, crashes, snapshot>>

-----------------------------------------------------------------------------
(* Replicated session states                                               *)

\* The index of the last entry, 0 if there is none.
LastIndex(n) == IF log[n] = <<>> THEN 0 ELSE log[n][Len(log[n])].index

\* Mutated form: the index is counted from what has been applied.
AppendIndexFromCommit(n) == commit_index[n] + 1

AppendIndex(n) == LastIndex(n) + 1

\* replicate_session_state: whatever the role.  The session's numbers have moved on
\* since the last entry.
replicate_session_state(n, s) ==
    /\ state[n] = "Active"
    /\ Len(log[n]) < limits.entries
    /\ log' = [log EXCEPT ![n] = Append(@,
          [term |-> current_term[n], index |-> AppendIndex(n), session |-> s,
           value |-> Len(log[n]) + 1])]
    /\ UNCHANGED <<election, state, commit_index, last_applied, session_states, restored,
                   ballots, memory, crashes, replies, snapshot>>

Later(a, b) == IF a > b THEN a ELSE b

\* Mutated form: only the first state of a session is kept.
UpsertInsertOnly(table, e) ==
    IF table[e.session] = 0 THEN [table EXCEPT ![e.session] = e.value] ELSE table

\* Update the session's state, or insert it.  decode_session_state gives back what
\* encode_session_state was given; both lengths are u16, so for ids that fit in one.
Upsert(table, e) == [table EXCEPT ![e.session] = e.value]

\* apply_log_entry
apply_log_entry(n, e) ==
    /\ session_states' = [session_states EXCEPT ![n] = Upsert(@, e)]
    /\ last_applied' = [last_applied EXCEPT ![n] = Later(@, e.index)]
    /\ commit_index' = [commit_index EXCEPT ![n] = Later(@, e.index)]

\* The host applies the entry of the node's log after the last one applied.
Apply(n) ==
    /\ \E i \in DOMAIN log[n] :
          /\ log[n][i].index = last_applied[n] + 1
          /\ apply_log_entry(n, log[n][i])
    /\ UNCHANGED <<election, state, log, restored, ballots, memory, crashes, replies, snapshot>>

\* create_snapshot: the table, and nothing of the indices.
create_snapshot(n) ==
    /\ snapshot = {} /\ limits.snapshots = 1
    /\ snapshot' = {session_states[n]}
    /\ UNCHANGED <<election, state, replication, ballots, memory, crashes, replies>>

\* The first entries of a snapshot, up to where its data ends; the rest is not known.
Shortened(table, sessions) == [s \in SessionIds |-> IF s \in sessions THEN table[s] ELSE 0]

\* restore_snapshot: the table is cleared; data that ends within the count leave it so
\* and the node as it was, others give what entries they have, and the node is Active.
\* External: the host may have stored any part of the data.
restore_snapshot(n) ==
    /\ \E table \in snapshot :
          \/ /\ session_states' = [session_states EXCEPT ![n] = EmptyTable]
             /\ UNCHANGED state
          \/ /\ \E sessions \in SUBSET SessionIds :
                   session_states' = [session_states EXCEPT ![n] = Shortened(table, sessions)]
             /\ state' = [state EXCEPT ![n] = "Active"]
    /\ restored' = restored \union {n}
    /\ UNCHANGED <<election, log, commit_index, last_applied, ballots, memory, crashes, replies,
                   snapshot>>

\* The process of n ends and is started again: ClusterNode::new, and what is on its
\* way to n still arrives.
restart(n) ==
    /\ restarts < limits.restarts /\ state[n] = "Active"
    /\ restarts' = restarts + 1
    /\ memory' = {b \in memory : b.from # n}
    /\ lost' = lost \union {b.term : b \in memory \ memory'}
    /\ role' = [role EXCEPT ![n] = "Follower"]
    /\ state' = [state EXCEPT ![n] = "Joining"]
    /\ current_term' = [current_term EXCEPT ![n] = 0]
    /\ voted_for' = [voted_for EXCEPT ![n] = None]
    /\ votes_received' = [votes_received EXCEPT ![n] = 0]
    /\ leader_id' = [leader_id EXCEPT ![n] = None]
    /\ counted' = [counted EXCEPT ![n] = {}]
    /\ log' = [log EXCEPT ![n] = <<>>]
    /\ commit_index' = [commit_index EXCEPT ![n] = 0]
    /\ last_applied' = [last_applied EXCEPT ![n] = 0]
    /\ session_states' = [session_states EXCEPT ![n] = EmptyTable]
    /\ restored' = restored \ {n}
    /\ UNCHANGED <<ballots, limits, replies, elected, snapshot>>

\* pending_entries
pending_entries(n) ==
    IF LastIndex(n) > commit_index[n] THEN LastIndex(n) - commit_index[n] ELSE 0

-----------------------------------------------------------------------------
Next ==
    \/ \E n \in Nodes : start(n) \/ ElectionTimeout(n) \/ restart(n)
    \/ \E n, m \in Nodes : HigherTerm(n, m)
    \/ \E b \in ballots, v \in Nodes : Grant(v, b.to, b.term) \/ Refuse(v, b.to, b.term)
    \/ \E r \in replies : Deliver(r)
    \/ \E n \in limits.replicas, s \in SessionIds : replicate_session_state(n, s)
    \/ \E n \in limits.replicas : Apply(n) \/ create_snapshot(n) \/ restore_snapshot(n)

Spec == Init /\ [][Next]_vars

-----------------------------------------------------------------------------
(* Properties                                                              *)

\* No two nodes ever become leader of the same term, unless a vote of that term was
\* forgotten in a restart: a majority of answers means a majority of nodes, whatever
\* is delayed, lost or out of date.
ElectionSafety ==
    \A a, b \in elected : a[2] = b[2] /\ a[2] \notin lost => a[1] = b[1]

\* A node's term never goes back, whatever answers arrive late, but for a restart.
TermsNeverGoBack ==
    [][\A n \in Nodes : current_term'[n] >= current_term[n] \/ state'[n] = "Joining"]_vars

\* In a node's log indices have no gap and terms never decrease, through
\* elections won and lost between appends.
LogOrdered ==
    \A n \in Nodes : \A i \in DOMAIN log[n] :
        /\ log[n][i].index = i
        /\ log[n][i].term <= current_term[n]
        /\ i > 1 => log[n][i - 1].term <= log[n][i].term

\* A node that has not restored a snapshot knows what is left to apply,
\* and its table holds for each session the last state applied.
TableFollowsLog ==
    \A n \in Nodes \ restored :
        LET done == 1 .. last_applied[n]
            last(s) == {i \in done : log[n][i].session = s /\
                          \A j \in done : log[n][j].session = s => j <= i} IN
        /\ pending_entries(n) = Len(log[n]) - Cardinality(done)
        /\ \A s \in SessionIds :
              session_states[n][s] \in
                  IF last(s) = {} THEN {0} ELSE {log[n][i].value : i \in last(s)}
=============================================================================
