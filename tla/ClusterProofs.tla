--------------------------- MODULE ClusterProofs ----------------------------
(***************************************************************************)
(* Elections of any finite cluster whose network delivers each answer at   *)
(* most once.  Processes may be restarted: what is said of a term holds    *)
(* while no vote of that term has been forgotten.                          *)
(***************************************************************************)
EXTENDS Cluster, FiniteSetTheorems, TLAPS

BallotOf(v, t, c) == [from |-> v, term |-> t, to |-> c]

ElectionTypeOK ==
    /\ role \in [Nodes -> NodeRole]
    /\ current_term \in [Nodes -> Nat]
    /\ votes_received \in [Nodes -> Nat]
    /\ ballots \subseteq Ballot
    /\ memory \subseteq Ballot
    /\ lost \subseteq Nat
    /\ replies \subseteq Reply
    /\ counted \in [Nodes -> SUBSET Nodes]
    /\ elected \subseteq Nodes \X Nat

\* A node votes once in a term.
OneBallot ==
    \A a, b \in ballots : a.from = b.from /\ a.term = b.term /\ a.term \notin lost => a = b

\* It knows of no vote of its own in a term above its own.
NoBallotAhead == \A b \in memory : b.term <= current_term[b.from]

\* The votes of a term in which none was forgotten are all known to their voters.
Remembered == \A b \in ballots : b.term \notin lost => b \in memory

\* What a candidate has added up are votes given to it in this election.
VotesAreBallots ==
    \A n \in Nodes : role[n] = "Candidate" /\ current_term[n] \notin lost =>
        /\ votes_received[n] = Cardinality(counted[n])
        /\ \A v \in counted[n] : BallotOf(v, current_term[n], n) \in ballots

\* A granting answer on its way stands for a vote that has not been added up.
RepliesAreBallots ==
    \A r \in replies : r.granted /\ r.term \notin lost =>
        /\ BallotOf(r.from, r.term, r.to) \in ballots
        /\ role[r.to] = "Candidate" /\ r.term = current_term[r.to] => r.from \notin counted[r.to]

\* Behind every leader is a majority of votes.
ElectedByMajority ==
    \A e \in elected : e[2] \notin lost =>
        \E Q \in SUBSET Nodes :
            /\ Cardinality(Q) >= Majority
            /\ \A v \in Q : BallotOf(v, e[2], e[1]) \in ballots

CInv ==
    /\ ElectionTypeOK
    /\ OneBallot
    /\ NoBallotAhead
    /\ Remembered
    /\ VotesAreBallots
    /\ RepliesAreBallots
    /\ ElectedByMajority

\* Two majorities have a node in common.
LEMMA MajoritiesMeet ==
    ASSUME NEW P \in SUBSET Nodes, NEW Q \in SUBSET Nodes,
           Cardinality(P) >= Majority, Cardinality(Q) >= Majority
    PROVE  \E v \in Nodes : v \in P /\ v \in Q
<1>1. /\ IsFiniteSet(P) /\ IsFiniteSet(Q) /\ IsFiniteSet(P \cup Q)
      /\ Cardinality(P \cup Q) <= Cardinality(Nodes)
  <2>1. P \cup Q \in SUBSET Nodes
    OBVIOUS
  <2> QED BY <2>1, FS_Subset, ClusterAssumption
<1>2. Cardinality(P \cup Q) = Cardinality(P) + Cardinality(Q) - Cardinality(P \cap Q)
  BY <1>1, FS_Union
<1>3. /\ Cardinality(P) \in Nat /\ Cardinality(Q) \in Nat /\ Cardinality(Nodes) \in Nat
      /\ IsFiniteSet(P \cap Q) /\ Cardinality(P \cap Q) \in Nat
  BY <1>1, FS_CardinalityType, FS_Intersection, ClusterAssumption
<1>4. Cardinality(P \cap Q) > 0
  BY <1>1, <1>2, <1>3 DEF Majority
<1>5. P \cap Q # {}
  BY <1>4, FS_EmptySet
<1> QED BY <1>5

LEMMA CInvImpliesElectionSafety == CInv => ElectionSafety
<1> SUFFICES ASSUME CInv, NEW a \in elected, NEW b \in elected, a[2] = b[2],
                    a[2] \notin lost
             PROVE  a[1] = b[1]
  BY DEF ElectionSafety
<1>1. PICK P \in SUBSET Nodes : /\ Cardinality(P) >= Majority
                                /\ \A v \in P : BallotOf(v, a[2], a[1]) \in ballots
  BY DEF CInv, ElectedByMajority
<1>2. PICK Q \in SUBSET Nodes : /\ Cardinality(Q) >= Majority
                                /\ \A v \in Q : BallotOf(v, b[2], b[1]) \in ballots
  BY DEF CInv, ElectedByMajority
<1>3. PICK v \in Nodes : v \in P /\ v \in Q
  BY <1>1, <1>2, MajoritiesMeet
<1>4. BallotOf(v, a[2], a[1]) = BallotOf(v, b[2], b[1])
  BY <1>1, <1>2, <1>3 DEF CInv, OneBallot, BallotOf
<1> QED BY <1>4 DEF BallotOf

LEMMA InitCInv == Init => CInv
BY DEF Init, CInv, ElectionTypeOK, NodeRole, OneBallot, NoBallotAhead, Remembered,
    VotesAreBallots, RepliesAreBallots, ElectedByMajority

\* step_down to a higher term.
LEMMA StepDownCInv ==
    ASSUME CInv, NEW n \in Nodes, NEW t \in Nat, t > current_term[n], step_down(n, t),
           ballots' = ballots, memory' = memory, lost' = lost, replies' \subseteq replies
    PROVE  CInv'
<1>1. ElectionTypeOK'
  BY DEF CInv, ElectionTypeOK, step_down, NodeRole
<1>2. OneBallot' /\ Remembered' /\ ElectedByMajority'
  BY DEF CInv, OneBallot, Remembered, ElectedByMajority, step_down, Majority
<1>3. NoBallotAhead'
  BY DEF CInv, NoBallotAhead, ElectionTypeOK, step_down, Ballot
<1>4. \A m \in Nodes : role'[m] = "Candidate" =>
        /\ m # n /\ role[m] = "Candidate" /\ counted'[m] = counted[m]
        /\ current_term'[m] = current_term[m] /\ votes_received'[m] = votes_received[m]
  BY DEF CInv, ElectionTypeOK, step_down
<1>5. VotesAreBallots'
  BY <1>4 DEF CInv, VotesAreBallots
<1>6. RepliesAreBallots'
  BY <1>4 DEF CInv, RepliesAreBallots, ElectionTypeOK, Reply
<1> QED BY <1>1, <1>2, <1>3, <1>5, <1>6 DEF CInv

\* A new election: the vote a node gives itself is its first in the new term.
LEMMA BeginElectionCInv ==
    ASSUME CInv, NEW n \in Nodes, begin_election(n), replies' = replies, lost' = lost
    PROVE  CInv'
<1> DEFINE t == current_term[n] + 1
           b == BallotOf(n, t, n)
<1>1. /\ t \in Nat /\ b \in Ballot /\ ballots' = ballots \union {b}
      /\ memory' = memory \union {b}
      /\ current_term' = [current_term EXCEPT ![n] = t]
      /\ counted' = [counted EXCEPT ![n] = {n}]
      /\ b.from = n /\ b.term = t
  BY DEF CInv, ElectionTypeOK, begin_election, Vote, BallotOf, Ballot
<1>2. \A a \in ballots : ~(a.from = n /\ a.term = t /\ t \notin lost)
  BY <1>1 DEF CInv, ElectionTypeOK, NoBallotAhead, Remembered, Ballot
<1>3. OneBallot'
  BY <1>1, <1>2 DEF CInv, OneBallot
<1>4. NoBallotAhead' /\ Remembered'
  BY <1>1 DEF CInv, ElectionTypeOK, NoBallotAhead, Remembered, Ballot
<1>5. /\ role' \in [Nodes -> NodeRole] /\ votes_received' \in [Nodes -> Nat]
      /\ \A m \in Nodes \ {n} : role'[m] = role[m] /\ votes_received'[m] = votes_received[m]
      /\ role'[n] = "Candidate" => votes_received'[n] = 1
      /\ elected' \in {elected, elected \union {<<n, t>>}}
      /\ elected' # elected => Nodes = {n}
  BY DEF CInv, ElectionTypeOK, begin_election, become_leader, NodeRole
<1>6. ElectionTypeOK'
  <2>1. /\ replies' \subseteq Reply /\ ballots' \subseteq Ballot /\ memory' \subseteq Ballot
        /\ lost' \subseteq Nat
    BY <1>1 DEF CInv, ElectionTypeOK
  <2>2. current_term' \in [Nodes -> Nat] /\ counted' \in [Nodes -> SUBSET Nodes]
    BY <1>1 DEF CInv, ElectionTypeOK
  <2>3. <<n, t>> \in Nodes \X Nat
    BY <1>1
  <2>4. elected' \subseteq Nodes \X Nat
    BY <2>3, <1>5 DEF CInv, ElectionTypeOK
  <2> QED BY <2>1, <2>2, <2>4, <1>5 DEF ElectionTypeOK
<1>7. VotesAreBallots'
  <2> SUFFICES ASSUME NEW m \in Nodes, role'[m] = "Candidate", current_term'[m] \notin lost
               PROVE  /\ votes_received'[m] = Cardinality(counted'[m])
                      /\ \A v \in counted'[m] : BallotOf(v, current_term'[m], m) \in ballots'
    BY DEF VotesAreBallots
  <2>1. CASE m = n
    <3>1. counted'[m] = {n} /\ current_term'[m] = t /\ votes_received'[m] = 1
      BY <2>1, <1>1, <1>5 DEF CInv, ElectionTypeOK
    <3>2. Cardinality({n}) = 1
      BY FS_Singleton
    <3>3. BallotOf(n, t, n) \in ballots'
      BY <1>1
    <3> QED BY <2>1, <3>1, <3>2, <3>3
  <2>2. CASE m # n
    <3>1. /\ counted'[m] = counted[m] /\ current_term'[m] = current_term[m]
          /\ role[m] = "Candidate" /\ votes_received'[m] = votes_received[m]
      BY <2>2, <1>1, <1>5 DEF CInv, ElectionTypeOK
    <3> HIDE DEF b
    <3> QED BY <3>1, <1>1 DEF CInv, VotesAreBallots
  <2> QED BY <2>1, <2>2
<1>8. RepliesAreBallots'
  <2> SUFFICES ASSUME NEW r \in replies, r.granted, r.term \notin lost
               PROVE  /\ BallotOf(r.from, r.term, r.to) \in ballots'
                      /\ role'[r.to] = "Candidate" /\ r.term = current_term'[r.to]
                            => r.from \notin counted'[r.to]
    BY DEF RepliesAreBallots
  <2>1. BallotOf(r.from, r.term, r.to) \in ballots /\ r.to \in Nodes
    BY DEF CInv, RepliesAreBallots, ElectionTypeOK, Reply
  <2>2. CASE r.to = n
    <3>1. current_term'[r.to] = t /\ counted'[r.to] = {n}
      BY <2>2, <1>1 DEF CInv, ElectionTypeOK
    <3>2. r.term = t => r.from # n
      BY <2>1, <1>2 DEF BallotOf
    <3> QED BY <3>1, <3>2, <2>1, <1>1
  <2>3. CASE r.to # n
    <3>1. /\ counted'[r.to] = counted[r.to] /\ current_term'[r.to] = current_term[r.to]
          /\ role'[r.to] = role[r.to]
      BY <2>1, <2>3, <1>1, <1>5 DEF CInv, ElectionTypeOK
    <3> QED BY <3>1, <2>1, <1>1 DEF CInv, RepliesAreBallots
  <2> QED BY <2>2, <2>3
<1>9. ElectedByMajority'
  <2> SUFFICES ASSUME NEW e \in elected', e[2] \notin lost
               PROVE  \E Q \in SUBSET Nodes :
                         /\ Cardinality(Q) >= Majority
                         /\ \A v \in Q : BallotOf(v, e[2], e[1]) \in ballots'
    BY DEF ElectedByMajority, Majority
  <2>1. CASE e \in elected
    BY <2>1, <1>1 DEF CInv, ElectedByMajority
  <2>2. CASE e \notin elected
    <3>1. e = <<n, t>> /\ Nodes = {n}
      BY <2>2, <1>5
    <3>2. Cardinality(Nodes) = 1
      BY <3>1, FS_Singleton
    <3>3. Cardinality(Nodes) >= Majority
      BY <3>2 DEF Majority
    <3>4. \A v \in Nodes : BallotOf(v, e[2], e[1]) \in ballots'
      BY <3>1, <1>1
    <3> QED BY <3>3, <3>4
  <2> QED BY <2>1, <2>2
<1> QED BY <1>3, <1>4, <1>6, <1>7, <1>8, <1>9 DEF CInv

\* One more ballot, and the answer that carries it.
LEMMA GrantCInv ==
    ASSUME CInv, NEW v \in Nodes, NEW c \in Nodes, NEW t \in Nat, Grant(v, c, t)
    PROVE  CInv'
<1> DEFINE b == BallotOf(v, t, c)
           r == [from |-> v, to |-> c, term |-> t, granted |-> TRUE]
<1>1. /\ b \in Ballot /\ r \in Reply /\ b.from = v /\ b.term = t
      /\ ballots' = ballots \union {b} /\ replies' = replies \union {r}
      /\ memory' = memory \union {b} /\ lost' = lost
      /\ \A a \in ballots : ~(a.from = v /\ a.term = t /\ t \notin lost)
      /\ t >= current_term[v] /\ v # c /\ elected' = elected
  BY DEF CInv, Remembered, Grant, Vote, BallotOf, Ballot, Reply, step_down, election, crashes
<1>2. /\ role' \in [Nodes -> NodeRole] /\ votes_received' \in [Nodes -> Nat]
      /\ counted' \in [Nodes -> SUBSET Nodes] /\ current_term' \in [Nodes -> Nat]
      /\ current_term'[v] = t
      /\ \A m \in Nodes \ {v} : current_term'[m] = current_term[m]
      /\ \A m \in Nodes : role'[m] = "Candidate" =>
            /\ role[m] = "Candidate" /\ counted'[m] = counted[m]
            /\ current_term'[m] = current_term[m] /\ votes_received'[m] = votes_received[m]
  <2>1. CASE t > current_term[v]
    BY <2>1 DEF Grant, step_down, CInv, ElectionTypeOK, NodeRole
  <2>2. CASE ~(t > current_term[v])
    BY <2>2, <1>1 DEF Grant, election, CInv, ElectionTypeOK
  <2> QED BY <2>1, <2>2
<1>3. ElectionTypeOK'
  BY <1>1, <1>2 DEF CInv, ElectionTypeOK
<1>4. OneBallot'
  BY <1>1 DEF CInv, OneBallot
<1>5. NoBallotAhead' /\ Remembered'
  BY <1>1, <1>2 DEF CInv, ElectionTypeOK, NoBallotAhead, Remembered, Ballot
<1>6. VotesAreBallots'
  BY <1>1, <1>2 DEF CInv, VotesAreBallots
<1>7. RepliesAreBallots'
  <2> SUFFICES ASSUME NEW q \in replies', q.granted, q.term \notin lost
               PROVE  /\ BallotOf(q.from, q.term, q.to) \in ballots'
                      /\ role'[q.to] = "Candidate" /\ q.term = current_term'[q.to]
                            => q.from \notin counted'[q.to]
    BY <1>1 DEF RepliesAreBallots
  <2>1. CASE q \in replies
    <3>1. q.to \in Nodes
      BY <2>1 DEF CInv, ElectionTypeOK, Reply
    <3> QED BY <2>1, <3>1, <1>1, <1>2 DEF CInv, RepliesAreBallots
  <2>2. CASE q = r
    <3>1. q.from = v /\ q.to = c /\ q.term = t /\ t \notin lost
      BY <2>2
    <3>2. ASSUME role'[c] = "Candidate", t = current_term'[c], v \in counted'[c] PROVE FALSE
      <4>1. role[c] = "Candidate" /\ counted'[c] = counted[c] /\ t = current_term[c]
        BY <1>2, <3>2
      <4>2. BallotOf(v, t, c) \in ballots
        BY <4>1, <3>1, <3>2 DEF CInv, VotesAreBallots
      <4> QED BY <4>2, <3>1, <1>1 DEF BallotOf
    <3> QED BY <3>1, <3>2, <1>1
  <2> QED BY <2>1, <2>2, <1>1
<1>8. ElectedByMajority'
  BY <1>1 DEF CInv, ElectedByMajority, Majority
<1> QED BY <1>3, <1>4, <1>5, <1>6, <1>7, <1>8 DEF CInv

\* An answer is added up once.
LEMMA DeliverCInv ==
    ASSUME CInv, ~Duplicates, NEW r \in replies, Deliver(r)
    PROVE  CInv'
<1> DEFINE n == r.to
           t == current_term[n]
<1>1. /\ n \in Nodes /\ r.from \in Nodes /\ r.term \in Nat /\ r.granted \in BOOLEAN
      /\ t \in Nat /\ replies' = replies \ {r} /\ ballots' = ballots
      /\ memory' = memory /\ lost' = lost
      /\ receive_vote(n, r.from, r.term, r.granted)
  BY DEF CInv, ElectionTypeOK, Reply, Deliver, crashes
<1>2. CASE r.term > t /\ step_down(n, r.term)
  BY <1>1, <1>2, StepDownCInv
<1>3. CASE UNCHANGED election
  BY <1>1, <1>3 DEF election, CInv, ElectionTypeOK, OneBallot, NoBallotAhead, Remembered, VotesAreBallots,
     RepliesAreBallots, ElectedByMajority, Majority
<1>4. CASE /\ role[n] = "Candidate" /\ r.term = t /\ r.granted
           /\ counted' = [counted EXCEPT ![n] = @ \union {r.from}]
           /\ UNCHANGED <<current_term, voted_for>>
           /\ IF votes_received[n] + 1 >= Majority
              THEN become_leader(n, t)
              ELSE /\ votes_received' = [votes_received EXCEPT ![n] = @ + 1]
                   /\ UNCHANGED <<role, leader_id, elected>>
  <2> DEFINE Q == counted[n] \union {r.from}
  <2>1. /\ counted[n] \in SUBSET Nodes
        /\ t \notin lost => /\ BallotOf(r.from, t, n) \in ballots
                            /\ r.from \notin counted[n]
                            /\ votes_received[n] = Cardinality(counted[n])
                            /\ \A v \in counted[n] : BallotOf(v, t, n) \in ballots
    BY <1>1, <1>4 DEF CInv, RepliesAreBallots, VotesAreBallots, ElectionTypeOK
  <2>2. IsFiniteSet(counted[n])
    BY <2>1, FS_Subset, ClusterAssumption
  <2>3. t \notin lost => Cardinality(Q) = votes_received[n] + 1
    BY <2>1, <2>2, FS_AddElement
  <2>4. /\ role' \in [Nodes -> NodeRole] /\ votes_received' \in [Nodes -> Nat]
        /\ counted' \in [Nodes -> SUBSET Nodes] /\ current_term' = current_term
        /\ \A m \in Nodes \ {n} : /\ role'[m] = role[m] /\ counted'[m] = counted[m]
                                  /\ votes_received'[m] = votes_received[m]
        /\ counted'[n] = Q
        /\ role'[n] = "Candidate" => votes_received'[n] = votes_received[n] + 1
    <3>1. CASE votes_received[n] + 1 >= Majority
      BY <3>1, <1>1, <1>4 DEF become_leader, CInv, ElectionTypeOK, NodeRole
    <3>2. CASE ~(votes_received[n] + 1 >= Majority)
      BY <3>2, <1>1, <1>4 DEF CInv, ElectionTypeOK
    <3> QED BY <3>1, <3>2
  <2>5. \/ elected' = elected
        \/ elected' = elected \union {<<n, t>>} /\ votes_received[n] + 1 >= Majority
    BY <1>4 DEF become_leader
  <2>6. ElectionTypeOK'
    <3>1. <<n, t>> \in Nodes \X Nat
      BY <1>1
    <3>2. elected' \subseteq Nodes \X Nat
      BY <3>1, <2>5 DEF CInv, ElectionTypeOK
    <3>3. /\ replies' \subseteq Reply /\ ballots' \subseteq Ballot /\ memory' \subseteq Ballot
          /\ lost' \subseteq Nat /\ current_term' \in [Nodes -> Nat]
      BY <1>1, <2>4 DEF CInv, ElectionTypeOK
    <3> QED BY <2>4, <3>2, <3>3 DEF ElectionTypeOK
  <2>7. OneBallot' /\ NoBallotAhead' /\ Remembered'
    BY <1>1, <2>4 DEF CInv, OneBallot, NoBallotAhead, Remembered
  <2>8. VotesAreBallots'
    <3> SUFFICES ASSUME NEW m \in Nodes, role'[m] = "Candidate", current_term'[m] \notin lost
                 PROVE  /\ votes_received'[m] = Cardinality(counted'[m])
                        /\ \A v \in counted'[m] : BallotOf(v, current_term'[m], m) \in ballots'
      BY <1>1 DEF VotesAreBallots
    <3>1. CASE m = n
      BY <3>1, <2>1, <2>3, <2>4, <1>1
    <3>2. CASE m # n
      BY <3>2, <2>4, <1>1 DEF CInv, VotesAreBallots
    <3> QED BY <3>1, <3>2
  <2>9. RepliesAreBallots'
    <3> SUFFICES ASSUME NEW q \in replies', q.granted, q.term \notin lost
                 PROVE  /\ BallotOf(q.from, q.term, q.to) \in ballots'
                        /\ role'[q.to] = "Candidate" /\ q.term = current_term'[q.to]
                              => q.from \notin counted'[q.to]
      BY <1>1 DEF RepliesAreBallots
    <3>1. q \in replies /\ q # r /\ q \in Reply /\ r \in Reply /\ q.to \in Nodes
      BY <1>1 DEF CInv, ElectionTypeOK, Reply
    <3>2. BallotOf(q.from, q.term, q.to) \in ballots'
      BY <3>1, <1>1 DEF CInv, RepliesAreBallots
    <3>3. CASE q.to # n
      BY <3>1, <3>2, <3>3, <2>4 DEF CInv, RepliesAreBallots
    <3>4. CASE q.to = n
      <4>1. q.term = t => q.from # r.from
        BY <3>1, <3>4, <1>4 DEF Reply
      <4>2. q.term = t => q.from \notin counted[n]
        BY <3>1, <3>4, <1>4 DEF CInv, RepliesAreBallots
      <4> QED BY <4>1, <4>2, <3>2, <3>4, <2>4
    <3> QED BY <3>3, <3>4
  <2>10. ElectedByMajority'
    <3> SUFFICES ASSUME NEW e \in elected', e[2] \notin lost
                 PROVE  \E S \in SUBSET Nodes :
                           /\ Cardinality(S) >= Majority
                           /\ \A v \in S : BallotOf(v, e[2], e[1]) \in ballots'
      BY <1>1 DEF ElectedByMajority, Majority
    <3>1. CASE e \in elected
      BY <3>1, <1>1 DEF CInv, ElectedByMajority
    <3>2. CASE e \notin elected
      <4>1. e[1] = n /\ e[2] = t /\ Cardinality(Q) >= Majority
        BY <3>2, <2>3, <2>5
      <4>2. Q \in SUBSET Nodes /\ \A v \in Q : BallotOf(v, t, n) \in ballots'
        BY <4>1, <2>1, <1>1
      <4> QED BY <4>1, <4>2
    <3> QED BY <3>1, <3>2
  <2> QED BY <2>6, <2>7, <2>8, <2>9, <2>10 DEF CInv
<1> QED BY <1>1, <1>2, <1>3, <1>4 DEF receive_vote

\* A restart: in a term in which it forgets no vote the node has given none.
LEMMA RestartCInv ==
    ASSUME CInv, NEW n \in Nodes, restart(n)
    PROVE  CInv'
<1>1. /\ ballots' = ballots /\ replies' = replies /\ elected' = elected
      /\ memory' = {b \in memory : b.from # n}
      /\ lost' = lost \union {b.term : b \in memory \ memory'}
  BY DEF restart
<1>2. lost \subseteq lost' /\ \A b \in memory : b.from = n => b.term \in lost'
  BY <1>1
<1>3. /\ role' \in [Nodes -> NodeRole] /\ votes_received' \in [Nodes -> Nat]
      /\ counted' \in [Nodes -> SUBSET Nodes] /\ current_term' \in [Nodes -> Nat]
      /\ role'[n] = "Follower"
      /\ \A m \in Nodes \ {n} : /\ role'[m] = role[m] /\ counted'[m] = counted[m]
                                /\ current_term'[m] = current_term[m]
                                /\ votes_received'[m] = votes_received[m]
  BY DEF restart, CInv, ElectionTypeOK, NodeRole
<1>4. ElectionTypeOK'
  <2>1. \A b \in memory : b.term \in Nat
    BY DEF CInv, ElectionTypeOK, Ballot
  <2>2. lost' \subseteq Nat /\ memory' \subseteq Ballot
    BY <1>1, <2>1 DEF CInv, ElectionTypeOK
  <2> QED BY <1>1, <1>3, <2>2 DEF CInv, ElectionTypeOK
<1>5. OneBallot' /\ Remembered'
  BY <1>1, <1>2 DEF CInv, OneBallot, Remembered
<1>6. NoBallotAhead'
  <2>1. \A b \in memory' : b \in memory /\ b.from \in Nodes \ {n}
    BY <1>1 DEF CInv, ElectionTypeOK, Ballot
  <2> QED BY <2>1, <1>3 DEF CInv, NoBallotAhead
<1>7. VotesAreBallots'
  BY <1>1, <1>2, <1>3 DEF CInv, VotesAreBallots
<1>8. RepliesAreBallots'
  <2>1. \A r \in replies : r.to \in Nodes
    BY DEF CInv, ElectionTypeOK, Reply
  <2> QED BY <2>1, <1>1, <1>2, <1>3 DEF CInv, RepliesAreBallots
<1>9. ElectedByMajority'
  BY <1>1, <1>2 DEF CInv, ElectedByMajority, Majority
<1> QED BY <1>4, <1>5, <1>6, <1>7, <1>8, <1>9 DEF CInv

\* Every step keeps the invariant.
LEMMA StepCInv == CInv /\ ~Duplicates /\ [Next]_vars => CInv'
<1> SUFFICES ASSUME CInv, ~Duplicates, [Next]_vars PROVE CInv'
  OBVIOUS
<1>1. ASSUME NEW n \in Nodes, start(n) \/ ElectionTimeout(n) PROVE CInv'
  BY <1>1, BeginElectionCInv DEF start, ElectionTimeout, crashes
<1>2. ASSUME NEW n \in Nodes, NEW m \in Nodes, HigherTerm(n, m) PROVE CInv'
  <2>1. current_term[m] \in Nat
    BY DEF CInv, ElectionTypeOK
  <2> QED BY <1>2, <2>1, StepDownCInv DEF HigherTerm, crashes
<1>3. ASSUME NEW b \in ballots, NEW v \in Nodes, Grant(v, b.to, b.term) PROVE CInv'
  <2>1. b.to \in Nodes /\ b.term \in Nat
    BY DEF CInv, ElectionTypeOK, Ballot
  <2> QED BY <1>3, <2>1, GrantCInv
<1>4. ASSUME NEW b \in ballots, NEW v \in Nodes, Refuse(v, b.to, b.term) PROVE CInv'
  <2> DEFINE r == [from |-> v, to |-> b.to, term |-> current_term[v], granted |-> FALSE]
  <2>1. /\ r \in Reply /\ ~r.granted /\ replies' = replies \union {r}
        /\ ballots' = ballots /\ memory' = memory /\ lost' = lost /\ UNCHANGED election
    BY <1>4 DEF Refuse, CInv, ElectionTypeOK, Ballot, Reply, crashes
  <2> HIDE DEF r
  <2> QED BY <2>1 DEF election, CInv, ElectionTypeOK, OneBallot, NoBallotAhead, Remembered, VotesAreBallots,
       RepliesAreBallots, ElectedByMajority, Majority
<1>5. ASSUME NEW r \in replies, Deliver(r) PROVE CInv'
  BY <1>5, DeliverCInv
<1>6. CASE UNCHANGED <<election, ballots, memory, lost, replies>>
  BY <1>6 DEF election, CInv, ElectionTypeOK, OneBallot, NoBallotAhead, Remembered, VotesAreBallots,
     RepliesAreBallots, ElectedByMajority, Majority
<1>7. ASSUME NEW n \in limits.replicas, NEW s \in SessionIds, replicate_session_state(n, s)
      PROVE  UNCHANGED <<election, ballots, memory, lost, replies>>
  BY <1>7 DEF replicate_session_state, crashes
<1>8. ASSUME NEW n \in limits.replicas, Apply(n) \/ create_snapshot(n) \/ restore_snapshot(n)
      PROVE  UNCHANGED <<election, ballots, memory, lost, replies>>
  BY <1>8 DEF Apply, create_snapshot, restore_snapshot, crashes
<1>9. UNCHANGED vars => UNCHANGED <<election, ballots, memory, lost, replies>>
  BY DEF vars, election, crashes
<1>10. ASSUME NEW n \in Nodes, restart(n) PROVE CInv'
  BY <1>10, RestartCInv
<1> QED BY <1>1, <1>2, <1>3, <1>4, <1>5, <1>6, <1>7, <1>8, <1>9, <1>10 DEF Next

\* In a cluster of any size no term of which no vote was forgotten in a restart has
\* two leaders, if the network delivers every answer at most once.
THEOREM ClusterElectionSafety == ~Duplicates => (Spec => []ElectionSafety)
<1> SUFFICES ASSUME ~Duplicates PROVE Spec => []ElectionSafety
  OBVIOUS
<1>1. Init => CInv
  BY InitCInv
<1>2. CInv /\ [Next]_vars => CInv'
  BY StepCInv
<1>3. CInv => ElectionSafety
  BY CInvImpliesElectionSafety
<1> QED BY <1>1, <1>2, <1>3, PTL DEF Spec

-----------------------------------------------------------------------------
(* Types, terms and the replicated log.  These hold for any network.       *)

\* Assigning one node's field.
LEMMA FieldUpdate ==
    ASSUME NEW S, NEW T, NEW f \in [S -> T], NEW x \in S, NEW y \in T
    PROVE  [f EXCEPT ![x] = y] \in [S -> T]
OBVIOUS

\* The answers on their way and the votes given name nodes and numbers.
LEMMA StepTypeOK == ASSUME TypeOK, [Next]_vars PROVE TypeOK'
<1>f. /\ role \in [Nodes -> NodeRole]
      /\ votes_received \in [Nodes -> Nat]
      /\ leader_id \in [Nodes -> Nodes \union {None}]
  BY DEF TypeOK
<1> USE DEF TypeOK
<1>1. ASSUME NEW n \in Nodes, begin_election(n) PROVE
         /\ role' \in [Nodes -> NodeRole]
         /\ current_term' \in [Nodes -> Nat]
         /\ voted_for' \in [Nodes -> Nodes \union {None}]
         /\ votes_received' \in [Nodes -> Nat]
         /\ leader_id' \in [Nodes -> Nodes \union {None}]
         /\ memory' \subseteq ballots' /\ ballots' \subseteq Ballot
         /\ counted' \in [Nodes -> SUBSET Nodes]
         /\ elected' \subseteq Nodes \X Nat
  <2>1. current_term[n] + 1 \in Nat
    OBVIOUS
  <2>2. /\ role' \in [Nodes -> NodeRole]
        /\ votes_received' \in [Nodes -> Nat]
        /\ leader_id' \in [Nodes -> Nodes \union {None}]
    <3>1. \/ /\ role' = [role EXCEPT ![n] = "Leader"]
             /\ leader_id' = [leader_id EXCEPT ![n] = n]
             /\ votes_received' = [votes_received EXCEPT ![n] = 0]
          \/ /\ role' = [role EXCEPT ![n] = "Candidate"]
             /\ votes_received' = [votes_received EXCEPT ![n] = 1]
             /\ leader_id' = [leader_id EXCEPT ![n] = None]
      BY <1>1 DEF begin_election, become_leader
    <3>2. role' \in [Nodes -> NodeRole]
      BY <1>f, <3>1 DEF NodeRole
    <3> HIDE DEF TypeOK
    <3>3. votes_received' \in [Nodes -> Nat]
      BY <1>f, <3>1, FieldUpdate
    <3>4. leader_id' \in [Nodes -> Nodes \union {None}]
      <4>1. n \in Nodes \union {None} /\ None \in Nodes \union {None}
        OBVIOUS
      <4> QED
        BY <1>f, <3>1, <4>1, FieldUpdate
    <3> QED
      BY <3>2, <3>3, <3>4
  <2>3. elected' \subseteq Nodes \X Nat
    <3>1. elected' \subseteq elected \union {<<n, current_term[n] + 1>>}
      BY <1>1 DEF begin_election, become_leader
    <3> QED
      BY <2>1, <3>1
  <2>4. memory' \subseteq ballots' /\ ballots' \subseteq Ballot
    BY <1>1, <2>1 DEF begin_election, Vote, Ballot
  <2> QED
    BY <1>1, <2>1, <2>2, <2>3, <2>4 DEF begin_election
<1>2. ASSUME NEW n \in Nodes, NEW t \in Nat, step_down(n, t) PROVE
         /\ role' \in [Nodes -> NodeRole]
         /\ current_term' \in [Nodes -> Nat]
         /\ voted_for' \in [Nodes -> Nodes \union {None}]
         /\ votes_received' \in [Nodes -> Nat]
         /\ leader_id' \in [Nodes -> Nodes \union {None}]
         /\ counted' \in [Nodes -> SUBSET Nodes]
         /\ elected' \subseteq Nodes \X Nat
  BY <1>2 DEF step_down, NodeRole
<1>3. ASSUME NEW n \in Nodes, start(n) \/ ElectionTimeout(n) PROVE TypeOK'
  <2>1. begin_election(n) /\ UNCHANGED <<replication, crashes, replies, snapshot>>
    BY <1>3 DEF start, ElectionTimeout
  <2>2. state' \in [Nodes -> NodeState]
    BY <1>3 DEF start, ElectionTimeout, NodeState
  <2> QED
    BY <1>1, <2>1, <2>2 DEF replication, crashes
<1>4. ASSUME NEW n \in Nodes, NEW m \in Nodes, HigherTerm(n, m) PROVE TypeOK'
  <2>1. current_term[m] \in Nat /\ step_down(n, current_term[m])
    BY <1>4 DEF HigherTerm
  <2> QED
    BY <1>2, <1>4, <2>1 DEF HigherTerm, replication, crashes
<1>5. ASSUME NEW b \in ballots, NEW v \in Nodes, Grant(v, b.to, b.term) PROVE TypeOK'
  <2>1. b.to \in Nodes /\ b.term \in Nat
    BY DEF Ballot
  <2>2. UNCHANGED <<state, replication, crashes, snapshot>>
    BY <1>5 DEF Grant
  <2>3. memory' \subseteq ballots' /\ ballots' \subseteq Ballot /\ replies' \subseteq Reply
    <3> DEFINE a == [from |-> v, term |-> b.term, to |-> b.to]
               r == [from |-> v, to |-> b.to, term |-> b.term, granted |-> TRUE]
    <3>1. a \in Ballot /\ r \in Reply
      BY <2>1 DEF Ballot, Reply
    <3>2. /\ ballots' = ballots \union {a} /\ memory' = memory \union {a}
          /\ replies' = replies \union {r}
      BY <1>5 DEF Grant, Vote
    <3> HIDE DEF a, r
    <3> QED
      BY <3>1, <3>2
  <2>4. CASE step_down(v, b.term)
    BY <1>2, <2>1, <2>2, <2>3, <2>4 DEF replication, crashes
  <2>5. CASE UNCHANGED election
    BY <2>2, <2>3, <2>5 DEF replication, crashes, election
  <2> QED
    BY <1>5, <2>4, <2>5 DEF Grant
<1>6. ASSUME NEW b \in ballots, NEW v \in Nodes, Refuse(v, b.to, b.term) PROVE TypeOK'
  <2>1. b.to \in Nodes
    BY DEF Ballot
  <2>2. replies' \subseteq Reply
    <3> DEFINE r == [from |-> v, to |-> b.to, term |-> current_term[v], granted |-> FALSE]
    <3>1. r \in Reply
      BY <2>1 DEF Reply
    <3>2. replies' = replies \union {r}
      BY <1>6 DEF Refuse
    <3> HIDE DEF r
    <3> QED
      BY <3>1, <3>2
  <2> QED
    BY <1>6, <2>2 DEF Refuse, election, replication, crashes
<1>7. ASSUME NEW r \in replies, Deliver(r) PROVE TypeOK'
  <2>1. r.to \in Nodes /\ r.from \in Nodes /\ r.term \in Nat
    BY DEF Reply
  <2>2. /\ UNCHANGED <<state, replication, ballots, memory, crashes, snapshot>>
        /\ replies' \subseteq replies
        /\ receive_vote(r.to, r.from, r.term, r.granted)
    BY <1>7 DEF Deliver
  <2>3. CASE step_down(r.to, r.term)
    BY <1>2, <2>1, <2>2, <2>3 DEF replication, crashes
  <2>4. CASE UNCHANGED election
    BY <2>2, <2>4 DEF replication, crashes, election
  <2>5. CASE /\ counted' = [counted EXCEPT ![r.to] = @ \union {r.from}]
             /\ UNCHANGED <<current_term, voted_for>>
             /\ IF votes_received[r.to] + 1 >= Majority
                THEN become_leader(r.to, current_term[r.to])
                ELSE /\ votes_received' = [votes_received EXCEPT ![r.to] = @ + 1]
                     /\ UNCHANGED <<role, leader_id, elected>>
    <3>1. /\ role' \in [Nodes -> NodeRole]
          /\ votes_received' \in [Nodes -> Nat]
          /\ leader_id' \in [Nodes -> Nodes \union {None}]
      <4> DEFINE n == r.to
      <4>1. \/ /\ role' = [role EXCEPT ![n] = "Leader"]
               /\ leader_id' = [leader_id EXCEPT ![n] = n]
               /\ votes_received' = [votes_received EXCEPT ![n] = 0]
            \/ /\ votes_received' = [votes_received EXCEPT ![n] = @ + 1]
               /\ role' = role /\ leader_id' = leader_id
        BY <2>5 DEF become_leader
      <4>2. role' \in [Nodes -> NodeRole]
        BY <1>f, <2>1, <4>1 DEF NodeRole
      <4> HIDE DEF TypeOK
      <4>3. votes_received' \in [Nodes -> Nat]
        BY <1>f, <2>1, <4>1
      <4>4. leader_id' \in [Nodes -> Nodes \union {None}]
        <5>1. r.to \in Nodes \union {None}
          BY <2>1
        <5> QED
          BY <1>f, <2>1, <4>1, <5>1, FieldUpdate
      <4> QED
        BY <4>2, <4>3, <4>4
    <3>2. elected' \subseteq elected \union {<<r.to, current_term[r.to]>>}
      BY <2>5 DEF become_leader
    <3>3. elected' \subseteq Nodes \X Nat
      BY <2>1, <3>2
    <3>4. counted' \in [Nodes -> SUBSET Nodes]
      BY <2>1, <2>5
    <3> QED
      BY <2>2, <2>5, <3>1, <3>3, <3>4 DEF replication, crashes
  <2> QED
    BY <2>2, <2>3, <2>4, <2>5 DEF receive_vote
<1>8. ASSUME NEW n \in limits.replicas, NEW s \in SessionIds, replicate_session_state(n, s)
      PROVE  TypeOK'
  <2>1. n \in Nodes
    BY ClusterAssumption
  <2>2. AppendIndex(n) \in Nat
    <3>1. log[n] \in Seq(LogEntry)
      BY <2>1
    <3>2. log[n] # <<>> => log[n][Len(log[n])] \in LogEntry
      BY <3>1
    <3> QED
      BY <3>1, <3>2 DEF AppendIndex, LastIndex, LogEntry
  <2>3. log' \in [Nodes -> Seq(LogEntry)]
    <3> DEFINE e == [term |-> current_term[n], index |-> AppendIndex(n), session |-> s,
                     value |-> Len(log[n]) + 1]
    <3>1. log[n] \in Seq(LogEntry) /\ current_term[n] \in Nat
      BY <2>1
    <3>2. e \in LogEntry
      BY <2>2, <3>1 DEF LogEntry
    <3>3. log' = [log EXCEPT ![n] = Append(@, e)]
      BY <1>8 DEF replicate_session_state
    <3> HIDE DEF e
    <3> QED
      BY <2>1, <3>1, <3>2, <3>3
  <2> QED
    BY <1>8, <2>3 DEF replicate_session_state, election, crashes
<1>9. ASSUME NEW n \in limits.replicas, Apply(n) PROVE TypeOK'
  <2>1. n \in Nodes
    BY ClusterAssumption
  <2>2. PICK i \in DOMAIN log[n] : apply_log_entry(n, log[n][i])
    BY <1>9 DEF Apply
  <2>3. log[n][i] \in LogEntry
    BY <2>1, <2>2
  <2>4. /\ log[n][i].index \in Nat /\ log[n][i].value \in Nat
        /\ log[n][i].session \in SessionIds
    BY <2>3 DEF LogEntry
  <2>5. session_states' \in [Nodes -> Tables]
    BY <2>1, <2>2, <2>4 DEF apply_log_entry, Upsert, Tables
  <2>6. last_applied' \in [Nodes -> Nat] /\ commit_index' \in [Nodes -> Nat]
    BY <2>1, <2>2, <2>4 DEF apply_log_entry, Later
  <2> QED
    BY <1>9, <2>5, <2>6 DEF Apply, election, crashes
<1>10. ASSUME NEW n \in limits.replicas, create_snapshot(n) \/ restore_snapshot(n) PROVE TypeOK'
  <2>1. n \in Nodes
    BY ClusterAssumption
  <2>2. CASE create_snapshot(n)
    BY <2>1, <2>2 DEF create_snapshot, election, replication, crashes
  <2>3. CASE restore_snapshot(n)
    <3>1. EmptyTable \in Tables
      BY DEF EmptyTable, Tables
    <3>2. \A table \in snapshot : \A sessions \in SUBSET SessionIds : Shortened(table, sessions) \in Tables
      BY DEF Shortened, Tables
    <3>3. \E t \in Tables : session_states' = [session_states EXCEPT ![n] = t]
      <4>1. PICK table \in snapshot :
              \/ session_states' = [session_states EXCEPT ![n] = EmptyTable]
              \/ \E sessions \in SUBSET SessionIds :
                   session_states' = [session_states EXCEPT ![n] = Shortened(table, sessions)]
        BY <2>3, Zenon DEF restore_snapshot
      <4>2. CASE session_states' = [session_states EXCEPT ![n] = EmptyTable]
        BY <4>2, <3>1, Zenon
      <4>3. CASE \E sessions \in SUBSET SessionIds :
                   session_states' = [session_states EXCEPT ![n] = Shortened(table, sessions)]
        BY <4>3, <3>2, Zenon
      <4> QED
        BY <4>1, <4>2, <4>3
    <3>4. session_states \in [Nodes -> Tables]
      OBVIOUS
    <3>5. session_states' \in [Nodes -> Tables]
      BY <2>1, <3>3, <3>4
    <3>6. state' \in [Nodes -> NodeState]
      BY <2>1, <2>3 DEF restore_snapshot, NodeState
    <3> QED
      BY <2>1, <2>3, <3>5, <3>6 DEF restore_snapshot, election, crashes
  <2> QED
    BY <1>10, <2>2, <2>3
<1>11. ASSUME NEW n \in Nodes, restart(n) PROVE TypeOK'
  <2>1. lost' \subseteq Nat /\ memory' \subseteq ballots' /\ ballots' \subseteq Ballot
    <3>1. \A b \in memory : b.term \in Nat
      BY DEF Ballot
    <3> QED
      BY <1>11, <3>1 DEF restart
  <2>2. log' \in [Nodes -> Seq(LogEntry)] /\ session_states' \in [Nodes -> Tables]
    BY <1>11 DEF restart, EmptyTable, Tables
  <2>3. /\ role' \in [Nodes -> NodeRole]
        /\ state' \in [Nodes -> NodeState]
        /\ current_term' \in [Nodes -> Nat]
        /\ voted_for' \in [Nodes -> Nodes \union {None}]
        /\ votes_received' \in [Nodes -> Nat]
        /\ leader_id' \in [Nodes -> Nodes \union {None}]
        /\ counted' \in [Nodes -> SUBSET Nodes]
        /\ commit_index' \in [Nodes -> Nat]
        /\ last_applied' \in [Nodes -> Nat]
    BY <1>11 DEF restart, NodeRole, NodeState
  <2>4. /\ restarts' \in Nat /\ restored' \subseteq Nodes
        /\ UNCHANGED <<limits, replies, elected, snapshot>>
    BY <1>11 DEF restart
  <2> QED
    BY <2>1, <2>2, <2>3, <2>4
<1>12. CASE UNCHANGED vars
  BY <1>12 DEF vars, crashes
<1> QED
  BY <1>3, <1>4, <1>5, <1>6, <1>7, <1>8, <1>9, <1>10, <1>11, <1>12 DEF Next

\* Types of a node's fields, of the votes and of the answers on their way.
THEOREM ClusterTypeCorrect == Spec => []TypeOK
<1>1. Init => TypeOK
  BY DEF Init, TypeOK, NodeRole, NodeState, Tables, EmptyTable
<1>2. TypeOK /\ [Next]_vars => TypeOK'
  BY StepTypeOK
<1> QED
  BY <1>1, <1>2, PTL DEF Spec

\* What the operations of elections do to the replicated log: nothing, except that
\* the term they leave a node in is not below its own.
LEMMA ElectionLeavesLog ==
    ASSUME TypeOK,
           \/ \E n \in Nodes : start(n) \/ ElectionTimeout(n)
           \/ \E n, m \in Nodes : HigherTerm(n, m)
           \/ \E b \in ballots, v \in Nodes : Grant(v, b.to, b.term) \/ Refuse(v, b.to, b.term)
           \/ \E r \in replies : Deliver(r)
    PROVE  /\ UNCHANGED replication
           /\ \A n \in Nodes : current_term'[n] >= current_term[n]
<1>t. current_term \in [Nodes -> Nat] /\ ballots \subseteq Ballot /\ replies \subseteq Reply
  BY DEF TypeOK
<1>1. ASSUME NEW n \in Nodes, start(n) \/ ElectionTimeout(n)
      PROVE  UNCHANGED replication /\ \A k \in Nodes : current_term'[k] >= current_term[k]
  <2>1. UNCHANGED replication /\ current_term' = [current_term EXCEPT ![n] = current_term[n] + 1]
    BY <1>1 DEF start, ElectionTimeout, begin_election
  <2> QED
    BY <1>t, <2>1
<1>2. ASSUME NEW n \in Nodes, NEW t \in Nat, t >= current_term[n], step_down(n, t)
      PROVE  \A k \in Nodes : current_term'[k] >= current_term[k]
  BY <1>2, <1>t DEF step_down
<1>3. ASSUME NEW n \in Nodes, NEW m \in Nodes, HigherTerm(n, m)
      PROVE  UNCHANGED replication /\ \A k \in Nodes : current_term'[k] >= current_term[k]
  BY <1>2, <1>3, <1>t DEF HigherTerm
<1>4. ASSUME UNCHANGED election
      PROVE  \A k \in Nodes : current_term'[k] >= current_term[k]
  BY <1>4, <1>t DEF election
<1>5. ASSUME NEW b \in ballots, NEW v \in Nodes, Grant(v, b.to, b.term) \/ Refuse(v, b.to, b.term)
      PROVE  UNCHANGED replication /\ \A k \in Nodes : current_term'[k] >= current_term[k]
  <2>1. b.term \in Nat
    BY <1>t DEF Ballot
  <2> QED
    BY <1>2, <1>4, <1>5, <2>1 DEF Grant, Refuse
<1>6. ASSUME NEW r \in replies, Deliver(r)
      PROVE  UNCHANGED replication /\ \A k \in Nodes : current_term'[k] >= current_term[k]
  <2>1. r.to \in Nodes /\ r.term \in Nat
    BY <1>t DEF Reply
  <2>2. UNCHANGED replication /\ receive_vote(r.to, r.from, r.term, r.granted)
    BY <1>6 DEF Deliver
  <2>3. CASE UNCHANGED <<current_term, voted_for>>
    BY <1>t, <2>2, <2>3
  <2> QED
    BY <1>2, <1>4, <1>t, <2>1, <2>2, <2>3 DEF receive_vote
<1> QED
  BY <1>1, <1>3, <1>5, <1>6

\* No step, a late answer included, takes a running node back to an earlier term.
THEOREM ClusterTermsMonotone == Spec => TermsNeverGoBack
<1> DEFINE Forward == \A n \in Nodes :
               current_term'[n] >= current_term[n] \/ state'[n] = "Joining"
<1>1. TypeOK /\ [Next]_vars => [Forward]_vars
  <2> SUFFICES ASSUME TypeOK, Next PROVE Forward
    OBVIOUS
  <2>t. current_term \in [Nodes -> Nat] /\ state \in [Nodes -> NodeState]
    BY DEF TypeOK
  <2>1. ASSUME NEW n \in Nodes, restart(n) PROVE Forward
    BY <2>1, <2>t DEF restart
  <2>2. ASSUME NEW n \in limits.replicas, NEW s \in SessionIds, replicate_session_state(n, s)
        PROVE  current_term' = current_term
    BY <2>2 DEF replicate_session_state, election
  <2>3. ASSUME NEW n \in limits.replicas, Apply(n) \/ create_snapshot(n) \/ restore_snapshot(n)
        PROVE  current_term' = current_term
    BY <2>3 DEF Apply, create_snapshot, restore_snapshot, election
  <2>4. current_term' = current_term => Forward
    BY <2>t
  <2>5. (\A n \in Nodes : current_term'[n] >= current_term[n]) => Forward
    OBVIOUS
  <2> HIDE DEF Forward
  <2> QED
    BY <2>1, <2>2, <2>3, <2>4, <2>5, ElectionLeavesLog DEF Next
<1> QED
  BY <1>1, ClusterTypeCorrect, PTL DEF Spec, TermsNeverGoBack

\* The entries applied are a prefix of the log.
AppliedPrefix ==
    \A n \in Nodes : last_applied[n] <= Len(log[n]) /\ commit_index[n] = last_applied[n]

\* A session's row of a table is the value of the session's last entry among the
\* first k of the log l, or 0.
RowIs(row, l, k, s) ==
    \/ row = 0 /\ \A i \in 1 .. k : l[i].session # s
    \/ \E i \in 1 .. k :
          /\ l[i].session = s
          /\ \A j \in 1 .. k : l[j].session = s => j <= i
          /\ row = l[i].value

TablesFollow ==
    \A n \in Nodes \ restored : \A s \in SessionIds :
        RowIs(session_states[n][s], log[n], last_applied[n], s)

\* The inductive invariant of replication.
RInv ==
    /\ TypeOK
    /\ LogOrdered
    /\ AppliedPrefix
    /\ TablesFollow

\* The last entry of a log has the length of the log as its index.
LEMMA LastIndexIsLen ==
    ASSUME TypeOK, LogOrdered, NEW n \in Nodes PROVE LastIndex(n) = Len(log[n])
<1>1. log[n] \in Seq(LogEntry)
  BY DEF TypeOK
<1>2. log[n] # <<>> => Len(log[n]) \in DOMAIN log[n]
  BY <1>1
<1> QED
  BY <1>1, <1>2 DEF LogOrdered, LastIndex

\* A row depends on the first k entries only.
LEMMA RowOfPrefix ==
    ASSUME NEW row, NEW l, NEW m, NEW k \in Nat, NEW s,
           \A i \in 1 .. k : m[i] = l[i], RowIs(row, l, k, s)
    PROVE  RowIs(row, m, k, s)
BY DEF RowIs

\* Upsert moves the table on by one entry.
LEMMA RowAfterUpsert ==
    ASSUME NEW table \in Tables, NEW l, NEW k \in Nat, NEW s \in SessionIds,
           l[k + 1].session \in SessionIds, RowIs(table[s], l, k, s)
    PROVE  RowIs(Upsert(table, l[k + 1])[s], l, k + 1, s)
<1>1. CASE l[k + 1].session = s
  <2>1. Upsert(table, l[k + 1])[s] = l[k + 1].value
    BY <1>1 DEF Upsert, Tables
  <2>2. k + 1 \in 1 .. k + 1 /\ \A j \in 1 .. k + 1 : j <= k + 1
    OBVIOUS
  <2> QED
    BY <1>1, <2>1, <2>2 DEF RowIs
<1>2. CASE l[k + 1].session # s
  <2>1. Upsert(table, l[k + 1])[s] = table[s]
    BY <1>2 DEF Upsert, Tables
  <2>2. \A i \in 1 .. k + 1 : i = k + 1 \/ i \in 1 .. k
    OBVIOUS
  <2>3. \A i \in 1 .. k : i \in 1 .. k + 1
    OBVIOUS
  <2> QED
    BY <1>2, <2>1, <2>2, <2>3 DEF RowIs
<1> QED
  BY <1>1, <1>2

\* Every step keeps the log in order and the table in step with it.
LEMMA StepRInv == ASSUME RInv, [Next]_vars PROVE RInv'
<1>t. TypeOK /\ LogOrdered /\ AppliedPrefix /\ TablesFollow
  BY DEF RInv
<1>u. TypeOK'
  BY <1>t, StepTypeOK
<1>f. /\ current_term \in [Nodes -> Nat] /\ log \in [Nodes -> Seq(LogEntry)]
      /\ last_applied \in [Nodes -> Nat] /\ commit_index \in [Nodes -> Nat]
      /\ session_states \in [Nodes -> Tables]
      /\ limits.replicas \subseteq Nodes
  BY <1>t, ClusterAssumption DEF TypeOK
<1>1. ASSUME UNCHANGED replication, \A n \in Nodes : current_term'[n] >= current_term[n]
      PROVE  RInv'
  <2>1. UNCHANGED <<log, commit_index, last_applied, session_states, restored>>
    BY <1>1 DEF replication
  <2>2. \A n \in Nodes : \A i \in DOMAIN log[n] : log[n][i].term \in Nat
    <3> SUFFICES ASSUME NEW n \in Nodes, NEW i \in DOMAIN log[n]
                 PROVE  log[n][i].term \in Nat
      OBVIOUS
    <3>1. log[n] \in Seq(LogEntry)
      BY <1>f
    <3>2. log[n][i] \in LogEntry
      BY <3>1
    <3> QED
      BY <3>2 DEF LogEntry
  <2>3. current_term' \in [Nodes -> Nat]
    BY <1>u DEF TypeOK
  <2>4. LogOrdered'
    <3> SUFFICES ASSUME NEW n \in Nodes, NEW i \in DOMAIN log[n]
                 PROVE  /\ log[n][i].index = i
                        /\ log[n][i].term <= current_term'[n]
                        /\ i > 1 => log[n][i - 1].term <= log[n][i].term
      BY <2>1 DEF LogOrdered
    <3>1. log[n][i].term <= current_term[n] /\ current_term[n] <= current_term'[n]
      BY <1>t, <1>1 DEF LogOrdered
    <3>2. log[n][i].term \in Nat /\ current_term[n] \in Nat /\ current_term'[n] \in Nat
      BY <1>f, <2>2, <2>3
    <3> QED
      BY <1>t, <3>1, <3>2 DEF LogOrdered
  <2>5. AppliedPrefix' /\ TablesFollow'
    BY <1>t, <2>1 DEF AppliedPrefix, TablesFollow, RowIs
  <2> QED
    BY <1>u, <2>4, <2>5 DEF RInv
<1>2. ASSUME NEW n \in limits.replicas, NEW s \in SessionIds, replicate_session_state(n, s)
      PROVE  RInv'
  <2> DEFINE e == [term |-> current_term[n], index |-> AppendIndex(n), session |-> s,
                   value |-> Len(log[n]) + 1]
  <2>1. /\ n \in Nodes /\ log' = [log EXCEPT ![n] = Append(@, e)]
        /\ UNCHANGED <<current_term, commit_index, last_applied, session_states, restored>>
    BY <1>2, <1>f DEF replicate_session_state, election
  <2>2. log[n] \in Seq(LogEntry) /\ Len(log[n]) \in Nat /\ DOMAIN log[n] = 1 .. Len(log[n])
    BY <1>f, <2>1
  <2>3. e.term = current_term[n] /\ e.index = Len(log[n]) + 1 /\ current_term[n] \in Nat
    BY <1>f, <1>t, <2>1, <2>2, LastIndexIsLen DEF AppendIndex
  <2> HIDE DEF e
  <2>4. /\ \A m \in Nodes : m # n => log'[m] = log[m]
        /\ log'[n] = Append(log[n], e)
    BY <1>f, <2>1
  <2>5. /\ Len(log'[n]) = Len(log[n]) + 1
        /\ DOMAIN log'[n] = 1 .. Len(log[n]) + 1
        /\ log'[n][Len(log[n]) + 1] = e
        /\ \A i \in 1 .. Len(log[n]) : log'[n][i] = log[n][i]
    BY <2>2, <2>4
  <2>6. LogOrdered'
    <3> SUFFICES ASSUME NEW m \in Nodes, NEW i \in DOMAIN log'[m]
                 PROVE  /\ log'[m][i].index = i
                        /\ log'[m][i].term <= current_term[m]
                        /\ i > 1 => log'[m][i - 1].term <= log'[m][i].term
      BY <2>1 DEF LogOrdered
    <3>1. CASE m # n
      BY <1>t, <2>4, <3>1 DEF LogOrdered
    <3>2. CASE m = n /\ i \in 1 .. Len(log[n])
      <4>1. i > 1 => i - 1 \in 1 .. Len(log[n])
        BY <2>2, <3>2
      <4> QED
        BY <1>t, <2>2, <2>5, <3>2, <4>1, SMTT(30) DEF LogOrdered
    <3>3. CASE m = n /\ i = Len(log[n]) + 1
      <4>1. i > 1 => /\ i - 1 = Len(log[n]) /\ Len(log[n]) \in 1 .. Len(log[n])
                     /\ log[n][Len(log[n])].term <= current_term[n]
        BY <1>t, <2>1, <2>2, <3>3 DEF LogOrdered
      <4> QED
        BY <2>3, <2>5, <3>3, <4>1, SMTT(30)
    <3> QED
      BY <2>2, <2>5, <3>1, <3>2, <3>3
  <2>7. AppliedPrefix'
    BY <1>t, <1>f, <2>1, <2>2, <2>4, <2>5 DEF AppliedPrefix
  <2>8. TablesFollow'
    <3> SUFFICES ASSUME NEW m \in Nodes \ restored, NEW r \in SessionIds
                 PROVE  RowIs(session_states[m][r], log'[m], last_applied[m], r)
      BY <2>1 DEF TablesFollow
    <3>1. RowIs(session_states[m][r], log[m], last_applied[m], r) /\ last_applied[m] \in Nat
      BY <1>t, <1>f DEF TablesFollow
    <3>2. \A i \in 1 .. last_applied[m] : log'[m][i] = log[m][i]
      <4>1. CASE m # n
        BY <2>4, <4>1
      <4>2. CASE m = n
        <5>1. last_applied[n] \in Nat /\ last_applied[n] <= Len(log[n])
          BY <1>t, <1>f, <2>1 DEF AppliedPrefix
        <5>2. \A i \in 1 .. last_applied[n] : i \in 1 .. Len(log[n])
          BY <2>2, <5>1
        <5> QED
          BY <2>5, <4>2, <5>2
      <4> QED
        BY <4>1, <4>2
    <3> QED
      BY <3>1, <3>2, RowOfPrefix
  <2> QED
    BY <1>u, <2>6, <2>7, <2>8 DEF RInv
<1>3. ASSUME NEW n \in limits.replicas, Apply(n) PROVE RInv'
  <2>1. n \in Nodes /\ UNCHANGED <<current_term, log, restored>>
    BY <1>3, <1>f DEF Apply, election
  <2> DEFINE k == last_applied[n]
             e == log[n][k + 1]
  <2>2. k \in Nat /\ k + 1 \in DOMAIN log[n] /\ e.index = k + 1 /\ apply_log_entry(n, e)
    BY <1>3, <1>f, <1>t, <2>1 DEF Apply, LogOrdered
  <2>3. e \in LogEntry /\ k + 1 <= Len(log[n])
    BY <1>f, <2>1, <2>2
  <2>4. /\ session_states' = [session_states EXCEPT ![n] = Upsert(@, e)]
        /\ last_applied' = [last_applied EXCEPT ![n] = k + 1]
        /\ commit_index' = [commit_index EXCEPT ![n] = k + 1]
    <3>1. Later(k, k + 1) = k + 1
      BY <2>2 DEF Later
    <3>2. commit_index[n] = k
      BY <1>t, <2>1 DEF AppliedPrefix
    <3>3. /\ session_states' = [session_states EXCEPT ![n] = Upsert(@, e)]
          /\ last_applied' = [last_applied EXCEPT ![n] = Later(k, e.index)]
          /\ commit_index' = [commit_index EXCEPT ![n] = Later(commit_index[n], e.index)]
      BY <2>2 DEF apply_log_entry
    <3> HIDE DEF k, e
    <3> QED
      BY <2>2, <3>1, <3>2, <3>3
  <2>5. LogOrdered'
    BY <1>t, <2>1 DEF LogOrdered
  <2>6. AppliedPrefix'
    BY <1>t, <1>f, <2>1, <2>2, <2>3, <2>4 DEF AppliedPrefix
  <2>7. TablesFollow'
    <3> SUFFICES ASSUME NEW m \in Nodes \ restored, NEW r \in SessionIds
                 PROVE  RowIs(session_states'[m][r], log[m], last_applied'[m], r)
      BY <2>1 DEF TablesFollow
    <3>1. RowIs(session_states[m][r], log[m], last_applied[m], r)
      BY <1>t DEF TablesFollow
    <3>2. CASE m # n
      BY <1>f, <2>4, <3>1, <3>2
    <3>3. CASE m = n
      <4>1. session_states[n] \in Tables /\ e.session \in SessionIds
        BY <1>f, <2>1, <2>3 DEF LogEntry
      <4>2. RowIs(Upsert(session_states[n], e)[r], log[n], k + 1, r)
        BY <2>2, <3>1, <3>3, <4>1, RowAfterUpsert
      <4>3. session_states'[n] = Upsert(session_states[n], e) /\ last_applied'[n] = k + 1
        BY <1>f, <2>1, <2>4
      <4> QED
        BY <3>3, <4>2, <4>3
    <3> QED
      BY <3>2, <3>3
  <2> QED
    BY <1>u, <2>5, <2>6, <2>7 DEF RInv
<1>4. ASSUME NEW n \in limits.replicas, create_snapshot(n) PROVE RInv'
  BY <1>1, <1>4, <1>f DEF create_snapshot, election
<1>5. ASSUME NEW n \in limits.replicas, restore_snapshot(n) PROVE RInv'
  <2>1. /\ UNCHANGED <<current_term, log, commit_index, last_applied>>
        /\ restored' = restored \union {n}
        /\ \A m \in Nodes : m # n => session_states'[m] = session_states[m]
    BY <1>5, <1>f DEF restore_snapshot, election
  <2>2. LogOrdered' /\ AppliedPrefix'
    BY <1>t, <2>1 DEF LogOrdered, AppliedPrefix
  <2>3. TablesFollow'
    <3> SUFFICES ASSUME NEW m \in Nodes \ restored', NEW r \in SessionIds
                 PROVE  RowIs(session_states'[m][r], log[m], last_applied[m], r)
      BY <2>1 DEF TablesFollow
    <3> QED
      BY <1>t, <2>1 DEF TablesFollow
  <2> QED
    BY <1>u, <2>2, <2>3 DEF RInv
<1>6. ASSUME NEW n \in Nodes, restart(n) PROVE RInv'
  <2>1. /\ \A m \in Nodes : m # n =>
              /\ current_term'[m] = current_term[m] /\ log'[m] = log[m]
              /\ commit_index'[m] = commit_index[m] /\ last_applied'[m] = last_applied[m]
              /\ session_states'[m] = session_states[m]
        /\ log'[n] = <<>> /\ commit_index'[n] = 0 /\ last_applied'[n] = 0
        /\ session_states'[n] = EmptyTable
        /\ restored' = restored \ {n}
    BY <1>6, <1>f DEF restart
  <2>2. LogOrdered' /\ AppliedPrefix'
    BY <1>t, <2>1 DEF LogOrdered, AppliedPrefix
  <2>3. TablesFollow'
    <3> SUFFICES ASSUME NEW m \in Nodes \ restored', NEW r \in SessionIds
                 PROVE  RowIs(session_states'[m][r], log'[m], last_applied'[m], r)
      BY DEF TablesFollow
    <3>1. CASE m # n
      BY <1>t, <2>1, <3>1 DEF TablesFollow
    <3>2. CASE m = n
      BY <2>1, <3>2 DEF RowIs, EmptyTable
    <3> QED
      BY <3>1, <3>2
  <2> QED
    BY <1>u, <2>2, <2>3 DEF RInv
<1>7. CASE UNCHANGED vars
  BY <1>1, <1>7, <1>f DEF vars, replication
<1> QED
  BY <1>1, <1>2, <1>3, <1>4, <1>5, <1>6, <1>7, <1>t, ElectionLeavesLog DEF Next

\* The invariant of replication holds for every cluster and every network.
THEOREM ReplicationInvariant == Spec => []RInv
<1>1. Init => RInv
  <2> SUFFICES ASSUME Init PROVE RInv
    OBVIOUS
  <2>1. TypeOK
    BY DEF Init, TypeOK, NodeRole, NodeState, Tables, EmptyTable
  <2>2. LogOrdered /\ AppliedPrefix
    BY DEF Init, LogOrdered, AppliedPrefix
  <2>3. TablesFollow
    BY DEF Init, TablesFollow, RowIs, EmptyTable
  <2> QED
    BY <2>1, <2>2, <2>3 DEF RInv
<1>2. RInv /\ [Next]_vars => RInv'
  BY StepRInv
<1> QED
  BY <1>1, <1>2, PTL DEF Spec

\* A node numbers its log without gaps and with terms that never decrease, however
\* elections and appends are interleaved.
THEOREM ClusterLogOrdered == Spec => []LogOrdered
<1>1. RInv => LogOrdered
  BY DEF RInv
<1> QED
  BY <1>1, ReplicationInvariant, PTL

\* pending_entries() counts what is left to apply, and a table that came from the
\* log alone holds for each session the last state applied.
THEOREM ClusterTableFollowsLog == Spec => []TableFollowsLog
<1>1. RInv => TableFollowsLog
  <2> SUFFICES ASSUME RInv, NEW n \in Nodes \ restored
               PROVE  LET done == 1 .. last_applied[n]
                          last(s) == {i \in done : log[n][i].session = s /\
                                        \A j \in done : log[n][j].session = s => j <= i} IN
                      /\ pending_entries(n) = Len(log[n]) - Cardinality(done)
                      /\ \A s \in SessionIds :
                            session_states[n][s] \in
                                IF last(s) = {} THEN {0} ELSE {log[n][i].value : i \in last(s)}
    BY DEF TableFollowsLog
  <2> DEFINE done == 1 .. last_applied[n]
             last(s) == {i \in done : log[n][i].session = s /\
                           \A j \in done : log[n][j].session = s => j <= i}
  <2>1. /\ last_applied[n] \in Nat /\ Len(log[n]) \in Nat
        /\ last_applied[n] <= Len(log[n]) /\ commit_index[n] = last_applied[n]
    BY DEF RInv, TypeOK, AppliedPrefix
  <2>2. LastIndex(n) = Len(log[n])
    BY LastIndexIsLen DEF RInv
  <2>3. Cardinality(done) = last_applied[n]
    BY <2>1, FS_Interval
  <2>4. pending_entries(n) = Len(log[n]) - Cardinality(done)
    BY <2>1, <2>2, <2>3 DEF pending_entries
  <2>5. ASSUME NEW s \in SessionIds
        PROVE  session_states[n][s] \in
                   IF last(s) = {} THEN {0} ELSE {log[n][i].value : i \in last(s)}
    <3>1. RowIs(session_states[n][s], log[n], last_applied[n], s)
      BY DEF RInv, TablesFollow
    <3>2. CASE session_states[n][s] = 0 /\ \A i \in done : log[n][i].session # s
      BY <3>2
    <3>3. CASE \E i \in done : /\ log[n][i].session = s
                               /\ \A j \in done : log[n][j].session = s => j <= i
                               /\ session_states[n][s] = log[n][i].value
      BY <3>3
    <3> QED
      BY <3>1, <3>2, <3>3 DEF RowIs
  <2> QED
    BY <2>4, <2>5
<1> QED
  BY <1>1, ReplicationInvariant, PTL
=============================================================================
