--------------------------- MODULE FixtLinkProofs ---------------------------
(***************************************************************************)
(* Two FIXT services on one Aeron stream, for any set of versions, any two *)
(* configurations, any messages and any order of cuts, dials, resets, late *)
(* frames and refusals: the queue both directions share keeps every frame  *)
(* in its turn, and versions are read as they were meant.                  *)
(***************************************************************************)
EXTENDS FixtLink, SessionProofs, SequenceTheorems, WellFoundedInduction

-----------------------------------------------------------------------------
(* The inductive invariant                                                 *)

Versions == ApplVerID \cup {None, Junk}

\* NEXT_ENDPOINT_ID gave each service its own number.
Id(p) == IF p = "ini" THEN 1 ELSE 2

Frames == [sender : {1, 2}, payload : Payloads]

\* What a service with configuration c[p] puts in a frame: its own default in a
\* Logon, and in any message the version it means.
Honest(f, c) ==
    \A p \in Services : f.sender = Id(p) =>
        /\ f.payload.type = "A" => f.payload.ver = c[p].default
        /\ f.payload.meant = IF f.payload.ver = None THEN c[p].default ELSE f.payload.ver

From(q, p) == {i \in 1 .. Len(q) : q[i].sender = Id(p)}

\* In queue q are the frames p has sent, s[p], without those taken, t[Other(p)].
InTurn(q, p, s, t) ==
    /\ t[Other(p)] <= s[p]
    /\ \A i \in From(q, p) : q[i].payload.nth \in t[Other(p)] .. s[p] - 1
    /\ \A n \in t[Other(p)] .. s[p] - 1 : \E i \in From(q, p) : q[i].payload.nth = n
    /\ \A i, j \in From(q, p) : i < j => q[i].payload.nth < q[j].payload.nth

BusOK(q, s, t, c) ==
    /\ q \in Seq(Frames)
    /\ s \in [Services -> Nat] /\ t \in [Services -> Nat]
    /\ \A i \in 1 .. Len(q) : Honest(q[i], c)
    /\ \A p \in Services : InTurn(q, p, s, t)

\* A version is negotiated on a connection only, and is the other's default; the
\* attempts are within the limit, if the configuration sets one.
Sound(f, e, p, c) ==
    /\ f.negotiated # None =>
          /\ e.connected
          /\ f.negotiated = c[Other(p)].default
          /\ Acceptable(c[p], f.negotiated)
    /\ c[p].max_attempts > 0 => f.attempts <= c[p].max_attempts

\* What p has accepted, it has read as it was meant.
ReadAsMeant(r, p, c) ==
    /\ r.ver = r.meant
    /\ r.ver = None \/ Acceptable(c[p], r.ver)

LInv ==
    /\ config \in Configs
    /\ fs \in [Services -> FixtSessions]
    /\ ep \in [Services -> Endpoints]
    /\ gap \in [Services -> Nat]
    /\ read \in [Services -> [ver : Versions, meant : Versions]]
    /\ \A p \in Services :
          ep[p].id = Id(p) /\ Sound(fs[p], ep[p], p, config) /\ ReadAsMeant(read[p], p, config)
    /\ BusOK(frames, sent, taken, config)

-----------------------------------------------------------------------------
(* The queue                                                               *)

\* The two services are each other's other.
LEMMA Others ==
    /\ \A p \in Services : Other(p) \in Services /\ Other(Other(p)) = p /\ Other(p) # p
    /\ \A p, r \in Services : Id(p) = Id(r) => p = r
    /\ \A p \in Services : Id(p) \in {1, 2}
    /\ \A p \in Services, d \in {1, 2} : d # Id(p) => d = Id(Other(p))
BY DEF Services, Other, Id

\* recv() can find the oldest frame.
LEMMA OldestExists ==
    ASSUME NEW S, S \subseteq Nat, S # {}
    PROVE  \E i \in S : \A j \in S : i <= j
<1> DEFINE R == OpToRel(<, Nat)
<1>1. IsWellFoundedOn(R, Nat)
    BY NatLessThanWellFounded
<1>2. \A j, i \in Nat : <<j, i>> \notin R => i <= j
    BY DEF OpToRel
<1> HIDE DEF R
<1>3. PICK i \in S : \A j \in S : ~(<<j, i>> \in R)
    BY <1>1, WFMin
<1> QED BY <1>2, <1>3

\* A sequence with one element taken out.
LEMMA TakenOut ==
    ASSUME NEW S, NEW q \in Seq(S), NEW k \in 1 .. Len(q)
    PROVE  LET r == SubSeq(q, 1, k - 1) \o SubSeq(q, k + 1, Len(q)) IN
           /\ r \in Seq(S)
           /\ Len(r) = Len(q) - 1
           /\ \A i \in 1 .. Len(r) : r[i] = IF i < k THEN q[i] ELSE q[i + 1]
<1> DEFINE x == SubSeq(q, 1, k - 1)
           y == SubSeq(q, k + 1, Len(q))
           r == x \o y
<1>1. x \in Seq(S) /\ Len(x) = k - 1 /\ (\A i \in 1 .. k - 1 : x[i] = q[i])
    OBVIOUS
<1>2. y \in Seq(S) /\ Len(y) = Len(q) - k /\ (\A i \in 1 .. Len(q) - k : y[i] = q[i + k])
    OBVIOUS
<1>3. k \in Nat /\ Len(q) \in Nat /\ 1 <= k /\ k <= Len(q)
    OBVIOUS
<1> HIDE DEF x, y
<1>4. /\ r \in Seq(S) /\ Len(r) = Len(x) + Len(y)
      /\ \A i \in 1 .. Len(x) + Len(y) : r[i] = IF i <= Len(x) THEN x[i] ELSE y[i - Len(x)]
    <2>1. x \in Seq(S) /\ y \in Seq(S)
        BY <1>1, <1>2
    <2> QED BY <2>1, ConcatProperties
<1> HIDE DEF r
<1>5. Len(r) = Len(q) - 1
    BY <1>1, <1>2, <1>3, <1>4
<1>6. ASSUME NEW i \in 1 .. Len(r) PROVE r[i] = IF i < k THEN q[i] ELSE q[i + 1]
    <2>1. CASE i < k
        BY <2>1, <1>1, <1>2, <1>3, <1>4
    <2>2. CASE i >= k
        <3>1. i - (k - 1) \in 1 .. Len(q) - k /\ (i - (k - 1)) + k = i + 1
            BY <2>2, <1>3, <1>5
        <3>2. r[i] = y[i - (k - 1)]
            BY <2>2, <1>1, <1>2, <1>3, <1>4
        <3> QED BY <2>2, <1>2, <1>3, <3>1, <3>2
    <2> QED BY <1>3, <2>1, <2>2
<1> QED BY <1>4, <1>5, <1>6 DEF r, x, y

\* A frame sent takes its turn at the end of the queue.
LEMMA SentInTurn ==
    ASSUME NEW q, NEW s, NEW t, NEW c, BusOK(q, s, t, c), NEW p \in Services,
           NEW e, e.id = Id(p), NEW m \in Payloads, m.nth = s[p],
           m.type = "A" => m.ver = c[p].default,
           m.meant = IF m.ver = None THEN c[p].default ELSE m.ver
    PROVE  BusOK(Sent(q, e, m), [s EXCEPT ![p] = @ + 1], t, c)
<1> DEFINE f == [sender |-> Id(p), payload |-> m]
           r == Append(q, f)
           u == [s EXCEPT ![p] = @ + 1]
<1>1. q \in Seq(Frames) /\ s \in [Services -> Nat] /\ t \in [Services -> Nat]
    BY DEF BusOK
<1>2. f \in Frames /\ f.sender = Id(p) /\ f.payload = m
    BY Others DEF Frames
<1>3. Honest(f, c)
    BY <1>2, Others DEF Honest
<1>4. u \in [Services -> Nat] /\ u[p] = s[p] + 1 /\ u[Other(p)] = s[Other(p)] /\ s[p] \in Nat
    BY <1>1, Others
<1> HIDE DEF f, u
<1>5. /\ r \in Seq(Frames) /\ Len(r) = Len(q) + 1 /\ Len(q) \in Nat
      /\ r[Len(q) + 1] = f /\ (\A i \in 1 .. Len(q) : r[i] = q[i])
    BY <1>1, <1>2
<1> HIDE DEF r
<1>6. \A i \in 1 .. Len(r) : i \in 1 .. Len(q) \/ i = Len(q) + 1
    BY <1>5
<1>7. \A i \in 1 .. Len(r) : Honest(r[i], c)
    BY <1>3, <1>5, <1>6 DEF BusOK
<1>8. InTurn(r, Other(p), u, t)
    <2>1. InTurn(q, Other(p), s, t) /\ Other(p) \in Services /\ Id(Other(p)) # Id(p)
        BY Others DEF BusOK
    <2>2. From(r, Other(p)) = From(q, Other(p))
        BY <1>2, <1>5, <1>6, <2>1 DEF From
    <2>3. \A i \in From(q, Other(p)) : r[i] = q[i]
        BY <1>5 DEF From
    <2> QED BY <1>4, <2>1, <2>2, <2>3 DEF InTurn
<1>9. InTurn(r, p, u, t)
    <2> DEFINE a == t[Other(p)]  b == s[p]
    <2>1. InTurn(q, p, s, t) /\ a \in Nat /\ b \in Nat
        BY <1>1, Others DEF BusOK
    <2>2. /\ Len(q) + 1 \in From(r, p)
          /\ From(q, p) \subseteq From(r, p)
          /\ \A i \in From(r, p) : i \in From(q, p) \/ i = Len(q) + 1
        BY <1>2, <1>5, <1>6 DEF From
    <2>3. /\ \A i \in From(q, p) : r[i] = q[i] /\ i \in Nat /\ i < Len(q) + 1
          /\ r[Len(q) + 1].payload.nth = b
        BY <1>2, <1>5 DEF From
    <2>4. /\ a <= b
          /\ \A i \in From(q, p) : q[i].payload.nth \in a .. b - 1
          /\ \A n \in a .. b - 1 : \E i \in From(q, p) : q[i].payload.nth = n
          /\ \A i, j \in From(q, p) : i < j => q[i].payload.nth < q[j].payload.nth
        BY <2>1 DEF InTurn
    <2>5. \A n \in a .. b : n \in a .. b - 1 \/ n = b
        BY <2>1
    <2>6. \A n \in a .. b - 1 : n < b /\ n \in a .. b
        BY <2>1
    <2> HIDE DEF a, b
    <2>7. \A i \in From(r, p) : r[i].payload.nth \in a .. b
        BY <2>1, <2>2, <2>3, <2>4, <2>6
    <2>8. \A n \in a .. b : \E i \in From(r, p) : r[i].payload.nth = n
        BY <2>2, <2>3, <2>4, <2>5
    <2>9. ASSUME NEW i \in From(r, p), NEW j \in From(r, p), i < j
          PROVE  r[i].payload.nth < r[j].payload.nth
        <3>1. i \in From(q, p)
            BY <2>2, <2>3, <2>9, <1>5
        <3> QED BY <3>1, <2>2, <2>3, <2>4, <2>6, <2>9
    <2>10. a <= b + 1 /\ (b + 1) - 1 = b
        BY <2>1, <2>4
    <2> QED BY <1>4, <2>7, <2>8, <2>9, <2>10 DEF InTurn, a, b
<1>10. \A x \in Services : x = p \/ x = Other(p)
    BY DEF Services, Other
<1>11. BusOK(r, u, t, c)
    BY <1>1, <1>4, <1>5, <1>7, <1>8, <1>9, <1>10 DEF BusOK
<1> QED BY <1>11 DEF Sent, r, f, u

\* recv() takes the frame whose turn it is, one of the other service, and every
\* other keeps its turn.
LEMMA TakenInTurn ==
    ASSUME NEW q, NEW s, NEW t, NEW c, BusOK(q, s, t, c), NEW p \in Services,
           NEW e, e.id = Id(p), Positions(q, e) # {}
    PROVE  /\ NextFrame(q, e) \in Frames
           /\ NextFrame(q, e).sender = Id(Other(p))
           /\ Honest(NextFrame(q, e), c)
           /\ BusOK(Remaining(q, e), s, [t EXCEPT ![p] = @ + 1], c)
<1> DEFINE P == Positions(q, e)
           k == CHOOSE i \in P : \A j \in P : i <= j
           o == Other(p)
           r == SubSeq(q, 1, k - 1) \o SubSeq(q, k + 1, Len(q))
           u == [t EXCEPT ![p] = @ + 1]
<1>1. /\ q \in Seq(Frames) /\ s \in [Services -> Nat] /\ t \in [Services -> Nat]
      /\ Len(q) \in Nat /\ (\A i \in 1 .. Len(q) : Honest(q[i], c))
      /\ InTurn(q, p, s, t) /\ InTurn(q, o, s, t)
    BY Others DEF BusOK
<1>2. o \in Services /\ Other(o) = p /\ o # p /\ Id(o) # Id(p)
    BY Others
<1>3. \A i \in 1 .. Len(q) : q[i] \in Frames /\ q[i].sender \in {1, 2} /\ q[i].payload.nth \in Nat
    <2>1. \A i \in 1 .. Len(q) : q[i] \in Frames
        BY <1>1
    <2>2. \A f \in Frames : f.sender \in {1, 2} /\ f.payload \in Payloads
        BY DEF Frames
    <2>3. \A m \in Payloads : m.nth \in Nat
        BY Zenon DEF Payloads
    <2> QED BY <2>1, <2>2, <2>3, Zenon
<1>4. P = From(q, o)
    <2>1. \A i \in 1 .. Len(q) : q[i].sender # Id(p) <=> q[i].sender = Id(o)
        BY <1>2, <1>3, Others
    <2> QED BY <2>1 DEF Positions, From
<1>5. k \in P /\ (\A j \in P : k <= j) /\ k \in 1 .. Len(q) /\ k \in Nat
    <2>1. P \subseteq Nat /\ P # {} /\ P \subseteq 1 .. Len(q)
        BY DEF Positions
    <2> HIDE DEF P
    <2>2. k \in P /\ (\A j \in P : k <= j)
        BY <2>1, OldestExists
    <2> QED BY <2>1, <2>2
<1>6. NextFrame(q, e) = q[k] /\ Remaining(q, e) = r
    BY DEF NextFrame, Remaining
<1> HIDE DEF P, k
<1>7. /\ r \in Seq(Frames) /\ Len(r) = Len(q) - 1
      /\ \A i \in 1 .. Len(r) : r[i] = IF i < k THEN q[i] ELSE q[i + 1]
    BY <1>1, <1>5, TakenOut
<1> HIDE DEF r
<1> DEFINE g(i) == IF i < k THEN i ELSE i + 1
           h(j) == IF j < k THEN j ELSE j - 1
<1>8. /\ \A i \in 1 .. Len(r) : g(i) \in 1 .. Len(q) /\ g(i) # k /\ r[i] = q[g(i)]
      /\ \A i, j \in 1 .. Len(r) : i < j => g(i) < g(j)
      /\ \A j \in 1 .. Len(q) : j # k => h(j) \in 1 .. Len(r) /\ g(h(j)) = j
    BY <1>1, <1>5, <1>7
<1> HIDE DEF g, h
<1>9. \A x \in Services :
         /\ \A i \in From(r, x) : i \in 1 .. Len(r) /\ g(i) \in From(q, x) /\ g(i) # k
                                  /\ r[i] = q[g(i)]
         /\ \A j \in From(q, x) : j # k => h(j) \in From(r, x) /\ g(h(j)) = j /\ r[h(j)] = q[j]
    <2> TAKE x \in Services
    <2>1. \A i \in From(r, x) : i \in 1 .. Len(r) /\ g(i) \in From(q, x) /\ g(i) # k /\ r[i] = q[g(i)]
        BY <1>8 DEF From
    <2>2. \A j \in From(q, x) : j # k => h(j) \in From(r, x) /\ g(h(j)) = j /\ r[h(j)] = q[j]
        BY <1>8 DEF From
    <2> QED BY <2>1, <2>2
<1>10. u \in [Services -> Nat] /\ u[p] = t[p] + 1 /\ u[o] = t[o]
    BY <1>1, <1>2
<1> HIDE DEF u
<1>11. InTurn(r, p, s, u)
    <2>1. k \notin From(q, p)
        BY <1>2, <1>4, <1>5 DEF From
    <2>2. /\ t[o] <= s[p]
          /\ \A i \in From(q, p) : q[i].payload.nth \in t[o] .. s[p] - 1
          /\ \A n \in t[o] .. s[p] - 1 : \E i \in From(q, p) : q[i].payload.nth = n
          /\ \A i, j \in From(q, p) : i < j => q[i].payload.nth < q[j].payload.nth
        BY <1>1 DEF InTurn
    <2>3. \A i \in From(r, p) : r[i].payload.nth \in t[o] .. s[p] - 1
        BY <1>9, <2>2
    <2>4. \A n \in t[o] .. s[p] - 1 : \E i \in From(r, p) : r[i].payload.nth = n
        <3> TAKE n \in t[o] .. s[p] - 1
        <3>1. PICK i \in From(q, p) : q[i].payload.nth = n
            BY <2>2
        <3>2. h(i) \in From(r, p) /\ r[h(i)] = q[i]
            BY <1>9, <2>1, <3>1
        <3> QED BY <3>1, <3>2
    <2>5. \A i, j \in From(r, p) : i < j => r[i].payload.nth < r[j].payload.nth
        <3> TAKE i, j \in From(r, p)
        <3> HAVE i < j
        <3>1. /\ i \in 1 .. Len(r) /\ g(i) \in From(q, p) /\ r[i] = q[g(i)]
              /\ j \in 1 .. Len(r) /\ g(j) \in From(q, p) /\ r[j] = q[g(j)]
            BY <1>9
        <3>2. g(i) < g(j)
            BY <1>8, <3>1
        <3> QED BY <2>2, <3>1, <3>2
    <2> QED BY <1>10, <2>2, <2>3, <2>4, <2>5 DEF InTurn
<1>12. InTurn(r, o, s, u)
    <2> DEFINE a == t[p]  b == s[o]
    <2>1. a \in Nat /\ b \in Nat /\ k \in From(q, o)
        BY <1>1, <1>2, <1>4, <1>5
    <2>2. /\ a <= b
          /\ \A i \in From(q, o) : q[i].payload.nth \in a .. b - 1
          /\ \A n \in a .. b - 1 : \E i \in From(q, o) : q[i].payload.nth = n
          /\ \A i, j \in From(q, o) : i < j => q[i].payload.nth < q[j].payload.nth
        BY <1>1, <1>2 DEF InTurn
    <2> HIDE DEF a, b
    <2>3. q[k].payload.nth \in a .. b - 1 /\ a \in a .. b - 1
        BY <2>1, <2>2
    <2>4. PICK i \in From(q, o) : q[i].payload.nth = a
        BY <2>2, <2>3
    <2>5. \A j \in From(q, o) : j \in Nat /\ (j = k \/ k < j)
        BY <1>4, <1>5 DEF From
    <2>6. q[k].payload.nth = a
        <3>1. CASE i = k
            BY <3>1, <2>4
        <3>2. CASE k < i
            <4>1. q[k].payload.nth < a
                BY <3>2, <2>1, <2>2, <2>4
            <4> QED BY <4>1, <2>1, <2>3
        <3> QED BY <2>5, <3>1, <3>2
    <2>7. \A j \in From(q, o) : j # k => q[j].payload.nth \in a + 1 .. b - 1
        <3> TAKE j \in From(q, o)
        <3> HAVE j # k
        <3>1. a < q[j].payload.nth /\ q[j].payload.nth \in a .. b - 1
            BY <2>1, <2>2, <2>5, <2>6
        <3> QED BY <3>1, <2>1
    <2>8. \A n \in a + 1 .. b - 1 : n \in a .. b - 1 /\ n # a
        BY <2>1
    <2>9. \A n \in a + 1 .. b - 1 : \E j \in From(q, o) : j # k /\ q[j].payload.nth = n
        BY <2>2, <2>6, <2>8, Zenon
    <2>10. \A j \in From(r, o) : r[j].payload.nth \in a + 1 .. b - 1
        BY <1>2, <1>9, <2>7, Zenon
    <2>11. \A n \in a + 1 .. b - 1 : \E j \in From(r, o) : r[j].payload.nth = n
        <3> TAKE n \in a + 1 .. b - 1
        <3>1. PICK j \in From(q, o) : j # k /\ q[j].payload.nth = n
            BY <2>9
        <3>2. h(j) \in From(r, o) /\ r[h(j)] = q[j]
            BY <1>2, <1>9, <3>1
        <3> QED BY <3>1, <3>2
    <2>12. \A j, l \in From(r, o) : j < l => r[j].payload.nth < r[l].payload.nth
        <3> TAKE j, l \in From(r, o)
        <3> HAVE j < l
        <3>1. /\ j \in 1 .. Len(r) /\ g(j) \in From(q, o) /\ r[j] = q[g(j)]
              /\ l \in 1 .. Len(r) /\ g(l) \in From(q, o) /\ r[l] = q[g(l)]
            BY <1>2, <1>9
        <3>2. g(j) < g(l)
            BY <1>8, <3>1
        <3> QED BY <2>2, <3>1, <3>2
    <2>13. a + 1 <= b
        BY <2>1, <2>3
    <2> QED BY <1>2, <1>10, <2>10, <2>11, <2>12, <2>13 DEF InTurn, a, b
<1>13. \A i \in 1 .. Len(r) : Honest(r[i], c)
    BY <1>1, <1>8
<1>14. \A x \in Services : x = p \/ x = o
    BY DEF Services, Other
<1>15. BusOK(r, s, u, c)
    BY <1>1, <1>7, <1>10, <1>11, <1>12, <1>13, <1>14 DEF BusOK
<1>16. q[k] \in Frames /\ q[k].sender = Id(o) /\ Honest(q[k], c)
    BY <1>1, <1>3, <1>4, <1>5 DEF From
<1> QED BY <1>6, <1>15, <1>16 DEF u

-----------------------------------------------------------------------------
(* The sessions                                                            *)

\* A session that has changed in anything but its negotiated version, and that has
\* not made an attempt to reconnect.
Same(g, f) ==
    /\ g \in FixtSessions
    /\ g.negotiated = f.negotiated
    /\ g.attempts \in {f.attempts, 0}

\* A FixtSession whose base session is replaced.
LEMMA Rebased ==
    ASSUME NEW f \in FixtSessions, NEW b \in Sessions
    PROVE  Same([f EXCEPT !.base = b], f)
BY Zenon DEF Same, FixtSessions

\* The methods FixtSession hands to its base session leave the version alone, and
\* keep every number in its range.
LEMMA Delegated ==
    ASSUME NEW f \in FixtSessions
    PROVE  /\ f.base \in Sessions
           /\ Same(Posted(f), f)
           /\ Same(fixt_on_connected(f), f)
           /\ Same([f EXCEPT !.base = check_heartbeat(@)], f)
           /\ Same([f EXCEPT !.base = on_logout_sent(@)], f)
           /\ Same(reset_sequences(f), f)
           /\ Same(FixtAged(f), f)
           /\ Same(check_rate_limit(f), f)
<1> DEFINE b == f.base
<1>1. /\ b \in Sessions /\ f.attempts \in Nat /\ f.count \in Nat
      /\ f.sinceStart \in 0 .. Second
    BY Zenon DEF FixtSessions
<1>2. Same(Posted(f), f)
    <2>1. next_outbound_seq_num(b) \in Sessions
        BY <1>1, NextOutboundView, Zenon DEF View
    <2>2. on_message_sent(next_outbound_seq_num(b)) \in Sessions
        BY <2>1, TimeViews, Zenon DEF View
    <2> QED BY <2>2, Rebased DEF Posted
<1>3. Same(fixt_on_connected(f), f)
    <2>1. on_connected(b) \in Sessions /\ 0 \in Nat
        BY <1>1, StateViews DEF View
    <2>2. Same([f EXCEPT !.base = on_connected(@), !.attempts = 0], f)
        BY <2>1, Zenon DEF Same, FixtSessions
    <2>3. Same(f, f)
        BY DEF Same
    <2> QED BY <2>2, <2>3, Zenon DEF fixt_on_connected
<1>4. Same([f EXCEPT !.base = check_heartbeat(@)], f)
    <2>1. check_heartbeat(b) \in Sessions
        BY <1>1, CheckHeartbeatView, Zenon DEF View
    <2> QED BY <2>1, Rebased
<1>5. Same([f EXCEPT !.base = on_logout_sent(@)], f)
    <2>1. on_logout_sent(b) \in Sessions
        BY <1>1, StateViews, Zenon DEF View
    <2> QED BY <2>1, Rebased
<1>6. Same(reset_sequences(f), f)
    <2>1. 1 \in Nat \ {0}
        OBVIOUS
    <2>2. [[b EXCEPT !.outbound = 1] EXCEPT !.inbound = 1] \in Sessions
        BY <1>1, <2>1, Zenon DEF Sessions
    <2>3. reset_sequences(f) = [f EXCEPT !.base = [[b EXCEPT !.outbound = 1] EXCEPT !.inbound = 1]]
        BY Zenon DEF reset_sequences, FixtSessions
    <2> QED BY <2>2, <2>3, Rebased
<1>7. Same(FixtAged(f), f)
    <2>1. Aged(b) \in Sessions
        BY <1>1, AgedView, Zenon DEF View
    <2>2. (IF f.sinceStart < Second THEN f.sinceStart + 1 ELSE f.sinceStart) \in 0 .. Second
        BY <1>1, FixtAssumption
    <2> QED BY <2>1, <2>2, Zenon DEF FixtAged, Same, FixtSessions
<1>8. Same(check_rate_limit(f), f)
    <2>1. 0 \in 0 .. Second /\ 1 \in Nat /\ f.count + 1 \in Nat
        BY <1>1, FixtAssumption
    <2>2. /\ Same([f EXCEPT !.count = 1, !.sinceStart = 0], f)
          /\ Same([f EXCEPT !.count = @ + 1], f)
        BY <2>1, Zenon DEF Same, FixtSessions
    <2> QED BY <2>2, Zenon DEF check_rate_limit
<1> QED BY <1>1, <1>2, <1>3, <1>4, <1>5, <1>6, <1>7, <1>8

\* An attempt to reconnect is counted, and should_reconnect allows it only while the
\* count is below the limit.
LEMMA Attempt ==
    ASSUME NEW f \in FixtSessions, NEW c, c.max_attempts \in Nat, should_reconnect(f, c)
    PROVE  LET g == on_reconnect_attempt(f) IN
           /\ g \in FixtSessions
           /\ g.negotiated = f.negotiated
           /\ c.max_attempts > 0 => g.attempts <= c.max_attempts
<1> DEFINE b == [f.base EXCEPT !.state = "Connecting"]
<1>1. f.base \in Sessions /\ f.attempts \in Nat /\ "Connecting" \in SessionState
    BY Zenon DEF FixtSessions, SessionState
<1>2. /\ f.attempts + 1 \in Nat
      /\ c.max_attempts > 0 => f.attempts + 1 <= c.max_attempts
    BY <1>1 DEF should_reconnect
<1>3. b \in Sessions
    BY <1>1, Zenon DEF Sessions
<1>4. /\ on_reconnect_attempt(f) \in FixtSessions
      /\ on_reconnect_attempt(f).negotiated = f.negotiated
      /\ on_reconnect_attempt(f).attempts = f.attempts + 1
    BY <1>2, <1>3, Zenon DEF on_reconnect_attempt, FixtSessions
<1> QED BY <1>2, <1>4

\* A message received is counted, or a gap is noted.
LEMMA ReceivedSame ==
    ASSUME NEW f \in FixtSessions, NEW n \in Nat
    PROVE  Same([f EXCEPT !.base = validate_inbound_seq(on_message_received(@), n)], f)
<1>1. f.base \in Sessions
    BY Zenon DEF FixtSessions
<1>2. validate_inbound_seq(on_message_received(f.base), n) \in Sessions
    BY <1>1, ValidateView DEF View
<1> QED BY <1>2, Rebased

\* A gap that is filled.
LEMMA GapFilledSame ==
    ASSUME NEW f \in FixtSessions, NEW n \in Nat \ {0}
    PROVE  Same(on_gap_filled(f, n), f)
<1> DEFINE b == [[f.base EXCEPT !.inbound = n] EXCEPT !.state = "Active"]
<1>1. f.base \in Sessions /\ "Active" \in SessionState
    BY Zenon DEF FixtSessions, SessionState
<1>2. b \in Sessions
    BY <1>1, Zenon DEF Sessions
<1>3. on_gap_filled(f, n) = [f EXCEPT !.base = b]
    BY Zenon DEF on_gap_filled, FixtSessions
<1> QED BY <1>2, <1>3, Rebased

\* on_logon_received and on_disconnected set the version.
LEMMA Negotiations ==
    ASSUME NEW f \in FixtSessions
    PROVE  /\ fixt_on_disconnected(f) \in FixtSessions
           /\ fixt_on_disconnected(f).negotiated = None
           /\ fixt_on_disconnected(f).attempts = f.attempts
           /\ \A c, v : v \in ApplVerID =>
                 /\ on_logon_received(f, c, v) \in FixtSessions
                 /\ on_logon_received(f, c, v).negotiated = v
                 /\ on_logon_received(f, c, v).attempts = f.attempts
<1>1. f.base \in Sessions
    BY Zenon DEF FixtSessions
<1>2. on_disconnected(f.base) \in Sessions /\ on_logon(f.base) \in Sessions
    BY <1>1, StateViews DEF View
<1> QED BY <1>2, Zenon DEF fixt_on_disconnected, on_logon_received, FixtSessions

-----------------------------------------------------------------------------
(* Steps                                                                   *)

\* A step of p gives it session g and endpoint e, and the queue its frames.
Steps(p, g, e) ==
    /\ g \in FixtSessions /\ e \in Endpoints /\ e.id = Id(p)
    /\ Sound(g, e, p, config)
    /\ fs' = [fs EXCEPT ![p] = g]
    /\ ep' = [ep EXCEPT ![p] = e]
    /\ gap' \in [Services -> Nat]
    /\ config' = config
    /\ BusOK(frames', sent', taken', config)

\* Such a step keeps the invariant, if what it accepts is read as it was meant.
LEMMA StepKeeps ==
    ASSUME LInv, NEW p \in Services, NEW g, NEW e, Steps(p, g, e),
           NEW r \in [ver : Versions, meant : Versions], ReadAsMeant(r, p, config),
           read' = [read EXCEPT ![p] = r]
    PROVE  LInv'
<1> USE DEF Steps
<1>1. /\ config \in Configs /\ fs \in [Services -> FixtSessions] /\ ep \in [Services -> Endpoints]
      /\ read \in [Services -> [ver : Versions, meant : Versions]]
      /\ \A x \in Services :
            ep[x].id = Id(x) /\ Sound(fs[x], ep[x], x, config) /\ ReadAsMeant(read[x], x, config)
    BY DEF LInv
<1>2. fs' \in [Services -> FixtSessions] /\ ep' \in [Services -> Endpoints]
    BY <1>1, Zenon
<1>3. read' \in [Services -> [ver : Versions, meant : Versions]]
    BY <1>1, Zenon
<1>4. ASSUME NEW x \in Services
      PROVE  ep'[x].id = Id(x) /\ Sound(fs'[x], ep'[x], x, config) /\ ReadAsMeant(read'[x], x, config)
    <2>1. CASE x = p
        <3>1. fs'[x] = g /\ ep'[x] = e /\ read'[x] = r
            BY <1>1, <2>1, Zenon
        <3> QED BY <2>1, <3>1
    <2>2. CASE x # p
        <3>1. fs'[x] = fs[x] /\ ep'[x] = ep[x] /\ read'[x] = read[x]
            BY <1>1, <2>2, Zenon
        <3> QED BY <1>1, <3>1
    <2> QED BY <2>1, <2>2
<1> QED BY <1>1, <1>2, <1>3, <1>4, Zenon DEF LInv

\* Most steps accept no message.
LEMMA QuietStep ==
    ASSUME LInv, NEW p \in Services, NEW g, NEW e, Steps(p, g, e), read' = read
    PROVE  LInv'
<1>1. read[p] \in [ver : Versions, meant : Versions] /\ ReadAsMeant(read[p], p, config)
    BY Zenon DEF LInv
<1>2. read = [read EXCEPT ![p] = read[p]]
    BY Zenon DEF LInv
<1> QED BY <1>1, <1>2, StepKeeps

\* What the invariant says of one service.
LEMMA Service ==
    ASSUME LInv, NEW p \in Services
    PROVE  /\ fs[p] \in FixtSessions /\ ep[p] \in Endpoints /\ ep[p].id = Id(p) /\ gap[p] \in Nat
           /\ Sound(fs[p], ep[p], p, config)
           /\ config[p].default \in ApplVerID /\ config[p].listed \subseteq ApplVerID
           /\ config[p].max_attempts \in Nat
           /\ None \notin supported_versions(config[p]) /\ supported_versions(config[p]) \subseteq ApplVerID
           /\ fs = [fs EXCEPT ![p] = fs[p]] /\ ep = [ep EXCEPT ![p] = ep[p]]
           /\ gap \in [Services -> Nat] /\ sent[p] \in Nat
           /\ BusOK(frames, sent, taken, config)
<1>1. /\ fs \in [Services -> FixtSessions] /\ ep \in [Services -> Endpoints] /\ gap \in [Services -> Nat]
      /\ ep[p].id = Id(p) /\ Sound(fs[p], ep[p], p, config)
      /\ BusOK(frames, sent, taken, config) /\ sent \in [Services -> Nat]
    BY DEF LInv, BusOK
<1>2. config \in [Services -> [default : ApplVerID, listed : SUBSET ApplVerID, max_attempts : Nat]]
    BY VersionAssumption DEF LInv
<1>3. /\ config[p].default \in ApplVerID /\ config[p].listed \subseteq ApplVerID
      /\ config[p].max_attempts \in Nat
    BY <1>2
<1>4. None \notin ApplVerID
    BY LinkAssumption
<1>5. None \notin supported_versions(config[p]) /\ supported_versions(config[p]) \subseteq ApplVerID
    BY <1>3, <1>4, Zenon DEF supported_versions
<1> QED BY <1>1, <1>3, <1>5, Zenon

\* Open and closed endpoints.
LEMMA OpenClose ==
    ASSUME NEW e \in Endpoints
    PROVE  /\ Opened(e) \in Endpoints /\ Opened(e).id = e.id /\ Opened(e).connected
           /\ Closed(e) \in Endpoints /\ Closed(e).id = e.id
BY Zenon DEF Endpoints, Opened, Closed

\* A session that keeps its version stays sound while its endpoint is open.
LEMMA StaysSound ==
    ASSUME LInv, NEW p \in Services, NEW g, NEW f, NEW e, NEW d,
           Same(g, f), Sound(f, e, p, config), e.connected => d.connected
    PROVE  Sound(g, d, p, config)
<1>1. config[p].max_attempts \in Nat
    BY Service
<1> QED BY <1>1 DEF Same, Sound

\* A message p makes is one Honest allows, numbered by how many it has sent.
LEMMA Made ==
    ASSUME LInv, NEW p \in Services, NEW f \in FixtSessions, NEW type \in {"A", "0", "5", "D"},
           NEW ver \in Versions, NEW big \in BOOLEAN, type = "A" => ver = config[p].default
    PROVE  LET m == Payload(p, f, type, ver, big) IN
           /\ m \in Payloads /\ m.nth = sent[p]
           /\ m.type = "A" => m.ver = config[p].default
           /\ m.meant = IF m.ver = None THEN config[p].default ELSE m.ver
<1>1. f.base.outbound \in Nat \ {0} /\ sent[p] \in Nat /\ config[p].default \in Versions
    <2>1. f.base \in Sessions
        BY Delegated
    <2>2. f.base.outbound \in Nat \ {0}
        BY <2>1, Zenon DEF Sessions
    <2> QED BY <2>2, Service, Zenon DEF Versions
<1>2. (IF ver = None THEN config[p].default ELSE ver) \in Versions
    BY <1>1
<1> QED BY <1>1, <1>2, Zenon DEF Payload, Payloads, Versions

\* Post puts the message in its turn.
LEMMA PostKeeps ==
    ASSUME LInv, NEW p \in Services, NEW f \in FixtSessions, NEW q, NEW t,
           BusOK(q, sent, t, config),
           NEW type \in {"A", "0", "5", "D"}, NEW ver \in Versions, NEW big \in BOOLEAN,
           type = "A" => ver = config[p].default,
           frames' = Sent(q, ep[p], Payload(p, f, type, ver, big)),
           sent' = [sent EXCEPT ![p] = @ + 1], taken' = t
    PROVE  BusOK(frames', sent', taken', config)
<1>1. ep[p].id = Id(p)
    BY Service
<1>2. LET m == Payload(p, f, type, ver, big) IN
           /\ m \in Payloads /\ m.nth = sent[p]
           /\ m.type = "A" => m.ver = config[p].default
           /\ m.meant = IF m.ver = None THEN config[p].default ELSE m.ver
    BY Made
<1> QED BY <1>1, <1>2, SentInTurn

\* What recv() hands to p.
LEMMA Receives ==
    ASSUME LInv, NEW p \in Services, DataReceived(frames, ep[p])
    PROVE  LET m == Incoming(p)
               d == config[Other(p)].default IN
           /\ m \in Payloads /\ m.seq \in Nat /\ m.ver \in Versions /\ m.meant \in Versions
           /\ m.type = "A" => m.ver = d
           /\ m.meant = IF m.ver = None THEN d ELSE m.ver
           /\ BusOK(Rest(p), sent, [taken EXCEPT ![p] = @ + 1], config)
           /\ Same(Received(p), fs[p])
<1> DEFINE f == NextFrame(frames, ep[p])
<1>1. ep[p].id = Id(p) /\ BusOK(frames, sent, taken, config) /\ fs[p] \in FixtSessions
    BY Service
<1>2. /\ f \in Frames /\ f.sender = Id(Other(p)) /\ Honest(f, config)
      /\ BusOK(Rest(p), sent, [taken EXCEPT ![p] = @ + 1], config)
    BY <1>1, TakenInTurn DEF DataReceived, Rest
<1>3. Incoming(p) = f.payload
    BY DEF Incoming
<1> HIDE DEF f
<1>4. f.payload \in Payloads
    BY <1>2, Zenon DEF Frames
<1>5. /\ f.payload.seq \in Nat \ {0} /\ f.payload.ver \in Versions /\ f.payload.meant \in Versions
    BY <1>4, Zenon DEF Payloads, Versions
<1>6. /\ f.payload.type = "A" => f.payload.ver = config[Other(p)].default
      /\ f.payload.meant = IF f.payload.ver = None THEN config[Other(p)].default ELSE f.payload.ver
    BY <1>2, Others, Zenon DEF Honest
<1>7. f.payload.seq \in Nat
    BY <1>5
<1>8. Same(Received(p), fs[p])
    BY <1>1, <1>3, <1>7, ReceivedSame DEF Received
<1> QED BY <1>2, <1>3, <1>4, <1>5, <1>6, <1>7, <1>8

\* The gap a service notes is a number.
LEMMA Noted ==
    ASSUME LInv, NEW p \in Services, DataReceived(frames, ep[p]), NoteGap(p)
    PROVE  gap' \in [Services -> Nat]
<1>1. gap \in [Services -> Nat] /\ gap[p] \in Nat /\ Incoming(p).seq \in Nat
    BY Service, Receives
<1> QED BY <1>1 DEF NoteGap

\* A connection given up leaves no version behind.
LEMMA CutKeeps ==
    ASSUME LInv, NEW p \in Services, NEW f, Same(f, fs[p]), Cut(p, f), config' = config,
           gap' = gap, read' = read, BusOK(frames', sent', taken', config)
    PROVE  LInv'
<1> DEFINE g == fixt_on_disconnected(f)
           e == Closed(ep[p])
<1>1. /\ ep[p] \in Endpoints /\ ep[p].id = Id(p) /\ gap \in [Services -> Nat]
      /\ Sound(fs[p], ep[p], p, config)
    BY Service
<1>2. e \in Endpoints /\ e.id = Id(p)
    BY <1>1, OpenClose
<1>3. g \in FixtSessions /\ g.negotiated = None /\ g.attempts = f.attempts
    BY Negotiations DEF Same
<1>6. Sound(f, ep[p], p, config)
    BY <1>1, StaysSound
<1>4. fs' = [fs EXCEPT ![p] = g] /\ ep' = [ep EXCEPT ![p] = e]
    BY DEF Cut
<1> HIDE DEF g, e
<1>5. Steps(p, g, e)
    BY <1>1, <1>2, <1>3, <1>4, <1>6, Zenon DEF Steps, Sound
<1> QED BY <1>5, QuietStep

\* A step of p that keeps its version and its connection.
LEMMA SameKeeps ==
    ASSUME LInv, NEW p \in Services, NEW g, Same(g, fs[p]), fs' = [fs EXCEPT ![p] = g], ep' = ep,
           gap' \in [Services -> Nat], config' = config, read' = read,
           BusOK(frames', sent', taken', config)
    PROVE  LInv'
<1>1. /\ ep[p] \in Endpoints /\ ep[p].id = Id(p) /\ ep = [ep EXCEPT ![p] = ep[p]]
      /\ Sound(fs[p], ep[p], p, config)
    BY Service
<1>2. Sound(g, ep[p], p, config)
    BY <1>1, StaysSound
<1>3. Steps(p, g, ep[p])
    BY <1>1, <1>2 DEF Steps, Same
<1> QED BY <1>3, QuietStep

\* Connections come up, fail, are given up and start their numbers again.
LEMMA ConnectingKeeps ==
    ASSUME LInv, Listen \/ Dial \/ Connect \/ ConnectFails \/ (\E p \in Services : Disconnect(p) \/ Reset(p))
    PROVE  LInv'
<1>1. "ini" \in Services /\ "acc" \in Services
    BY DEF Services
<1>2. CASE Listen
    <2> DEFINE g == fixt_on_connected(fs["acc"])
               e == Opened(ep["acc"])
    <2>1. /\ fs["acc"] \in FixtSessions /\ ep["acc"] \in Endpoints /\ ep["acc"].id = Id("acc")
          /\ Sound(fs["acc"], ep["acc"], "acc", config) /\ gap \in [Services -> Nat]
          /\ BusOK(frames, sent, taken, config)
        BY <1>1, Service
    <2>2. Same(g, fs["acc"])
        BY <2>1, Delegated
    <2>3. e \in Endpoints /\ e.id = Id("acc") /\ e.connected
        BY <2>1, OpenClose
    <2>4. /\ fs' = [fs EXCEPT !["acc"] = g] /\ ep' = [ep EXCEPT !["acc"] = e] /\ read' = read
          /\ gap' = gap /\ config' = config /\ frames' = frames /\ sent' = sent /\ taken' = taken
        BY <1>2 DEF Listen
    <2> HIDE DEF g, e
    <2>5. Sound(g, e, "acc", config)
        BY <1>1, <2>1, <2>2, <2>3, StaysSound
    <2>6. Steps("acc", g, e)
        BY <2>1, <2>2, <2>3, <2>4, <2>5, Zenon DEF Steps, Same
    <2> QED BY <1>1, <2>4, <2>6, QuietStep
<1>3. CASE Dial
    <2> DEFINE g == on_reconnect_attempt(fs["ini"])
    <2>1. /\ fs["ini"] \in FixtSessions /\ ep["ini"] \in Endpoints /\ ep["ini"].id = Id("ini")
          /\ Sound(fs["ini"], ep["ini"], "ini", config) /\ gap \in [Services -> Nat]
          /\ BusOK(frames, sent, taken, config) /\ config["ini"].max_attempts \in Nat
          /\ ep = [ep EXCEPT !["ini"] = ep["ini"]]
        BY <1>1, Service
    <2>2. /\ g \in FixtSessions /\ g.negotiated = fs["ini"].negotiated
          /\ config["ini"].max_attempts > 0 => g.attempts <= config["ini"].max_attempts
        BY <1>3, <2>1, Attempt DEF Dial
    <2>3. /\ fs' = [fs EXCEPT !["ini"] = g] /\ ep' = ep /\ read' = read
          /\ gap' = gap /\ config' = config /\ frames' = frames /\ sent' = sent /\ taken' = taken
        BY <1>3 DEF Dial
    <2> HIDE DEF g
    <2>4. Sound(g, ep["ini"], "ini", config)
        BY <2>1, <2>2, Zenon DEF Sound
    <2>5. Steps("ini", g, ep["ini"])
        BY <2>1, <2>2, <2>3, <2>4, Zenon DEF Steps
    <2> QED BY <1>1, <2>3, <2>5, QuietStep
<1>4. CASE Connect
    <2> DEFINE c == fixt_on_connected(fs["ini"])
               g == Posted(c)
               e == Opened(ep["ini"])
               v == config["ini"].default
    <2>1. /\ fs["ini"] \in FixtSessions /\ ep["ini"] \in Endpoints /\ ep["ini"].id = Id("ini")
          /\ Sound(fs["ini"], ep["ini"], "ini", config) /\ gap \in [Services -> Nat]
          /\ BusOK(frames, sent, taken, config) /\ v \in ApplVerID
        BY <1>1, Service
    <2>2. Same(c, fs["ini"]) /\ Same(g, c)
        BY <2>1, Delegated, Zenon DEF Same
    <2>3. e \in Endpoints /\ e.id = Id("ini") /\ e.connected
        BY <2>1, OpenClose
    <2>4. /\ fs' = [fs EXCEPT !["ini"] = g] /\ ep' = [ep EXCEPT !["ini"] = e] /\ read' = read
          /\ gap' = gap /\ config' = config /\ taken' = taken
          /\ frames' = Sent(frames, ep["ini"], Payload("ini", c, "A", v, FALSE))
          /\ sent' = [sent EXCEPT !["ini"] = @ + 1]
        BY <1>4 DEF Connect, Post, build_logon_fields
    <2>5. BusOK(frames', sent', taken', config)
        <3>1. v \in Versions /\ FALSE \in BOOLEAN /\ c \in FixtSessions /\ "A" \in {"A", "0", "5", "D"}
            BY <2>1, <2>2, Zenon DEF Versions, Same
        <3> HIDE DEF c
        <3> QED BY <1>1, <2>1, <2>4, <3>1, PostKeeps
    <2> HIDE DEF g, e, c
    <2>6. Sound(g, e, "ini", config)
        <3>1. Sound(c, e, "ini", config)
            BY <1>1, <2>1, <2>2, <2>3, StaysSound
        <3> QED BY <1>1, <2>2, <3>1, StaysSound
    <2>7. Steps("ini", g, e)
        BY <2>1, <2>2, <2>3, <2>4, <2>5, <2>6, Zenon DEF Steps, Same
    <2> QED BY <1>1, <2>4, <2>7, QuietStep
<1>5. CASE ConnectFails
    <2> DEFINE g == fixt_on_disconnected(fs["ini"])
    <2>1. /\ fs["ini"] \in FixtSessions /\ ep["ini"] \in Endpoints /\ ep["ini"].id = Id("ini")
          /\ gap \in [Services -> Nat] /\ BusOK(frames, sent, taken, config)
          /\ ep = [ep EXCEPT !["ini"] = ep["ini"]]
          /\ Sound(fs["ini"], ep["ini"], "ini", config)
        BY <1>1, Service
    <2>2. g \in FixtSessions /\ g.negotiated = None /\ g.attempts = fs["ini"].attempts
        BY <2>1, Negotiations
    <2>3. /\ fs' = [fs EXCEPT !["ini"] = g] /\ ep' = ep /\ read' = read
          /\ gap' = gap /\ config' = config /\ frames' = frames /\ sent' = sent /\ taken' = taken
        BY <1>5 DEF ConnectFails
    <2> HIDE DEF g
    <2>4. Steps("ini", g, ep["ini"])
        BY <2>1, <2>2, <2>3, Zenon DEF Steps, Sound
    <2> QED BY <1>1, <2>3, <2>4, QuietStep
<1>6. ASSUME NEW p \in Services, Disconnect(p) PROVE LInv'
    <2>1. Same(fs[p], fs[p]) /\ BusOK(frames, sent, taken, config)
        BY Service DEF Same
    <2>2. /\ Cut(p, fs[p]) /\ config' = config /\ gap' = gap /\ read' = read
          /\ frames' = frames /\ sent' = sent /\ taken' = taken
        BY <1>6 DEF Disconnect
    <2>3. BusOK(frames', sent', taken', config)
        BY <2>1, <2>2
    <2> QED BY <2>1, <2>2, <2>3, CutKeeps
<1>7. ASSUME NEW p \in Services, Reset(p) PROVE LInv'
    <2>1. fs[p] \in FixtSessions /\ gap \in [Services -> Nat] /\ BusOK(frames, sent, taken, config)
        BY Service
    <2>2. Same(reset_sequences(fs[p]), fs[p])
        BY <2>1, Delegated
    <2>3. /\ fs' = [fs EXCEPT ![p] = reset_sequences(fs[p])] /\ ep' = ep /\ read' = read
          /\ gap' = gap /\ config' = config /\ frames' = frames /\ sent' = sent /\ taken' = taken
        BY <1>7 DEF Reset
    <2>4. BusOK(frames', sent', taken', config) /\ gap' \in [Services -> Nat]
        BY <2>1, <2>3
    <2> QED BY <2>2, <2>3, <2>4, SameKeeps
<1> QED BY <1>2, <1>3, <1>4, <1>5, <1>6, <1>7

\* The Logon a service accepts carries the other's default, which it supports.
LEMMA RecvLogonKeeps ==
    ASSUME LInv, NEW p \in Services, RecvLogon(p)
    PROVE  LInv'
<1> DEFINE v == Incoming(p).ver
           f == on_logon_received(Received(p), config[p], v)
           t == [taken EXCEPT ![p] = @ + 1]
<1>1. /\ ep[p].connected /\ DataReceived(frames, ep[p]) /\ taken' = t /\ Incoming(p).type = "A"
      /\ Acceptable(config[p], v) /\ NoteGap(p)
      /\ config' = config /\ ep' = ep /\ read' = read
    BY DEF RecvLogon, Receiving, Incoming
<1>2. /\ v = config[Other(p)].default
      /\ BusOK(Rest(p), sent, t, config) /\ Received(p) \in FixtSessions
      /\ Same(Received(p), fs[p])
    BY <1>1, Receives, Zenon DEF Same
<1>3. /\ ep[p] \in Endpoints /\ ep[p].id = Id(p) /\ ep = [ep EXCEPT ![p] = ep[p]]
      /\ Sound(fs[p], ep[p], p, config)
      /\ config[p].default \in ApplVerID /\ supported_versions(config[p]) \subseteq ApplVerID
    BY Service
<1>4. v \in ApplVerID
    BY <1>1, <1>3 DEF Acceptable
<1>5. f \in FixtSessions /\ Sound(f, ep[p], p, config)
    <2>1. f \in FixtSessions /\ f.negotiated = v /\ f.attempts = Received(p).attempts
        BY <1>2, <1>4, Negotiations
    <2>2. Sound(Received(p), ep[p], p, config)
        BY <1>2, <1>3, StaysSound
    <2> QED BY <1>1, <1>2, <2>1, <2>2, Zenon DEF Sound
<1>6. gap' \in [Services -> Nat]
    BY <1>1, Noted
<1> HIDE DEF v, f, t
<1>7. CASE Post(p, f, Rest(p), "A", build_logon_fields(config[p]), FALSE)
    <2> DEFINE g == Posted(f)
    <2>1. Same(g, f)
        BY <1>5, Delegated
    <2>2. /\ fs' = [fs EXCEPT ![p] = g]
          /\ frames' = Sent(Rest(p), ep[p], Payload(p, f, "A", config[p].default, FALSE))
          /\ sent' = [sent EXCEPT ![p] = @ + 1]
        BY <1>7 DEF Post, build_logon_fields
    <2>3. BusOK(frames', sent', taken', config)
        <3>1. config[p].default \in Versions /\ FALSE \in BOOLEAN /\ "A" \in {"A", "0", "5", "D"}
            BY <1>3, Zenon DEF Versions
        <3> QED BY <1>1, <1>2, <1>5, <2>2, <3>1, PostKeeps
    <2> HIDE DEF g
    <2>4. Sound(g, ep[p], p, config)
        BY <1>5, <2>1, StaysSound
    <2>5. Steps(p, g, ep[p])
        BY <1>1, <1>3, <1>6, <2>1, <2>2, <2>3, <2>4, Zenon DEF Steps, Same
    <2> QED BY <1>1, <2>5, QuietStep
<1>8. CASE fs' = [fs EXCEPT ![p] = f] /\ frames' = Rest(p) /\ sent' = sent
    <2>1. BusOK(frames', sent', taken', config)
        BY <1>1, <1>2, <1>8
    <2>2. Steps(p, f, ep[p])
        BY <1>1, <1>3, <1>5, <1>6, <1>8, <2>1, Zenon DEF Steps
    <2> QED BY <1>1, <2>2, QuietStep
<1> QED BY <1>7, <1>8 DEF RecvLogon, f, v

\* An application message is read in the version its sender means by it.
LEMMA RecvAppKeeps ==
    ASSUME LInv, NEW p \in Services, RecvApp(p)
    PROVE  LInv'
<1> DEFINE m == Incoming(p)
           g == Received(p)
           ver == validate_appl_ver(g, config[p], m.ver)
           t == [taken EXCEPT ![p] = @ + 1]
           r == IF ver = None THEN read[p] ELSE [ver |-> ver, meant |-> m.meant]
<1>1. /\ ep[p].connected /\ DataReceived(frames, ep[p]) /\ taken' = t /\ NoteGap(p)
      /\ fs' = [fs EXCEPT ![p] = g] /\ frames' = Rest(p)
      /\ config' = config /\ ep' = ep /\ sent' = sent /\ read' = [read EXCEPT ![p] = r]
    BY DEF RecvApp, Receiving
<1>2. /\ m.ver \in Versions /\ m.meant \in Versions
      /\ m.meant = IF m.ver = None THEN config[Other(p)].default ELSE m.ver
      /\ BusOK(Rest(p), sent, t, config) /\ Same(g, fs[p])
      /\ g \in FixtSessions /\ g.negotiated = fs[p].negotiated
    BY <1>1, Receives, Zenon DEF Same
<1>3. /\ ep[p] \in Endpoints /\ ep[p].id = Id(p) /\ ep = [ep EXCEPT ![p] = ep[p]]
      /\ Sound(fs[p], ep[p], p, config)
    BY Service
<1>4. read[p] \in [ver : Versions, meant : Versions] /\ ReadAsMeant(read[p], p, config)
    BY DEF LInv
<1>5. gap' \in [Services -> Nat]
    BY <1>1, Noted
<1>6. ver # None => ver = m.meant /\ Acceptable(config[p], ver)
    <2>1. CASE m.ver = None
        BY <2>1, <1>2, <1>3 DEF validate_appl_ver, Sound
    <2>2. CASE m.ver # None
        BY <2>2, <1>2 DEF validate_appl_ver
    <2> QED BY <2>1, <2>2
<1> HIDE DEF m, g, ver, t
<1>7. r \in [ver : Versions, meant : Versions] /\ ReadAsMeant(r, p, config)
    <2>1. CASE ver = None
        BY <2>1, <1>4
    <2>2. CASE ver # None
        BY <2>2, <1>2, <1>6, Zenon DEF ReadAsMeant
    <2> QED BY <2>1, <2>2
<1>8. Steps(p, g, ep[p])
    <2>1. Sound(g, ep[p], p, config)
        BY <1>2, <1>3, StaysSound
    <2> QED BY <1>1, <1>2, <1>3, <1>5, <2>1, Zenon DEF Steps
<1> HIDE DEF r
<1> QED BY <1>1, <1>7, <1>8, StepKeeps

\* Heartbeats, Logouts, Logons that are refused, and frames that are too big.
LEMMA RecvOtherKeeps ==
    ASSUME LInv, NEW p \in Services,
           RecvTooBig(p) \/ RefuseLogon(p) \/ RecvHeartbeat(p) \/ RecvLogout(p)
    PROVE  LInv'
<1> DEFINE g == Received(p)
           t == [taken EXCEPT ![p] = @ + 1]
<1>1. DataReceived(frames, ep[p]) /\ taken' = t /\ config' = config /\ read' = read
    BY DEF RecvTooBig, RefuseLogon, RecvHeartbeat, RecvLogout, Receiving
<1>2. Same(g, fs[p]) /\ BusOK(Rest(p), sent, t, config) /\ g \in FixtSessions
    BY <1>1, Receives, Zenon DEF Same
<1>3. Same(fs[p], fs[p])
    BY Service DEF Same
<1> HIDE DEF t
<1>4. frames' = Rest(p) /\ sent' = sent => BusOK(frames', sent', taken', config)
    BY <1>1, <1>2
<1>5. CASE RecvTooBig(p)
    <2>1. Cut(p, fs[p]) /\ gap' = gap /\ frames' = Rest(p) /\ sent' = sent
        BY <1>5 DEF RecvTooBig
    <2> QED BY <1>1, <1>3, <1>4, <2>1, CutKeeps
<1>6. CASE RefuseLogon(p)
    <2>1. Cut(p, g) /\ gap' = gap /\ frames' = Rest(p) /\ sent' = sent
        BY <1>6 DEF RefuseLogon
    <2> QED BY <1>1, <1>2, <1>4, <2>1, CutKeeps
<1>7. CASE RecvHeartbeat(p)
    <2>1. /\ fs' = [fs EXCEPT ![p] = g] /\ ep' = ep /\ NoteGap(p)
          /\ frames' = Rest(p) /\ sent' = sent
        BY <1>7 DEF RecvHeartbeat
    <2>2. gap' \in [Services -> Nat]
        BY <1>1, <2>1, Noted
    <2> QED BY <1>1, <1>2, <1>4, <2>1, <2>2, SameKeeps
<1>8. CASE RecvLogout(p)
    <2> HIDE DEF g
    <2>1. gap' = gap
        BY <1>8 DEF RecvLogout
    <2>2. \/ /\ frames' = Sent(Rest(p), ep[p], Payload(p, g, "5", None, FALSE))
             /\ sent' = [sent EXCEPT ![p] = @ + 1]
             /\ Cut(p, [Posted(g) EXCEPT !.base = on_logout_sent(@)])
          \/ frames' = Rest(p) /\ sent' = sent /\ Cut(p, g)
        BY <1>8 DEF RecvLogout, g
    <2>3. CASE /\ frames' = Sent(Rest(p), ep[p], Payload(p, g, "5", None, FALSE))
               /\ sent' = [sent EXCEPT ![p] = @ + 1]
               /\ Cut(p, [Posted(g) EXCEPT !.base = on_logout_sent(@)])
        <3> DEFINE x == [Posted(g) EXCEPT !.base = on_logout_sent(@)]
        <3>1. Same(Posted(g), g) /\ Posted(g) \in FixtSessions
            BY <1>2, Delegated DEF Same
        <3>2. Same(x, fs[p])
            <4>1. Same(x, Posted(g))
                BY <3>1, Delegated
            <4> QED BY <1>2, <3>1, <4>1, Zenon DEF Same
        <3>3. BusOK(frames', sent', taken', config)
            <4>1. None \in Versions /\ FALSE \in BOOLEAN /\ "5" \in {"A", "0", "5", "D"} /\ "5" # "A"
                BY DEF Versions
            <4> QED BY <1>1, <1>2, <2>3, <4>1, PostKeeps
        <3> HIDE DEF x
        <3>4. Cut(p, x)
            BY <2>3 DEF x
        <3> QED BY <1>1, <2>1, <3>2, <3>3, <3>4, CutKeeps
    <2>4. CASE frames' = Rest(p) /\ sent' = sent /\ Cut(p, g)
        BY <1>1, <1>2, <1>4, <2>1, <2>4, CutKeeps
    <2> QED BY <2>2, <2>3, <2>4
<1> QED BY <1>5, <1>6, <1>7, <1>8

\* Application messages, Logouts, heartbeats, and gaps that are filled.
LEMMA SendingKeeps ==
    ASSUME LInv, NEW p \in Services, FillGap(p) \/ SendApp(p) \/ Logout(p) \/ Timer(p)
    PROVE  LInv'
<1>1. config' = config /\ read' = read /\ gap' = gap /\ taken' = taken
    BY DEF FillGap, SendApp, Logout, Timer
<1>2. /\ fs[p] \in FixtSessions /\ gap \in [Services -> Nat] /\ gap[p] \in Nat
      /\ BusOK(frames, sent, taken, config)
    BY Service
<1>3. gap' \in [Services -> Nat]
    BY <1>1, <1>2
<1>4. frames' = frames /\ sent' = sent => BusOK(frames', sent', taken', config)
    BY <1>1, <1>2
<1>5. CASE FillGap(p)
    <2>1. gap[p] + 1 \in Nat \ {0}
        BY <1>2
    <2>2. Same(on_gap_filled(fs[p], gap[p] + 1), fs[p])
        BY <1>2, <2>1, GapFilledSame
    <2>3. /\ fs' = [fs EXCEPT ![p] = on_gap_filled(fs[p], gap[p] + 1)]
          /\ ep' = ep /\ frames' = frames /\ sent' = sent
        BY <1>5 DEF FillGap
    <2> QED BY <1>1, <1>3, <1>4, <2>2, <2>3, SameKeeps
<1>6. ASSUME NEW f, Same(f, fs[p]), NEW type \in {"0", "5", "D"}, NEW ver \in Versions, NEW big \in BOOLEAN,
             NEW g, Same(g, fs[p]), fs' = [fs EXCEPT ![p] = g], ep' = ep,
             frames' = Sent(frames, ep[p], Payload(p, f, type, ver, big)),
             sent' = [sent EXCEPT ![p] = @ + 1]
      PROVE  LInv'
    <2>1. f \in FixtSessions /\ type # "A" /\ type \in {"A", "0", "5", "D"}
        BY <1>6 DEF Same
    <2>2. BusOK(frames', sent', taken', config)
        BY <1>1, <1>2, <1>6, <2>1, PostKeeps
    <2> QED BY <1>1, <1>3, <1>6, <2>2, SameKeeps
<1>7. CASE SendApp(p)
    <2> DEFINE f == check_rate_limit(fs[p])
    <2>1. Same(f, fs[p]) /\ ep' = ep
        BY <1>2, <1>7, Delegated DEF SendApp
    <2>2. Same(Posted(f), fs[p])
        BY <2>1, Delegated, Zenon DEF Same
    <2>3. \/ \E c \in Contents[p] : Post(p, f, frames, "D", c.ver, c.big)
          \/ fs' = [fs EXCEPT ![p] = f] /\ frames' = frames /\ sent' = sent
        BY <1>7 DEF SendApp
    <2> HIDE DEF f
    <2>4. ASSUME NEW c \in Contents[p], Post(p, f, frames, "D", c.ver, c.big) PROVE LInv'
        <3>1. Contents[p] \in SUBSET [ver : ApplVerID \cup {None, Junk}, big : BOOLEAN]
            BY VersionAssumption
        <3>2. c \in [ver : Versions, big : BOOLEAN]
            BY <3>1 DEF Versions
        <3>3. c.ver \in Versions /\ c.big \in BOOLEAN
            BY <3>2, Zenon
        <3> QED BY <1>6, <2>1, <2>2, <2>4, <3>3 DEF Post
    <2>5. CASE fs' = [fs EXCEPT ![p] = f] /\ frames' = frames /\ sent' = sent
        BY <1>1, <1>3, <1>4, <2>1, <2>5, SameKeeps
    <2> QED BY <2>3, <2>4, <2>5
<1>8. CASE Logout(p)
    <2> DEFINE g == [Posted(fs[p]) EXCEPT !.base = on_logout_sent(@)]
    <2>1. Same(Posted(fs[p]), fs[p]) /\ Posted(fs[p]) \in FixtSessions
        BY <1>2, Delegated DEF Same
    <2>2. Same(g, Posted(fs[p]))
        BY <2>1, Delegated
    <2>3. Same(g, fs[p]) /\ Same(fs[p], fs[p])
        BY <1>2, <2>1, <2>2, Zenon DEF Same
    <2>4. /\ fs' = [fs EXCEPT ![p] = g] /\ ep' = ep
          /\ frames' = Sent(frames, ep[p], Payload(p, fs[p], "5", None, FALSE))
          /\ sent' = [sent EXCEPT ![p] = @ + 1]
        BY <1>8, Zenon DEF Logout
    <2>5. None \in Versions /\ FALSE \in BOOLEAN
        BY Zenon DEF Versions
    <2> HIDE DEF g
    <2> QED BY <1>6, <2>3, <2>4, <2>5
<1>9. CASE Timer(p)
    <2> DEFINE f == [fs[p] EXCEPT !.base = check_heartbeat(@)]
    <2>1. Same(f, fs[p])
        BY <1>2, Delegated
    <2>2. Same(Posted(f), fs[p]) /\ f \in FixtSessions
        BY <2>1, Delegated, Zenon DEF Same
    <2>3. \/ Post(p, f, frames, "0", None, FALSE) /\ ep' = ep
          \/ Cut(p, f) /\ frames' = frames /\ sent' = sent
        BY <1>9 DEF Timer
    <2> HIDE DEF f
    <2>4. CASE Post(p, f, frames, "0", None, FALSE) /\ ep' = ep
        <3>1. None \in Versions /\ FALSE \in BOOLEAN
            BY Zenon DEF Versions
        <3> QED BY <1>6, <2>1, <2>2, <2>4, <3>1 DEF Post
    <2>5. CASE Cut(p, f) /\ frames' = frames /\ sent' = sent
        BY <1>1, <1>4, <2>1, <2>5, CutKeeps
    <2> QED BY <2>3, <2>4, <2>5
<1> QED BY <1>5, <1>7, <1>8, <1>9

\* The clock.
LEMMA TickKeeps == ASSUME LInv, Tick PROVE LInv'
<1>1. /\ config' = config /\ ep' = ep /\ frames' = frames /\ gap' = gap /\ sent' = sent
      /\ taken' = taken /\ read' = read /\ fs' = [p \in Services |-> FixtAged(fs[p])]
    BY DEF Tick
<1>2. \A p \in Services : Same(FixtAged(fs[p]), fs[p])
    BY Service, Delegated
<1>3. fs' \in [Services -> FixtSessions] /\ (\A p \in Services : fs'[p] = FixtAged(fs[p]))
    BY <1>1, <1>2, Zenon DEF Same
<1>4. \A p \in Services : Sound(fs'[p], ep[p], p, config)
    BY <1>2, <1>3, Service, StaysSound, Zenon
<1> QED BY <1>1, <1>3, <1>4, Zenon DEF LInv

\* The queue is empty and no session has a version.
LEMMA InitLInv == ASSUME Init PROVE LInv
<1>1. /\ config \in Configs
      /\ fs = [p \in Services |-> NewFixtSession(IF p = "ini" THEN "Initiator" ELSE "Acceptor")]
      /\ ep = [p \in Services |-> NewEndpoint(IF p = "ini" THEN 1 ELSE 2)]
      /\ frames = <<>> /\ gap = [p \in Services |-> 0]
      /\ sent = [p \in Services |-> 0] /\ taken = [p \in Services |-> 0]
      /\ read = [p \in Services |-> [ver |-> None, meant |-> None]]
    BY DEF Init
<1>2. ASSUME NEW role \in SessionRole
      PROVE  /\ NewFixtSession(role) \in FixtSessions
             /\ NewFixtSession(role).negotiated = None /\ NewFixtSession(role).attempts = 0
    <2>1. NewSession(role) \in Sessions
        BY NewSessionView DEF View
    <2>2. 0 \in Nat /\ 0 \in 0 .. Second
        BY FixtAssumption
    <2> QED BY <2>1, <2>2, Zenon DEF NewFixtSession, FixtSessions
<1>3. \A p \in Services : fs[p] \in FixtSessions /\ fs[p].negotiated = None /\ fs[p].attempts = 0
    BY <1>1, <1>2 DEF SessionRole
<1>4. fs \in [Services -> FixtSessions]
    BY <1>1, <1>3
<1>5. \A p \in Services : ep[p] \in Endpoints /\ ep[p].id = Id(p)
    <2>1. \A i \in Nat : NewEndpoint(i) \in Endpoints /\ NewEndpoint(i).id = i
        BY Zenon DEF NewEndpoint, Endpoints
    <2> QED BY <1>1, <2>1 DEF Id
<1>6. ep \in [Services -> Endpoints]
    BY <1>1, <1>5
<1>7. None \in Versions
    BY DEF Versions
<1>8. /\ read \in [Services -> [ver : Versions, meant : Versions]]
      /\ \A p \in Services : ReadAsMeant(read[p], p, config)
    BY <1>1, <1>7, Zenon DEF ReadAsMeant
<1>9. gap \in [Services -> Nat]
    BY <1>1
<1>10. BusOK(frames, sent, taken, config)
    <2>1. /\ frames \in Seq(Frames) /\ Len(frames) = 0
          /\ sent \in [Services -> Nat] /\ taken \in [Services -> Nat]
        BY <1>1
    <2>2. ASSUME NEW p \in Services PROVE InTurn(frames, p, sent, taken)
        <3>1. sent[p] = 0 /\ taken[Other(p)] = 0
            BY <1>1, Others
        <3>2. From(frames, p) = {}
            BY <2>1 DEF From
        <3> QED BY <3>1, <3>2 DEF InTurn
    <2> QED BY <2>1, <2>2 DEF BusOK
<1>11. ASSUME NEW p \in Services PROVE Sound(fs[p], ep[p], p, config)
    <2>1. config[p].max_attempts \in Nat
        <3>1. config \in [Services -> [default : ApplVerID, listed : SUBSET ApplVerID, max_attempts : Nat]]
            BY <1>1, VersionAssumption
        <3> QED BY <3>1
    <2> QED BY <1>3, <2>1 DEF Sound
<1> QED BY <1>1, <1>4, <1>5, <1>6, <1>8, <1>9, <1>10, <1>11, Zenon DEF LInv

-----------------------------------------------------------------------------
(* Theorems                                                                *)

\* The invariant of two services on one stream, through any number of connections.
THEOREM LinkInvariant == Spec => []LInv
<1>1. Init => LInv
    BY InitLInv
<1>2. LInv /\ [Next]_vars => LInv'
    <2> SUFFICES ASSUME LInv, [Next]_vars PROVE LInv'
        OBVIOUS
    <2>1. CASE Listen \/ Dial \/ Connect \/ ConnectFails
        BY <2>1, ConnectingKeeps
    <2>2. ASSUME NEW p \in Services,
                 \/ Disconnect(p) \/ Reset(p)
                 \/ Receive(p) \/ FillGap(p)
                 \/ SendApp(p) \/ Logout(p) \/ Timer(p)
          PROVE  LInv'
        <3>1. CASE Disconnect(p) \/ Reset(p)
            BY <3>1, ConnectingKeeps
        <3>2. CASE Receive(p)
            BY <3>2, RecvLogonKeeps, RecvAppKeeps, RecvOtherKeeps DEF Receive
        <3>3. CASE FillGap(p) \/ SendApp(p) \/ Logout(p) \/ Timer(p)
            BY <3>3, SendingKeeps
        <3> QED BY <2>2, <3>1, <3>2, <3>3
    <2>3. CASE Tick
        BY <2>3, TickKeeps
    <2>4. CASE UNCHANGED vars
        BY <2>4, Zenon DEF vars, LInv
    <2> QED BY <2>1, <2>2, <2>3, <2>4 DEF Next
<1> QED BY <1>1, <1>2, PTL DEF Spec

\* Sessions, endpoints and frames keep their types; and a configuration that sets
\* max_reconnect_attempts (0, the default, is no limit) keeps the attempts to reconnect
\* within it, whatever fails in whatever order.
THEOREM LinkTypeCorrect == Spec => []TypeOK
<1>1. LInv => TypeOK
    <2> SUFFICES ASSUME LInv PROVE TypeOK
        OBVIOUS
    <2>1. /\ fs \in [Services -> FixtSessions] /\ ep \in [Services -> Endpoints]
          /\ gap \in [Services -> Nat] /\ frames \in Seq(Frames)
        BY DEF LInv, BusOK
    <2>2. \A i \in 1 .. Len(frames) : frames[i] \in Frames
        BY <2>1
    <2>3. \A f \in Frames : f.sender \in Nat /\ f.payload \in Payloads
        BY DEF Frames
    <2>4. \A p \in Services :
              config[p].max_attempts > 0 => fs[p].attempts <= config[p].max_attempts
        BY Service DEF Sound
    <2> QED BY <2>1, <2>2, <2>3, <2>4, Zenon DEF TypeOK
<1> QED BY <1>1, LinkInvariant, PTL

\* The queue of transport_aeron.rs hands every frame over once, in the order sent,
\* and to the other service, on whichever connection it was sent.
THEOREM LinkFramesOnce == Spec => []FramesOnce
<1>1. LInv => FramesOnce
    <2> SUFFICES ASSUME LInv, NEW p \in Services
                 PROVE  /\ taken[Other(p)] <= sent[p]
                        /\ {frames[i].payload.nth : i \in OnTheBus(p)} = taken[Other(p)] .. sent[p] - 1
                        /\ \A i, j \in OnTheBus(p) :
                              i < j => frames[i].payload.nth < frames[j].payload.nth
        BY DEF FramesOnce
    <2>1. InTurn(frames, p, sent, taken) /\ OnTheBus(p) = From(frames, p)
        BY DEF LInv, BusOK, OnTheBus, From
    <2>2. {frames[i].payload.nth : i \in From(frames, p)} = taken[Other(p)] .. sent[p] - 1
        BY <2>1 DEF InTurn
    <2> QED BY <2>1, <2>2 DEF InTurn
<1> QED BY <1>1, LinkInvariant, PTL

\* validate_appl_ver never gives a message a version its sender did not mean, and
\* negotiated_version never outlives its connection.
THEOREM LinkVersionsAgree == Spec => []VersionsAgree
<1>1. LInv => VersionsAgree
    BY Zenon DEF LInv, VersionsAgree, ReadAsMeant, Sound
<1> QED BY <1>1, LinkInvariant, PTL

-----------------------------------------------------------------------------
(* The rate limit                                                          *)

\* The window and the count of check_rate_limit are as they were.
Paced(g, f) == g.count = f.count /\ g.sinceStart = f.sinceStart

\* Of the messages let through, newest first, as many as the count says, and never
\* more than a window's worth, may be of the window under way; all before them are
\* older than it; and those before a further window's worth are a second old.
InWindows(a, f) ==
    \A i \in 1 .. Len(a) :
        /\ i > f.count \/ i > MaxRate => a[i] >= f.sinceStart
        /\ i > f.count + MaxRate \/ i > 2 * MaxRate => a[i] = Second

RateInv ==
    /\ allowed \in [Services -> Seq(0 .. Second)]
    /\ \A p \in Services : InWindows(allowed[p], fs[p])

\* No method but check_rate_limit touches the window; the clock only ages it.
LEMMA OthersPaced ==
    ASSUME NEW f \in FixtSessions
    PROVE  /\ \A b : Paced([f EXCEPT !.base = b], f)
           /\ Paced(Posted(f), f)
           /\ Paced(fixt_on_connected(f), f)
           /\ Paced(fixt_on_disconnected(f), f)
           /\ Paced(reset_sequences(f), f)
           /\ Paced(on_reconnect_attempt(f), f)
           /\ \A n : Paced(on_gap_filled(f, n), f)
           /\ \A c, v : Paced(on_logon_received(f, c, v), f)
<1>1. \A b : Paced([f EXCEPT !.base = b], f)
    BY Zenon DEF Paced, FixtSessions
<1>2. Paced(Posted(f), f)
    BY <1>1 DEF Posted
<1>3. Paced(fixt_on_connected(f), f)
    BY Zenon DEF fixt_on_connected, Paced, FixtSessions
<1>4. Paced(fixt_on_disconnected(f), f)
    BY Zenon DEF fixt_on_disconnected, Paced, FixtSessions
<1>5. Paced(reset_sequences(f), f)
    BY Zenon DEF reset_sequences, Paced, FixtSessions
<1>6. Paced(on_reconnect_attempt(f), f)
    BY Zenon DEF on_reconnect_attempt, Paced, FixtSessions
<1>7. \A n : Paced(on_gap_filled(f, n), f)
    BY Zenon DEF on_gap_filled, Paced, FixtSessions
<1>8. \A c, v : Paced(on_logon_received(f, c, v), f)
    BY Zenon DEF on_logon_received, Paced, FixtSessions
<1> QED BY <1>1, <1>2, <1>3, <1>4, <1>5, <1>6, <1>7, <1>8

LEMMA PacedChain ==
    ASSUME NEW f, NEW g, NEW h, Paced(g, f), Paced(h, g)
    PROVE  Paced(h, f)
BY DEF Paced

\* A step that leaves every window alone and lets nothing through.
LEMMA PacedKeeps ==
    ASSUME RateInv, LInv, NEW p \in Services, NEW g,
           Paced(g, fs[p]), fs' = [fs EXCEPT ![p] = g], allowed' = allowed
    PROVE  RateInv'
<1>1. \A q \in Services : Paced(fs'[q], fs[q])
    BY Zenon DEF LInv, Paced
<1> QED BY <1>1, Zenon DEF RateInv, InWindows, Paced
\* A session whose connection is given up after it was g.
LEMMA CutPaced ==
    ASSUME RateInv, LInv, NEW p \in Services, NEW g \in FixtSessions,
           Paced(g, fs[p]), Cut(p, g), allowed' = allowed
    PROVE  RateInv'
<1>1. Paced(fixt_on_disconnected(g), fs[p])
    BY OthersPaced, PacedChain
<1> QED BY <1>1, PacedKeeps DEF Cut

\* A session that was g and has sent a message since.
LEMMA PostPaced ==
    ASSUME RateInv, LInv, NEW p \in Services, NEW g \in FixtSessions,
           NEW q, NEW type, NEW ver, NEW big,
           Paced(g, fs[p]), Post(p, g, q, type, ver, big), allowed' = allowed
    PROVE  RateInv'
<1>1. Paced(Posted(g), fs[p])
    BY OthersPaced, PacedChain
<1> QED BY <1>1, PacedKeeps DEF Post

LEMMA ConnectingPaced ==
    ASSUME RateInv, LInv, NEW p \in Services,
           Listen \/ Dial \/ Connect \/ ConnectFails \/ Disconnect(p) \/ Reset(p)
    PROVE  RateInv'
<1>1. \A s \in Services : fs[s] \in FixtSessions
    BY DEF LInv
<1>2. "ini" \in Services /\ "acc" \in Services /\ \A f : Paced(f, f)
    BY DEF Services, Paced
<1>3. CASE Listen
    BY <1>1, <1>2, <1>3, OthersPaced, PacedKeeps DEF Listen
<1>4. CASE Dial
    BY <1>1, <1>2, <1>4, OthersPaced, PacedKeeps DEF Dial
<1>5. CASE Connect
    <2>1. fixt_on_connected(fs["ini"]) \in FixtSessions
        BY <1>1, <1>2, Delegated DEF Same
    <2> QED BY <1>1, <1>2, <1>5, <2>1, OthersPaced, PostPaced DEF Connect
<1>6. CASE ConnectFails
    BY <1>1, <1>2, <1>6, OthersPaced, PacedKeeps DEF ConnectFails
<1>7. CASE Disconnect(p)
    BY <1>1, <1>2, <1>7, CutPaced DEF Disconnect
<1>8. CASE Reset(p)
    BY <1>1, <1>8, OthersPaced, PacedKeeps DEF Reset
<1> QED BY <1>3, <1>4, <1>5, <1>6, <1>7, <1>8

LEMMA ReceivePaced ==
    ASSUME RateInv, LInv, NEW p \in Services, Receive(p)
    PROVE  RateInv'
<1>1. fs[p] \in FixtSessions /\ Paced(fs[p], fs[p])
    BY DEF LInv, Paced
<1>2. CASE RecvTooBig(p)
    BY <1>1, <1>2, CutPaced DEF RecvTooBig
<1> SUFFICES ASSUME NEW types, Receiving(p, types),
                    \/ RecvLogon(p) \/ RefuseLogon(p) \/ RecvHeartbeat(p)
                    \/ RecvLogout(p) \/ RecvApp(p)
             PROVE  RateInv'
    BY <1>2 DEF Receive, RecvLogon, RefuseLogon, RecvHeartbeat, RecvLogout, RecvApp
<1>3. Incoming(p).seq \in Nat
    BY Receives DEF Receiving
<1>4. Received(p) \in FixtSessions /\ Paced(Received(p), fs[p])
    BY <1>1, <1>3, ReceivedSame, OthersPaced DEF Received, Same
<1>5. CASE RecvLogon(p)
    <2> DEFINE f == on_logon_received(Received(p), config[p], Incoming(p).ver)
    <2>1. allowed' = allowed /\ Acceptable(config[p], Incoming(p).ver)
        BY <1>5 DEF RecvLogon
    <2>2. f \in FixtSessions
        <3>1. Incoming(p).ver \in ApplVerID
            BY <2>1, Service DEF Acceptable
        <3> QED BY <1>4, <3>1, Negotiations
    <2>3. Paced(f, fs[p])
        BY <1>4, OthersPaced, PacedChain
    <2>4. \/ Post(p, f, Rest(p), "A", build_logon_fields(config[p]), FALSE)
          \/ fs' = [fs EXCEPT ![p] = f]
        BY <1>5 DEF RecvLogon
    <2> HIDE DEF f
    <2> QED BY <2>1, <2>2, <2>3, <2>4, PostPaced, PacedKeeps
<1>6. CASE RefuseLogon(p)
    BY <1>4, <1>6, CutPaced DEF RefuseLogon
<1>7. CASE RecvHeartbeat(p) \/ RecvApp(p)
    BY <1>4, <1>7, PacedKeeps DEF RecvHeartbeat, RecvApp
<1>8. CASE RecvLogout(p)
    <2> DEFINE f == Received(p)
               g == [Posted(f) EXCEPT !.base = on_logout_sent(@)]
    <2>1. Posted(f) \in FixtSessions /\ Paced(Posted(f), fs[p])
        <3>1. Posted(f) \in FixtSessions /\ Paced(Posted(f), f)
            BY <1>4, Delegated, OthersPaced, Zenon DEF Same
        <3> QED BY <1>4, <3>1, PacedChain
    <2>2. g \in FixtSessions /\ Paced(g, fs[p])
        <3>1. g \in FixtSessions /\ Paced(g, Posted(f))
            BY <2>1, Delegated, OthersPaced, Zenon DEF Same
        <3> QED BY <2>1, <3>1, PacedChain
    <2>3. (Cut(p, g) \/ Cut(p, f)) /\ allowed' = allowed
        BY <1>8 DEF RecvLogout
    <2> QED BY <1>4, <2>2, <2>3, CutPaced
<1> QED BY <1>5, <1>6, <1>7, <1>8
\* check_rate_limit begins a window a second after the last one began, or counts.
LEMMA SendPaced ==
    ASSUME RateInv, LInv, NEW p \in Services,
           FillGap(p) \/ SendApp(p) \/ Logout(p) \/ Timer(p)
    PROVE  RateInv'
<1>1. fs[p] \in FixtSessions /\ Paced(fs[p], fs[p])
    BY DEF LInv, Paced
<1>2. CASE FillGap(p)
    BY <1>1, <1>2, OthersPaced, PacedKeeps DEF FillGap
<1>3. CASE Logout(p)
    <2> DEFINE f == Posted(fs[p])
               g == [f EXCEPT !.base = on_logout_sent(@)]
    <2>1. f \in FixtSessions /\ Paced(f, fs[p])
        BY <1>1, Delegated, OthersPaced, Zenon DEF Same
    <2>2. Paced(g, f)
        BY <2>1, OthersPaced
    <2>3. Paced(g, fs[p])
        BY <2>1, <2>2, PacedChain
    <2> QED BY <1>3, <2>3, PacedKeeps DEF Logout
<1>4. CASE Timer(p)
    <2> DEFINE f == [fs[p] EXCEPT !.base = check_heartbeat(@)]
    <2>1. f \in FixtSessions /\ Paced(f, fs[p])
        BY <1>1, Delegated, OthersPaced, Zenon DEF Same
    <2>2. (Post(p, f, frames, "0", None, FALSE) \/ Cut(p, f)) /\ allowed' = allowed
        BY <1>4 DEF Timer
    <2> HIDE DEF f
    <2> QED BY <2>1, <2>2, PostPaced, CutPaced
<1>5. CASE SendApp(p)
    <2> DEFINE f == check_rate_limit(fs[p])
               a == allowed[p]
               b == <<0>> \o a
    <2>1. /\ fs[p].count \in Nat /\ fs[p].sinceStart \in 0 .. Second
          /\ Second \in Nat /\ MaxRate \in Nat /\ 1 <= MaxRate
        <3>1. fs[p].count \in Nat /\ fs[p].sinceStart \in 0 .. Second
            BY <1>1, Zenon DEF FixtSessions
        <3> QED BY <3>1, FixtAssumption
    <2>2. /\ f \in FixtSessions
          /\ fs[p].sinceStart >= Second => f.count = 1 /\ f.sinceStart = 0
          /\ ~(fs[p].sinceStart >= Second) =>
                f.count = fs[p].count + 1 /\ f.sinceStart = fs[p].sinceStart
        BY <1>1, Delegated, Zenon DEF check_rate_limit, Same, FixtSessions
    <2>3. a \in Seq(0 .. Second) /\ InWindows(a, fs[p])
        BY DEF RateInv
    <2>4. \/ /\ Allowed(f) /\ fs' = [fs EXCEPT ![p] = Posted(f)]
             /\ allowed' = [allowed EXCEPT ![p] = b]
          \/ /\ ~Allowed(f) /\ fs' = [fs EXCEPT ![p] = f] /\ allowed' = allowed
        BY <1>5 DEF SendApp, Post
    <2> HIDE DEF f
    <2>5. CASE Allowed(f) /\ fs' = [fs EXCEPT ![p] = Posted(f)]
               /\ allowed' = [allowed EXCEPT ![p] = b]
        <3>1. /\ b \in Seq(0 .. Second) /\ Len(b) = Len(a) + 1 /\ b[1] = 0
              /\ \A i \in 2 .. Len(b) : b[i] = a[i - 1]
            BY <2>1, <2>3
        <3>2. Posted(f).count = f.count /\ Posted(f).sinceStart = f.sinceStart /\ f.count <= MaxRate
            BY <2>2, <2>5, OthersPaced DEF Paced, Allowed
        <3> HIDE DEF a, b
        <3>3. InWindows(b, Posted(f))
            <4> SUFFICES ASSUME NEW i \in 1 .. Len(b)
                         PROVE  /\ i > f.count \/ i > MaxRate => b[i] >= f.sinceStart
                                /\ i > f.count + MaxRate \/ i > 2 * MaxRate => b[i] = Second
                BY <3>2 DEF InWindows
            <4>1. CASE i = 1
                <5>1. 1 <= f.count /\ f.count \in Nat
                    BY <2>1, <2>2
                <5> QED BY <2>1, <4>1, <5>1
            <4>2. CASE i # 1
                <5>1. i - 1 \in 1 .. Len(a) /\ b[i] = a[i - 1] /\ a[i - 1] \in 0 .. Second
                    <6>1. Len(a) \in Nat /\ \A j \in 1 .. Len(a) : a[j] \in 0 .. Second
                        <7>1. Len(a) \in Nat
                            BY <2>3
                        <7>2. \A j \in 1 .. Len(a) : a[j] \in 0 .. Second
                            BY <2>3, ElementOfSeq, Zenon
                        <7> QED BY <7>1, <7>2
                    <6>2. i - 1 \in 1 .. Len(a) /\ i \in 2 .. Len(b)
                        BY <3>1, <4>2, <6>1
                    <6> QED BY <3>1, <6>1, <6>2
                <5>2. /\ i - 1 > fs[p].count \/ i - 1 > MaxRate => a[i - 1] >= fs[p].sinceStart
                      /\ i - 1 > fs[p].count + MaxRate \/ i - 1 > 2 * MaxRate => a[i - 1] = Second
                    BY <2>3, <5>1, Zenon DEF InWindows
                <5>3. CASE fs[p].sinceStart >= Second
                    <6>1. f.count = 1 /\ f.sinceStart = 0
                        BY <2>2, <5>3, Zenon
                    <6>2. i \in Nat /\ i - 1 \in Nat
                        BY <3>1, <5>1
                    <6> DEFINE x == a[i - 1]
                               s == fs[p].sinceStart
                    <6>3. x \in 0 .. Second /\ s \in 0 .. Second /\ s >= Second
                        BY <2>1, <5>1, <5>3, Zenon
                    <6>4. i - 1 > MaxRate => x >= s
                        BY <5>2, Zenon
                    <6> HIDE DEF x, s
                    <6>5. x >= 0 /\ (i > 1 + MaxRate \/ i > 2 * MaxRate => x = Second)
                        BY <2>1, <6>2, <6>3, <6>4, SMT
                    <6>6. b[i] = x
                        BY <5>1, Zenon DEF x
                    <6> QED BY <6>1, <6>5, <6>6, Zenon
                <5>4. CASE ~(fs[p].sinceStart >= Second)
                    <6>1. f.count = fs[p].count + 1 /\ f.sinceStart = fs[p].sinceStart
                        BY <2>2, <5>4
                    <6>2. i \in Nat /\ i - 1 \in Nat
                        BY <3>1, <5>1
                    <6> DEFINE c == fs[p].count
                               x == a[i - 1]
                               s == fs[p].sinceStart
                    <6>3. c \in Nat /\ c + 1 <= MaxRate /\ x \in Int /\ s \in Int
                        BY <2>1, <3>2, <5>1, <6>1
                    <6>4. /\ i - 1 > c \/ i - 1 > MaxRate => x >= s
                          /\ i - 1 > c + MaxRate \/ i - 1 > 2 * MaxRate => x = Second
                        BY <5>2
                    <6> HIDE DEF c, x, s
                    <6>5. /\ i > c + 1 \/ i > MaxRate => x >= s
                          /\ i > c + 1 + MaxRate \/ i > 2 * MaxRate => x = Second
                        BY <2>1, <6>2, <6>3, <6>4
                    <6> QED BY <5>1, <6>1, <6>5 DEF c, x, s
                <5> QED BY <5>3, <5>4
            <4> QED BY <4>1, <4>2
        <3>4. /\ allowed' \in [Services -> Seq(0 .. Second)] /\ allowed'[p] = b
              /\ fs'[p] = Posted(f)
              /\ \A q \in Services : q # p => fs'[q] = fs[q] /\ allowed'[q] = allowed[q]
            BY <2>5, <3>1, Zenon DEF RateInv, LInv
        <3> QED BY <3>3, <3>4, Zenon DEF RateInv
    <2>6. CASE ~Allowed(f) /\ fs' = [fs EXCEPT ![p] = f] /\ allowed' = allowed
        <3>1. ~(fs[p].sinceStart >= Second) /\ f.count = fs[p].count + 1
              /\ f.sinceStart = fs[p].sinceStart
            BY <2>1, <2>2, <2>6 DEF Allowed
        <3> HIDE DEF a
        <3>2. InWindows(a, f)
            <4> SUFFICES ASSUME NEW i \in 1 .. Len(a)
                         PROVE  /\ i > f.count \/ i > MaxRate => a[i] >= f.sinceStart
                                /\ i > f.count + MaxRate \/ i > 2 * MaxRate => a[i] = Second
                BY DEF InWindows
            <4>1. /\ i > fs[p].count \/ i > MaxRate => a[i] >= fs[p].sinceStart
                  /\ i > fs[p].count + MaxRate \/ i > 2 * MaxRate => a[i] = Second
                BY <2>3, Zenon DEF InWindows
            <4>2. i \in Nat
                BY <2>3
            <4> QED BY <2>1, <3>1, <4>1, <4>2
        <3>3. fs'[p] = f /\ \A q \in Services : q # p => fs'[q] = fs[q]
            BY <2>6, Zenon DEF LInv
        <3> QED BY <2>6, <3>2, <3>3, Zenon DEF RateInv, a
    <2> QED BY <2>4, <2>5, <2>6
<1> QED BY <1>2, <1>3, <1>4, <1>5

\* A tick ages the window and the messages alike.
LEMMA TickPaced == ASSUME RateInv, LInv, Tick PROVE RateInv'
<1> SUFFICES ASSUME NEW p \in Services
             PROVE  allowed'[p] \in Seq(0 .. Second) /\ InWindows(allowed'[p], fs'[p])
    <2>1. allowed' = [p \in Services |-> allowed'[p]]
        BY DEF Tick
    <2> QED BY <2>1, Zenon DEF RateInv
<1> DEFINE a == allowed[p]
           f == fs[p]
<1>1. /\ allowed'[p] = [i \in 1 .. Len(a) |-> GrownOlder(a[i])]
      /\ fs'[p] = FixtAged(f)
    BY DEF Tick
<1>2. a \in Seq(0 .. Second) /\ InWindows(a, f) /\ f \in FixtSessions
    BY DEF RateInv, LInv
<1>3. /\ FixtAged(f).count = f.count
      /\ FixtAged(f).sinceStart = IF f.sinceStart < Second THEN f.sinceStart + 1 ELSE f.sinceStart
    BY <1>2, Zenon DEF FixtAged, FixtSessions
<1>4. /\ f.count \in Nat /\ f.sinceStart \in 0 .. Second
      /\ Second \in Nat /\ MaxRate \in Nat
    BY <1>2, FixtAssumption, Zenon DEF FixtSessions
<1> HIDE DEF a, f
<1>5. \A i \in 1 .. Len(a) : a[i] \in 0 .. Second /\ GrownOlder(a[i]) \in 0 .. Second
    BY <1>2, <1>4 DEF GrownOlder
<1>6. allowed'[p] \in Seq(0 .. Second) /\ Len(allowed'[p]) = Len(a)
    BY <1>1, <1>2, <1>5
<1>7. InWindows(allowed'[p], fs'[p])
    <2> SUFFICES ASSUME NEW i \in 1 .. Len(a)
                 PROVE  /\ i > f.count \/ i > MaxRate =>
                              GrownOlder(a[i]) >= FixtAged(f).sinceStart
                        /\ i > f.count + MaxRate \/ i > 2 * MaxRate => GrownOlder(a[i]) = Second
        BY <1>1, <1>3, <1>6 DEF InWindows
    <2>1. /\ i > f.count \/ i > MaxRate => a[i] >= f.sinceStart
          /\ i > f.count + MaxRate \/ i > 2 * MaxRate => a[i] = Second
        BY <1>2, Zenon DEF InWindows
    <2> QED BY <1>3, <1>4, <1>5, <2>1 DEF GrownOlder
<1> QED BY <1>6, <1>7

\* However messages, idle time, refusals and new connections fall, check_rate_limit
\* lets no more than two windows' worth through in any one second.
THEOREM LinkRateBounded == Spec => []RateBounded
<1>1. Init => RateInv
    <2> SUFFICES ASSUME Init PROVE RateInv
        OBVIOUS
    <2>1. allowed = [p \in Services |-> <<>>]
        BY DEF Init
    <2>2. <<>> \in Seq(0 .. Second) /\ Len(<<>>) = 0
        OBVIOUS
    <2>3. allowed \in [Services -> Seq(0 .. Second)] /\ \A p \in Services : Len(allowed[p]) = 0
        BY <2>1, <2>2
    <2> QED BY <2>3 DEF RateInv, InWindows
<1>2. RateInv /\ LInv /\ [Next]_vars => RateInv'
    <2> SUFFICES ASSUME RateInv, LInv, [Next]_vars PROVE RateInv'
        OBVIOUS
    <2>1. CASE Listen \/ Dial \/ Connect \/ ConnectFails
        BY <2>1, ConnectingPaced DEF Services
    <2>2. ASSUME NEW p \in Services,
                 \/ Disconnect(p) \/ Reset(p)
                 \/ Receive(p) \/ FillGap(p)
                 \/ SendApp(p) \/ Logout(p) \/ Timer(p)
          PROVE  RateInv'
        BY <2>2, ConnectingPaced, ReceivePaced, SendPaced
    <2>3. CASE Tick
        BY <2>3, TickPaced
    <2>4. CASE UNCHANGED vars
        BY <2>4, Zenon DEF vars, RateInv
    <2> QED BY <2>1, <2>2, <2>3, <2>4 DEF Next
<1>3. RateInv => RateBounded
    BY Zenon DEF RateInv, RateBounded, InWindows
<1> QED BY <1>1, <1>2, <1>3, LinkInvariant, PTL DEF Spec
====
