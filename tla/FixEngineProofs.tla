--------------------------- MODULE FixEngineProofs --------------------------
(***************************************************************************)
(* Proofs about FixEngine, for any heartbeat interval, batch size, bounds  *)
(* and application.  They follow one idea: whatever an engine does in a    *)
(* step, all its peer sees of it is a Turn, which takes some messages off  *)
(* the front of what is on its way to the engine and puts some more at the *)
(* end of what is on its way to the peer.  The last part adds the clocks.  *)
(***************************************************************************)
EXTENDS FixEngine, SessionProofs, SequenceTheorems, TLAPS

\* send_raw uses n numbers for n messages.
LEMMA SendRawView ==
    ASSUME NEW s \in Sessions, NEW n \in Nat
    PROVE  View(send_raw(s, n), s.role, s.state, s.outbound + n, s.inbound)
<1> DEFINE t == [s EXCEPT !.outbound = @ + n]
<1>1. s.outbound \in Nat \ {0} /\ s.outbound + n \in Nat \ {0} /\ s.outbound + 0 = s.outbound
    BY DEF Sessions
<1>2. View(t, s.role, s.state, s.outbound + n, s.inbound)
    BY <1>1, Zenon DEF View, Sessions
<1> HIDE DEF t
<1>3. View(on_message_sent(t), s.role, s.state, s.outbound + n, s.inbound)
    BY <1>2, TimeViews, Zenon DEF View
<1> QED BY <1>1, <1>3, Zenon DEF send_raw, View, t

\* send_logon, send_heartbeat and send_logout use one number.
LEMMA NumberedView ==
    ASSUME NEW s \in Sessions
    PROVE  /\ View(Numbered(s), s.role, s.state, s.outbound + 1, s.inbound)
           /\ View(next_outbound_seq_num(s), s.role, s.state, s.outbound + 1, s.inbound)
<1>1. View(next_outbound_seq_num(s), s.role, s.state, s.outbound + 1, s.inbound)
    BY NextOutboundView
<1> QED BY <1>1, TimeViews, Zenon DEF View, Numbered

-----------------------------------------------------------------------------
(* The inductive invariant                                                 *)

EngineTypeOK ==
    /\ TypeOK
    /\ buf \in [Engines -> Seq(Message)]
    /\ wire \in [Engines -> Seq(Message)]

\* The engine FixServer runs, which never counts the Logon read for it.
Uncounted(e) == server_mode /\ e = "acc"

\* The messages of q are numbered from n on and those to a counting engine parse.
NumberedFrom(q, n, e) ==
    \A i \in 1 .. Len(q) : q[i].seq = n + i - 1 /\ (q[i].type = "X" => Uncounted(e))

\* After should_stop is set, a Logout that could not be sent may have used a number.
Counts(e) == open[e] /\ ~(should_stop[e] /\ pc[e] = "top")

InSequence(e) ==
    \/ Uncounted(e)
    \/ /\ NumberedFrom(Incoming(e), sess[e].inbound, e)
       /\ open[e] /\ Counts(Peer(e)) =>
             sess[Peer(e)].outbound = sess[e].inbound + Len(Incoming(e))

\* No Logon has been dispatched yet,
PreSession(e) ==
    sess[e].state \in {"Disconnected", "Connecting", "LogonSent"} /\ ~should_stop[e]

\* and the engine's own has not been sent.
Ungreeted(e) == IF e = "ini" THEN pc[e] = "start" ELSE PreSession(e)

\* What one engine's own fields say of each other.
Local(e) ==
    /\ sess[e].role = IF e = "ini" THEN "Initiator" ELSE "Acceptor"
    /\ open[e] <=> ~Stopped(e)
    /\ pc[e] = "start" =>
          /\ e = "ini" \/ server_mode
          /\ buf[e] = <<>>
          /\ PreSession(e)
    /\ should_stop[e] => pc[e] \notin {"start", "recv"}
    /\ should_stop[e] /\ open[e] => sess[e].state = "Disconnected"
    /\ PreSession(e) /\ open[e] =>
          /\ sess[e].state = IF e = "ini" /\ pc[e] # "start" THEN "LogonSent" ELSE "Disconnected"
          /\ Uncounted(e) => pc[e] = "start"
    /\ logouts[e] > 0 => should_stop[e]

\* A Logout is the end of what is on its way to e; an engine that stops in the
\* middle of a batch has read one; and a Logon is the start of it.
Protocol(e) ==
    LET p == Peer(e)
        q == Incoming(e) IN
    /\ should_stop[e] /\ pc[e] = "batch" => q = <<>> /\ logouts[p] > 0
    /\ \A i \in 1 .. Len(q) : q[i].type = "5" => i = Len(q) /\ logouts[p] > 0
    /\ PreSession(e) /\ open[e] /\ q # <<>> => q[1].type = "A"
    /\ PreSession(e) /\ open[e] /\ open[p] /\ ~should_stop[p] /\ ~Ungreeted(p) => q # <<>>

EngineInv ==
    /\ EngineTypeOK
    /\ \A e \in Engines : Local(e)
    /\ \A e \in Engines : Protocol(e)
    /\ \A e \in Engines : InSequence(e)

-----------------------------------------------------------------------------
(* Turns                                                                   *)

\* What a step of e is to the two of them: it takes k messages, puts ms.
Turn(e, ms, k) ==
    LET p == Peer(e)
        q == Incoming(e) IN
    /\ sess'[p] = sess[p] /\ pc'[p] = pc[p] /\ buf'[p] = buf[p] /\ open'[p] = open[p]
    /\ should_stop'[p] = should_stop[p] /\ logouts'[p] = logouts[p]
    /\ server_mode' = server_mode
    \* the messages,
    /\ Incoming(e)' = SubSeq(q, k + 1, Len(q))
    /\ Incoming(p)' = IF open[p] THEN Incoming(p) \o ms ELSE Incoming(p)
    \* their numbers,
    /\ Uncounted(e) \/ (k \in {0, 1} /\ sess'[e].inbound = sess[e].inbound + k)
    /\ NumberedFrom(ms, sess[e].outbound, p)
    /\ Counts(e)' => Counts(e) /\ sess'[e].outbound = sess[e].outbound + Len(ms)
    \* their types,
    /\ ms # <<>> => open[e] /\ ~should_stop[e]
    /\ ms # <<>> /\ Ungreeted(e) => ms[1].type = "A"
    /\ \A i \in 1 .. Len(ms) : ms[i].type = "5" => i = Len(ms) /\ logouts'[e] > 0
    \* and the engine's progress.
    /\ open'[e] => open[e]
    /\ should_stop[e] => should_stop'[e]
    /\ logouts'[e] >= logouts[e]
    /\ should_stop'[e] /\ pc'[e] = "batch" =>
          \/ should_stop[e] /\ pc[e] = "batch" /\ k = 0
          \/ k = 1 /\ q[1].type = "5"
    /\ PreSession(e)' /\ open'[e] => PreSession(e) /\ k = 0
    /\ open'[e] /\ ~should_stop'[e] /\ ~Ungreeted(e)' => ~Ungreeted(e) \/ ms # <<>>

\* The two engines are each other's peer.
LEMMA Peers ==
    \A e \in Engines : Peer(e) \in Engines /\ Peer(Peer(e)) = e /\ Peer(e) # e
BY DEF Peer, Engines

\* The front of a sequence taken off.
LEMMA Dropped ==
    ASSUME NEW S, NEW q \in Seq(S), NEW k \in 0 .. Len(q)
    PROVE  LET r == SubSeq(q, k + 1, Len(q)) IN
           /\ r \in Seq(S)
           /\ Len(r) = Len(q) - k
           /\ \A i \in 1 .. Len(r) : r[i] = q[i + k]
OBVIOUS

\* Two sequences joined.
LEMMA Joined ==
    ASSUME NEW S, NEW q \in Seq(S), NEW r \in Seq(S)
    PROVE  /\ q \o r \in Seq(S)
           /\ Len(q \o r) = Len(q) + Len(r)
           /\ \A i \in 1 .. Len(q) : (q \o r)[i] = q[i]
           /\ \A i \in 1 .. Len(q) + Len(r) : i > Len(q) => (q \o r)[i] = r[i - Len(q)]
OBVIOUS

\* The first k messages of w moved to the end of b lose and add nothing.
MovesAll(b, w, k) ==
    /\ b \o SubSeq(w, 1, k) \in Seq(Message) /\ SubSeq(w, k + 1, Len(w)) \in Seq(Message)
    /\ (b \o SubSeq(w, 1, k)) \o SubSeq(w, k + 1, Len(w)) = b \o w

\* recv() moves the front of what is in flight to the end of recv_buf.
LEMMA Moved ==
    ASSUME NEW b \in Seq(Message), NEW w \in Seq(Message), NEW k \in 0 .. Len(w)
    PROVE  MovesAll(b, w, k)
<1> DEFINE x == SubSeq(w, 1, k)
           y == SubSeq(w, k + 1, Len(w))
<1>1. x \in Seq(Message) /\ y \in Seq(Message)
    OBVIOUS
<1>2. x \o y = w
    <2>1. Len(x) = k /\ Len(y) = Len(w) - k
        OBVIOUS
    <2>2. \A i \in 1 .. Len(x) : x[i] = w[i]
        OBVIOUS
    <2>3. \A i \in 1 .. Len(y) : y[i] = w[i + k]
        OBVIOUS
    <2> HIDE DEF x, y
    <2> DEFINE z == x \o y
    <2>4. /\ z \in Seq(Message)
          /\ Len(z) = Len(x) + Len(y)
          /\ \A i \in 1 .. Len(x) : z[i] = x[i]
          /\ \A i \in 1 .. Len(x) + Len(y) : i > Len(x) => z[i] = y[i - Len(x)]
        BY <1>1, Joined
    <2> HIDE DEF z
    <2>5. Len(w) \in Nat /\ k \in 0 .. Len(w)
        OBVIOUS
    <2>6. Len(z) = Len(w)
        BY <2>1, <2>4, <2>5
    <2>7. ASSUME NEW i \in 1 .. Len(z)
          PROVE  z[i] = w[i]
        <3>1. CASE i <= k
            BY <3>1, <2>1, <2>2, <2>4, <2>5
        <3>2. CASE i > k
            <4>1. i - k \in 1 .. Len(y) /\ i - k + k = i /\ i \in 1 .. Len(x) + Len(y)
                BY <3>2, <2>1, <2>5, <2>6
            <4> QED BY <4>1, <3>2, <2>1, <2>3, <2>4
        <3> QED BY <3>1, <3>2, <2>5
    <2>8. w \in Seq(Message)
        OBVIOUS
    <2>9. z = w
        BY <2>4, <2>6, <2>7, <2>8, SeqEqual
    <2> QED BY <2>9 DEF z
<1> HIDE DEF x, y
<1>3. b \o x \in Seq(Message) /\ (b \o x) \o y = b \o (x \o y)
    BY <1>1, Joined, SMTT(30)
<1> QED BY <1>1, <1>2, <1>3 DEF x, y, MovesAll

\* What is on its way to an engine is a sequence of messages.
LEMMA IncomingType ==
    ASSUME EngineTypeOK
    PROVE  \A e \in Engines : Incoming(e) \in Seq(Message) /\ Len(Incoming(e)) \in Nat
BY Peers DEF EngineTypeOK, Incoming

\* Session numbers and counters are numbers.
LEMMA FieldTypes ==
    ASSUME EngineTypeOK, NEW e \in Engines
    PROVE  /\ sess[e] \in Sessions
           /\ sess[e].inbound \in Nat /\ sess[e].outbound \in Nat
           /\ logouts[e] \in Nat
<1>1. sess[e] \in Sessions /\ logouts[e] \in Nat
    BY DEF EngineTypeOK, TypeOK
<1> QED BY <1>1 DEF Sessions

\* A turn keeps the numbers in step: what validate_inbound_seq counts is what was
\* taken, and what next_outbound_seq_num counts is what was put.
LEMMA TurnInSequence ==
    ASSUME EngineTypeOK, EngineTypeOK', NEW e \in Engines, InSequence(e), InSequence(Peer(e)),
           NEW ms \in Seq(Message), NEW k \in 0 .. Len(Incoming(e)), Turn(e, ms, k)
    PROVE  InSequence(e)' /\ InSequence(Peer(e))'
<1> DEFINE p == Peer(e)
           q == Incoming(e)
           r == Incoming(p)
<1>1. p \in Engines /\ Peer(p) = e /\ p # e
    BY Peers
<1>2. /\ q \in Seq(Message) /\ Len(q) \in Nat
      /\ r \in Seq(Message) /\ Len(r) \in Nat
      /\ Len(ms) \in Nat /\ k \in 0 .. Len(q)
      /\ sess[e].inbound \in Nat /\ sess[e].outbound \in Nat
      /\ sess[p].inbound \in Nat /\ sess[p].outbound \in Nat
    <2>1. \A f \in Engines : sess[f] \in Sessions /\ sess'[f] \in Sessions
        BY DEF EngineTypeOK, TypeOK
    <2>2. \A t \in Sessions : t.inbound \in Nat /\ t.outbound \in Nat
        BY DEF Sessions
    <2> QED BY <1>1, <2>1, <2>2, IncomingType
<1>3. InSequence(e)'
    <2>1. CASE Uncounted(e)
        BY <2>1 DEF InSequence, Uncounted, Turn
    <2>2. CASE ~Uncounted(e)
        <3>1. /\ NumberedFrom(q, sess[e].inbound, e)
              /\ open[e] /\ Counts(p) => sess[p].outbound = sess[e].inbound + Len(q)
            BY <2>2 DEF InSequence
        <3>2. /\ q' = SubSeq(q, k + 1, Len(q))
              /\ sess'[e].inbound = sess[e].inbound + k
              /\ sess'[p] = sess[p] /\ Counts(p)' = Counts(p) /\ Uncounted(e)' = Uncounted(e)
              /\ open'[e] => open[e]
            BY <2>2, Zenon DEF Turn, Counts, Uncounted
        <3>3. Len(q') = Len(q) - k /\ \A i \in 1 .. Len(q') : q'[i] = q[i + k]
            BY <3>2, <1>2, Dropped
        <3> HIDE DEF q, p
        <3>4. NumberedFrom(q, sess[e].inbound, e)'
            <4> SUFFICES ASSUME NEW i \in 1 .. Len(q')
                         PROVE  /\ q'[i].seq = sess'[e].inbound + i - 1
                                /\ q'[i].type = "X" => Uncounted(e)
                BY <3>2, Zenon DEF NumberedFrom
            <4>1. i + k \in 1 .. Len(q) /\ q'[i] = q[i + k]
                BY <3>3, <1>2
            <4>2. /\ q[i + k].seq = sess[e].inbound + (i + k) - 1
                  /\ q[i + k].type = "X" => Uncounted(e)
                BY <4>1, <3>1, Zenon DEF NumberedFrom
            <4>3. sess[e].inbound + (i + k) - 1 = (sess[e].inbound + k) + i - 1
                BY <1>2, SMTT(30)
            <4> QED BY <4>1, <4>2, <4>3, <3>2, Zenon
        <3>5. ASSUME open'[e], Counts(p)'
              PROVE  sess'[p].outbound = sess'[e].inbound + Len(q')
            <4>1. sess[p].outbound = sess[e].inbound + Len(q)
                BY <3>5, <3>1, <3>2, Zenon
            <4>2. sess[e].inbound + Len(q) = (sess[e].inbound + k) + (Len(q) - k)
                BY <1>2
            <4> QED BY <4>1, <4>2, <3>2, <3>3, Zenon
        <3> QED BY <3>4, <3>5 DEF InSequence, q, p, NumberedFrom
    <2> QED BY <2>1, <2>2
<1>4. InSequence(p)'
    <2>1. CASE Uncounted(p)
        BY <2>1 DEF InSequence, Uncounted, Turn
    <2>2. CASE ~Uncounted(p)
        <3>1. /\ NumberedFrom(r, sess[p].inbound, p)
              /\ open[p] /\ Counts(e) => sess[e].outbound = sess[p].inbound + Len(r)
            BY <2>2, <1>1 DEF InSequence
        <3>2. /\ r' = IF open[p] THEN r \o ms ELSE r
              /\ NumberedFrom(ms, sess[e].outbound, p)
              /\ Counts(e)' => Counts(e) /\ sess'[e].outbound = sess[e].outbound + Len(ms)
              /\ sess'[p] = sess[p] /\ open'[p] = open[p] /\ Uncounted(p)' = Uncounted(p)
              /\ ms # <<>> => open[e] /\ ~should_stop[e]
            BY Zenon DEF Turn, Uncounted
        <3>3. CASE open[p] /\ ms # <<>>
            <4>1. Counts(e)
                BY <3>2, <3>3 DEF Counts
            <4>2. /\ Len(r') = Len(r) + Len(ms)
                  /\ \A i \in 1 .. Len(r) : r'[i] = r[i]
                  /\ \A i \in 1 .. Len(r) + Len(ms) : i > Len(r) => r'[i] = ms[i - Len(r)]
                BY <3>2, <3>3, <1>2, Joined
            <4> HIDE DEF r, p
            <4>3. NumberedFrom(r, sess[p].inbound, p)'
                <5> SUFFICES ASSUME NEW i \in 1 .. Len(r')
                             PROVE  /\ r'[i].seq = sess'[p].inbound + i - 1
                                    /\ r'[i].type = "X" => Uncounted(p)
                    BY <3>2 DEF NumberedFrom
                <5>1. CASE i <= Len(r)
                    <6>1. i \in 1 .. Len(r)
                        BY <5>1, <1>2
                    <6> QED BY <6>1, <4>2, <3>1, <3>2, Zenon DEF NumberedFrom
                <5>2. CASE i > Len(r)
                    <6>1. /\ i - Len(r) \in 1 .. Len(ms)
                          /\ r'[i] = ms[i - Len(r)]
                        BY <5>2, <4>2, <1>2
                    <6>2. ms[i - Len(r)].seq = sess[e].outbound + (i - Len(r)) - 1
                          /\ (ms[i - Len(r)].type = "X" => Uncounted(p))
                        BY <6>1, <3>2 DEF NumberedFrom
                    <6>3. sess[e].outbound = sess[p].inbound + Len(r) /\ i \in Nat
                        BY <4>1, <3>1, <3>3, <5>2
                    <6>4. ms[i - Len(r)].seq = sess[p].inbound + i - 1
                        BY <6>2, <6>3, <1>2, SMTT(30)
                    <6> QED BY <6>1, <6>2, <6>4, <3>2
                <5> QED BY <5>1, <5>2, <1>2
            <4>4. open'[p] /\ Counts(e)' => sess'[e].outbound = sess'[p].inbound + Len(r')
                BY <4>1, <4>2, <3>1, <3>2, <3>3, <1>1, <1>2, SMTT(30)
            <4> QED BY <4>3, <4>4, <1>1 DEF InSequence, r, p, NumberedFrom
        <3>4. CASE ~open[p] \/ ms = <<>>
            <4>1. r' = r
                BY <3>2, <3>4, <1>2
            <4>2. open[p] => Len(ms) = 0
                BY <3>4
            <4>3. NumberedFrom(r, sess[p].inbound, p)'
                BY <3>1, <3>2, <4>1 DEF NumberedFrom
            <4>4. open'[p] /\ Counts(e)' => sess'[e].outbound = sess'[p].inbound + Len(r')
                <5> HIDE DEF r, p
                <5> QED BY <4>1, <4>2, <3>1, <3>2, <1>1, <1>2
            <4> QED BY <4>1, <4>3, <4>4, <1>1 DEF InSequence, NumberedFrom
        <3> QED BY <3>3, <3>4
    <2> QED BY <2>1, <2>2
<1> QED BY <1>3, <1>4

\* A turn keeps a Logon the first and a Logout the last of what is on its way.
LEMMA TurnProtocol ==
    ASSUME EngineTypeOK, EngineTypeOK', NEW e \in Engines,
           Local(e), Protocol(e), Protocol(Peer(e)),
           NEW ms \in Seq(Message), NEW k \in 0 .. Len(Incoming(e)), Turn(e, ms, k)
    PROVE  Protocol(e)' /\ Protocol(Peer(e))'
<1> DEFINE p == Peer(e)
           q == Incoming(e)
           r == Incoming(p)
<1>1. p \in Engines /\ Peer(p) = e /\ p # e
    BY Peers
<1>2. /\ q \in Seq(Message) /\ Len(q) \in Nat
      /\ r \in Seq(Message) /\ Len(r) \in Nat
      /\ q' \in Seq(Message) /\ Len(q') \in Nat
      /\ r' \in Seq(Message) /\ Len(r') \in Nat
      /\ Len(ms) \in Nat /\ k \in 0 .. Len(q)
      /\ logouts[e] \in Nat /\ logouts'[e] \in Nat /\ logouts[p] \in Nat
    <2>1. /\ q' \in Seq(Message) /\ r' \in Seq(Message)
          /\ logouts'[e] \in Nat
        BY <1>1 DEF EngineTypeOK, TypeOK, Incoming
    <2> QED BY <1>1, <2>1, IncomingType, FieldTypes
<1>3. /\ pc'[p] = pc[p] /\ open'[p] = open[p]
      /\ should_stop'[p] = should_stop[p] /\ logouts'[p] = logouts[p]
      /\ PreSession(p)' = PreSession(p) /\ Ungreeted(p)' = Ungreeted(p)
    BY Zenon DEF Turn, PreSession, Ungreeted
<1>4. logouts[e] > 0 => ms = <<>> /\ logouts'[e] > 0
    BY <1>2 DEF Turn, Local
<1>5. Protocol(e)'
    <2>1. q' = SubSeq(q, k + 1, Len(q))
        BY DEF Turn
    <2>2. Len(q') = Len(q) - k /\ \A i \in 1 .. Len(q') : q'[i] = q[i + k]
        <3>1. q \in Seq(Message) /\ k \in 0 .. Len(q)
            BY <1>2
        <3> HIDE DEF q, r
        <3> QED BY <2>1, <3>1, Dropped
    <2>3. ASSUME should_stop'[e], pc'[e] = "batch"
          PROVE  q' = <<>> /\ logouts'[p] > 0
        <3>1. \/ should_stop[e] /\ pc[e] = "batch" /\ k = 0
              \/ k = 1 /\ q[1].type = "5"
            BY <2>3 DEF Turn
        <3>2. CASE should_stop[e] /\ pc[e] = "batch" /\ k = 0
            <4>1. q = <<>> /\ logouts[p] > 0
                BY <3>2 DEF Protocol
            <4> HIDE DEF q
            <4> QED BY <4>1, <3>2, <2>2, <1>2, <1>3
        <3>3. CASE k = 1 /\ q[1].type = "5"
            <4>1. 1 \in 1 .. Len(q)
                BY <3>3, <1>2
            <4>2. 1 = Len(q) /\ logouts[p] > 0
                BY <4>1, <3>3 DEF Protocol
            <4> HIDE DEF q
            <4>3. Len(q') = 0
                BY <4>2, <3>3, <2>2
            <4> QED BY <4>2, <4>3, <1>2, <1>3
        <3> QED BY <3>1, <3>2, <3>3
    <2>4. ASSUME NEW i \in 1 .. Len(q'), q'[i].type = "5"
          PROVE  i = Len(q') /\ logouts'[p] > 0
        <3>1. i + k \in 1 .. Len(q) /\ q[i + k].type = "5"
            BY <2>2, <2>4, <1>2
        <3>2. i + k = Len(q) /\ logouts[p] > 0
            BY <3>1 DEF Protocol
        <3> HIDE DEF q
        <3> QED BY <3>2, <2>2, <1>2, <1>3
    <2>5. ASSUME PreSession(e)', open'[e]
          PROVE  PreSession(e) /\ open[e] /\ q' = q
        <3>1. PreSession(e) /\ open[e] /\ k = 0
            BY <2>5 DEF Turn
        <3> QED BY <3>1, <2>1, <1>2
    <2>6. ASSUME PreSession(e)', open'[e], q' # <<>>
          PROVE  q'[1].type = "A"
        BY <2>5, <2>6 DEF Protocol
    <2>7. ASSUME PreSession(e)', open'[e], open'[p], ~should_stop'[p], ~Ungreeted(p)'
          PROVE  q' # <<>>
        BY <2>5, <2>7, <1>3, Zenon DEF Protocol
    <2> QED BY <2>3, <2>4, <2>6, <2>7 DEF Protocol
<1>6. Protocol(p)'
    <2>1. r' = IF open[p] THEN r \o ms ELSE r
        BY DEF Turn
    <2>2. ms = <<>> => r' = r
        BY <2>1, <1>2
    <2>3. ASSUME should_stop'[p], pc'[p] = "batch"
          PROVE  r' = <<>> /\ logouts'[e] > 0
        <3>1. r = <<>> /\ logouts[e] > 0
            BY <2>3, <1>1, <1>3 DEF Protocol
        <3> QED BY <3>1, <2>2, <1>4
    <2>4. ASSUME NEW i \in 1 .. Len(r'), r'[i].type = "5"
          PROVE  i = Len(r') /\ logouts'[e] > 0
        <3>1. CASE r' = r
            <4>1. i = Len(r) /\ logouts[e] > 0
                BY <3>1, <2>4, <1>1 DEF Protocol
            <4> QED BY <4>1, <3>1, <1>4
        <3>2. CASE r' = r \o ms /\ i <= Len(r)
            <4>1. i \in 1 .. Len(r) /\ r'[i] = r[i]
                BY <3>2, <1>2, Joined
            <4>2. i = Len(r) /\ logouts[e] > 0
                BY <4>1, <2>4, <1>1 DEF Protocol
            <4> QED BY <4>2, <2>2, <1>4
        <3>3. CASE r' = r \o ms /\ i > Len(r)
            <4>1. /\ i - Len(r) \in 1 .. Len(ms)
                  /\ r'[i] = ms[i - Len(r)]
                  /\ Len(r') = Len(r) + Len(ms)
                BY <3>3, <1>2, Joined
            <4>2. i - Len(r) = Len(ms) /\ logouts'[e] > 0
                BY <4>1, <2>4 DEF Turn
            <4> HIDE DEF r
            <4> QED BY <4>1, <4>2, <1>2
        <3> QED BY <3>1, <3>2, <3>3, <2>1, <1>2
    <2>5. ASSUME PreSession(p)', open'[p], r' # <<>>
          PROVE  r'[1].type = "A"
        <3>1. PreSession(p) /\ open[p] /\ r' = r \o ms
            BY <2>5, <2>1, <1>3, Zenon
        <3>2. CASE r # <<>>
            <4>1. r[1].type = "A"
                BY <3>1, <3>2, <1>1 DEF Protocol
            <4>2. 1 \in 1 .. Len(r)
                BY <3>2, <1>2
            <4> QED BY <4>1, <4>2, <3>1, <1>2, Joined
        <3>3. CASE r = <<>>
            <4>1. r' = ms /\ ms # <<>>
                BY <3>1, <3>3, <2>5, <1>2
            <4>2. open[e] /\ ~should_stop[e]
                BY <4>1 DEF Turn
            <4>3. Ungreeted(e)
                BY <4>2, <3>1, <3>3, <1>1, Zenon DEF Protocol
            <4> QED BY <4>1, <4>3 DEF Turn
        <3> QED BY <3>2, <3>3
    <2>6. ASSUME PreSession(p)', open'[p], open'[e], ~should_stop'[e], ~Ungreeted(e)'
          PROVE  r' # <<>>
        <3>1. PreSession(p) /\ open[p] /\ r' = r \o ms
            BY <2>6, <2>1, <1>3, Zenon
        <3>2. open[e] /\ ~should_stop[e] /\ (~Ungreeted(e) \/ ms # <<>>)
            BY <2>6, Zenon DEF Turn
        <3>3. r # <<>> \/ ms # <<>>
            BY <3>1, <3>2, <1>1, Zenon DEF Protocol
        <3>4. Len(r) > 0 \/ Len(ms) > 0
            BY <3>3, <1>2
        <3>5. Len(r') = Len(r) + Len(ms)
            BY <3>1, <1>2, Joined
        <3> HIDE DEF r
        <3> QED BY <3>4, <3>5, <1>2
    <2> QED BY <2>3, <2>4, <2>5, <2>6, <1>1 DEF Protocol
<1> QED BY <1>5, <1>6

-----------------------------------------------------------------------------
(* Every step of an engine is a turn                                       *)

\* A step of e is a turn that leaves e's fields consistent.
TakesTurn(e) ==
    /\ EngineTypeOK'
    /\ Local(e)'
    /\ \E ms \in Seq(Message) : \E k \in 0 .. Len(Incoming(e)) : Turn(e, ms, k)

\* What Put does to what is on its way to the peer.
LEMMA PutIncoming ==
    ASSUME EngineTypeOK, NEW e \in Engines, NEW ms \in Seq(Message), Put(e, ms)
    PROVE  /\ wire' \in [Engines -> Seq(Message)]
           /\ wire'[Peer(e)] = wire[Peer(e)]
           /\ buf'[Peer(e)] = buf[Peer(e)] =>
                 Incoming(Peer(e))' = IF open[Peer(e)] THEN Incoming(Peer(e)) \o ms
                                      ELSE Incoming(Peer(e))
<1> DEFINE p == Peer(e)
<1>1. p \in Engines /\ Peer(p) = e /\ p # e
    BY Peers
<1>2. wire[e] \in Seq(Message) /\ buf[p] \in Seq(Message) /\ wire \in [Engines -> Seq(Message)]
    BY <1>1 DEF EngineTypeOK
<1>3. wire' = [wire EXCEPT ![e] = IF open[p] THEN wire[e] \o ms ELSE wire[e]]
    BY DEF Put
<1>4. wire' \in [Engines -> Seq(Message)] /\ wire'[p] = wire[p]
    BY <1>1, <1>2, <1>3
<1>5. wire'[e] = IF open[p] THEN wire[e] \o ms ELSE wire[e]
    BY <1>2, <1>3
<1>6. buf[p] \o (wire[e] \o ms) = (buf[p] \o wire[e]) \o ms
    <2> DEFINE b == buf[p]  w == wire[e]
    <2>1. b \in Seq(Message) /\ w \in Seq(Message)
        BY <1>2
    <2> HIDE DEF b, w
    <2>2. b \o (w \o ms) = (b \o w) \o ms
        BY <2>1
    <2> QED BY <2>2 DEF b, w
<1> QED BY <1>1, <1>4, <1>5, <1>6, Zenon DEF Incoming

\* What taking the first message of recv_buf does to what is on its way to e.
LEMMA TakeIncoming ==
    ASSUME EngineTypeOK, NEW e \in Engines, NEW types, Dispatching(e, types)
    PROVE  /\ buf' \in [Engines -> Seq(Message)]
           /\ buf'[Peer(e)] = buf[Peer(e)]
           /\ 1 \in 0 .. Len(Incoming(e)) /\ Incoming(e) # <<>>
           /\ Incoming(e)[1] = Head(buf[e]) /\ Head(buf[e]) \in Message
           /\ wire'[Peer(e)] = wire[Peer(e)] =>
                 Incoming(e)' = SubSeq(Incoming(e), 1 + 1, Len(Incoming(e)))
<1> DEFINE p == Peer(e)
<1>1. p \in Engines /\ Peer(p) = e /\ p # e
    BY Peers
<1>2. wire[p] \in Seq(Message) /\ buf[e] \in Seq(Message) /\ buf \in [Engines -> Seq(Message)]
    BY <1>1 DEF EngineTypeOK
<1>3. buf[e] # <<>> /\ buf' = [buf EXCEPT ![e] = Tail(buf[e])]
    BY DEF Dispatching
<1>4. /\ buf' \in [Engines -> Seq(Message)]
      /\ buf'[p] = buf[p]
      /\ buf'[e] = Tail(buf[e])
    BY <1>1, <1>2, <1>3
<1>5. /\ Tail(buf[e]) \o wire[p] = SubSeq(buf[e] \o wire[p], 1 + 1, Len(buf[e] \o wire[p]))
      /\ (buf[e] \o wire[p])[1] = Head(buf[e]) /\ Head(buf[e]) \in Message
      /\ 1 \in 0 .. Len(buf[e] \o wire[p]) /\ buf[e] \o wire[p] # <<>>
    BY <1>2, <1>3
<1> QED BY <1>1, <1>4, <1>5, Zenon DEF Incoming

\* Steps that leave recv_buf and the bytes in flight alone take nothing.
LEMMA KeepIncoming ==
    ASSUME EngineTypeOK, NEW e \in Engines,
           buf'[e] = buf[e], wire'[Peer(e)] = wire[Peer(e)]
    PROVE  /\ 0 \in 0 .. Len(Incoming(e))
           /\ Incoming(e)' = SubSeq(Incoming(e), 0 + 1, Len(Incoming(e)))
<1>1. Incoming(e) \in Seq(Message)
    BY IncomingType
<1>2. Incoming(e)' = Incoming(e)
    BY DEF Incoming
<1> QED BY <1>1, <1>2

\* What the first message of recv_buf does to the session.
LEMMA ReceivedView ==
    ASSUME EngineInv, NEW e \in Engines, NEW types, Dispatching(e, types)
    PROVE  LET s == Received(e) IN
           /\ s \in Sessions /\ s.role = sess[e].role /\ s.outbound = sess[e].outbound
           /\ s.state = sess[e].state \/ s.state = "Resending"
           /\ Uncounted(e) \/ s.inbound = sess[e].inbound + 1
           /\ Uncounted(e) \/ s.state = sess[e].state
           /\ Head(buf[e]).type = "X" => Uncounted(e)
<1>1. sess[e] \in Sessions /\ sess[e].inbound \in Nat
    BY FieldTypes DEF EngineInv
<1>2. Incoming(e)[1] = Head(buf[e]) /\ Head(buf[e]).seq \in Nat /\ 1 \in 1 .. Len(Incoming(e))
    BY TakeIncoming, IncomingType DEF EngineInv, Message
<1>3. \/ Uncounted(e)
      \/ Head(buf[e]).seq = sess[e].inbound /\ Head(buf[e]).type # "X"
    <2>1. Uncounted(e) \/ NumberedFrom(Incoming(e), sess[e].inbound, e)
        BY DEF EngineInv, InSequence
    <2>2. sess[e].inbound + 1 - 1 = sess[e].inbound
        BY <1>1
    <2>3. NumberedFrom(Incoming(e), sess[e].inbound, e) =>
              /\ Incoming(e)[1].seq = sess[e].inbound + 1 - 1
              /\ Incoming(e)[1].type = "X" => Uncounted(e)
        BY <1>2, Zenon DEF NumberedFrom
    <2> QED BY <1>2, <2>1, <2>2, <2>3, Zenon
<1>4. View(Received(e), sess[e].role,
           IF Head(buf[e]).seq > sess[e].inbound THEN "Resending" ELSE sess[e].state,
           sess[e].outbound,
           IF Head(buf[e]).seq = sess[e].inbound THEN sess[e].inbound + 1 ELSE sess[e].inbound)
    BY <1>1, <1>2, ValidateView, Zenon DEF Received
<1>5. Head(buf[e]).seq = sess[e].inbound => ~(Head(buf[e]).seq > sess[e].inbound)
    BY <1>1
<1> QED BY <1>3, <1>4, <1>5, Zenon DEF View

\* The peer's fields, which a step of e leaves alone.
Alone(e) ==
    LET p == Peer(e) IN
    /\ sess'[p] = sess[p] /\ pc'[p] = pc[p] /\ buf'[p] = buf[p] /\ open'[p] = open[p]
    /\ should_stop'[p] = should_stop[p] /\ logouts'[p] = logouts[p]
    /\ server_mode' = server_mode


\* An engine that dispatches is in its loop, and does not after a Logout; only a
\* Logon is dispatched before a session.
LEMMA DispatchState ==
    ASSUME EngineInv, NEW e \in Engines, NEW types, Dispatching(e, types)
    PROVE  /\ pc[e] = "batch" /\ open[e] /\ ~should_stop[e]
           /\ Head(buf[e]).type \in types
           /\ PreSession(e) => Head(buf[e]).type = "A"
           /\ Ungreeted(e) => PreSession(e)
           /\ ~PreSession(e) => sess[e].state \in {"Active", "Resending", "LogoutSent"}
<1>1. EngineTypeOK /\ Local(e) /\ Protocol(e)
    BY DEF EngineInv
<1>2. pc[e] = "batch" /\ Head(buf[e]).type \in types
    BY DEF Dispatching
<1>3. Incoming(e) # <<>> /\ Incoming(e)[1] = Head(buf[e])
    BY <1>1, TakeIncoming
<1>4. ~should_stop[e]
    BY <1>1, <1>2, <1>3, Zenon DEF Protocol
<1>5. open[e]
    BY <1>1, <1>2 DEF Local, Stopped
<1>6. PreSession(e) => Head(buf[e]).type = "A"
    BY <1>1, <1>3, <1>5 DEF Protocol
<1>7. Ungreeted(e) => PreSession(e)
    BY <1>1, Zenon DEF Ungreeted, Local
<1>8. ~PreSession(e) => sess[e].state \in {"Active", "Resending", "LogoutSent"}
    BY <1>4, <1>1, FieldTypes DEF PreSession, Sessions, SessionState
<1> QED BY <1>2, <1>4, <1>5, <1>6, <1>7, <1>8

\* A dispatch that counts what it sends, ms, and goes on in session or stops after a
\* Logout, or else fails.
Dispatched(e, ms) ==
    /\ ms \in Seq(Message)
    /\ Put(e, ms)
    /\ NumberedFrom(ms, sess[e].outbound, Peer(e))
    /\ sess'[e].role = sess[e].role
    /\ Uncounted(e) \/ sess'[e].inbound = sess[e].inbound + 1
    /\ \/ ~open'[e] /\ pc'[e] \in {"done", "failed"}
       \/ /\ open'[e] /\ pc'[e] = "batch"
          /\ sess'[e].outbound = sess[e].outbound + Len(ms)
          /\ Ungreeted(e) => ms # <<>>
    /\ Ungreeted(e) /\ ms # <<>> => ms[1].type = "A"
    /\ \A i \in 1 .. Len(ms) : ms[i].type = "5" => i = Len(ms) /\ logouts'[e] > 0
    /\ \/ /\ ~should_stop'[e] /\ logouts'[e] = logouts[e]
          /\ open'[e] => sess'[e].state \in {"Active", "Resending", "LogoutSent"}
       \/ /\ should_stop'[e] /\ logouts'[e] >= logouts[e]
          /\ Head(buf[e]).type = "5" /\ sess'[e].state = "Disconnected"

\* Such a dispatch is a turn.
LEMMA DispatchTurn ==
    ASSUME EngineInv, NEW e \in Engines, NEW types, Dispatching(e, types),
           EngineTypeOK', Alone(e), NEW ms, Dispatched(e, ms)
    PROVE  TakesTurn(e)
<1> DEFINE p == Peer(e)
<1> USE DEF Dispatched
<1>1. EngineTypeOK /\ Local(e)
    BY DEF EngineInv
<1>2. /\ pc[e] = "batch" /\ open[e] /\ ~should_stop[e]
      /\ Ungreeted(e) => PreSession(e)
    BY DispatchState
<1>3. logouts[e] \in Nat /\ logouts'[e] \in Nat
    BY DEF EngineInv, EngineTypeOK, TypeOK
<1>4. /\ Incoming(e)' = SubSeq(Incoming(e), 1 + 1, Len(Incoming(e)))
      /\ Incoming(e)[1] = Head(buf[e])
      /\ 1 \in 0 .. Len(Incoming(e))
      /\ Incoming(p)' = IF open[p] THEN Incoming(p) \o ms ELSE Incoming(p)
    BY <1>1, TakeIncoming, PutIncoming, Zenon
<1>5. ~(PreSession(e)' /\ open'[e])
    BY DEF PreSession
<1>6. Local(e)'
    <2>1. pc'[e] \in {"batch", "done", "failed"} /\ (open'[e] <=> ~Stopped(e)')
        BY DEF Stopped
    <2>2. sess'[e].role = IF e = "ini" THEN "Initiator" ELSE "Acceptor"
        BY <1>1 DEF Local
    <2>3. logouts'[e] > 0 => should_stop'[e]
        BY <1>1, <1>2, <1>3 DEF Local
    <2>4. should_stop'[e] /\ open'[e] => sess'[e].state = "Disconnected"
        OBVIOUS
    <2>5. pc'[e] # "start" /\ pc'[e] # "recv"
        BY <2>1
    <2> QED BY <2>1, <2>2, <2>3, <2>4, <2>5, <1>5, Zenon DEF Local
<1>7. Turn(e, ms, 1)
    <2>1. Alone(e) /\ Incoming(e)' = SubSeq(Incoming(e), 1 + 1, Len(Incoming(e)))
        BY <1>4
    <2>2. Uncounted(e) \/ (1 \in {0, 1} /\ sess'[e].inbound = sess[e].inbound + 1)
        BY Zenon
    <2>3. Counts(e)' => Counts(e) /\ sess'[e].outbound = sess[e].outbound + Len(ms)
        BY <1>2 DEF Counts
    <2>4. logouts'[e] >= logouts[e]
        BY <1>3
    <2>5. should_stop'[e] /\ pc'[e] = "batch" => 1 = 1 /\ Incoming(e)[1].type = "5"
        BY <1>4
    <2>6. open'[e] /\ ~should_stop'[e] /\ ~Ungreeted(e)' => ~Ungreeted(e) \/ ms # <<>>
        BY <1>2 DEF Ungreeted
    <2>7. ms # <<>> /\ Ungreeted(e) => ms[1].type = "A"
        BY <1>2
    <2> QED BY <2>1, <2>2, <2>3, <2>4, <2>5, <2>6, <2>7, <1>2, <1>4, <1>5, Zenon DEF Turn, Alone
<1> QED BY <1>4, <1>6, <1>7 DEF TakesTurn

\* A step that gives e's fields new values and leaves the peer's alone.
Becomes(e, t, label, o, stop, n) ==
    /\ t \in Sessions /\ sess' = [sess EXCEPT ![e] = t]
    /\ label \in Labels /\ pc' = [pc EXCEPT ![e] = label]
    /\ o \in BOOLEAN /\ open' = [open EXCEPT ![e] = o]
    /\ stop \in BOOLEAN /\ should_stop' = [should_stop EXCEPT ![e] = stop]
    /\ n \in Nat /\ logouts' = [logouts EXCEPT ![e] = n]
    /\ buf' \in [Engines -> Seq(Message)] /\ buf'[Peer(e)] = buf[Peer(e)]
    /\ wire' \in [Engines -> Seq(Message)]
    /\ left' \in [Engines -> 0 .. MaxApp[prompt]]
    /\ partial' \in [Engines -> BOOLEAN] /\ due' \subseteq Engines /\ fault' \in BOOLEAN
    /\ UNCHANGED mode

\* Such a step keeps every field's type.
LEMMA StepFrame ==
    ASSUME EngineTypeOK, NEW e \in Engines, NEW t, NEW label, NEW o, NEW stop, NEW n,
           Becomes(e, t, label, o, stop, n)
    PROVE  /\ EngineTypeOK' /\ Alone(e)
           /\ sess'[e] = t /\ pc'[e] = label /\ open'[e] = o
           /\ should_stop'[e] = stop /\ logouts'[e] = n
<1> USE DEF Becomes
<1> DEFINE p == Peer(e)
<1>0. p \in Engines /\ p # e
    BY Peers
<1> HIDE DEF p
<1>1. /\ sess \in [Engines -> Sessions] /\ pc \in [Engines -> Labels]
      /\ open \in [Engines -> BOOLEAN] /\ should_stop \in [Engines -> BOOLEAN]
      /\ logouts \in [Engines -> Nat] /\ server_mode' = server_mode /\ prompt' = prompt
      /\ [server |-> server_mode, prompt |-> prompt] \in Modes
    BY DEF EngineTypeOK, TypeOK, mode
<1>2. sess' \in [Engines -> Sessions] /\ sess'[p] = sess[p] /\ sess'[e] = t
    BY <1>0, <1>1, Zenon
<1>3. pc' \in [Engines -> Labels] /\ pc'[p] = pc[p] /\ pc'[e] = label
    BY <1>0, <1>1, Zenon
<1>4. open' \in [Engines -> BOOLEAN] /\ open'[p] = open[p] /\ open'[e] = o
    BY <1>0, <1>1, Zenon
<1>5. should_stop' \in [Engines -> BOOLEAN] /\ should_stop'[p] = should_stop[p] /\ should_stop'[e] = stop
    BY <1>0, <1>1, Zenon
<1>6. logouts' \in [Engines -> Nat] /\ logouts'[p] = logouts[p] /\ logouts'[e] = n
    BY <1>0, <1>1, Zenon
<1>7. \A q \in Seq(Message) : \A i \in 1 .. Len(q) : q[i] \in Message
    OBVIOUS
<1>8. /\ \A f \in Engines : \A i \in 1 .. Len(buf'[f]) : buf'[f][i] \in Message
      /\ \A f \in Engines : \A i \in 1 .. Len(wire'[f]) : wire'[f][i] \in Message
    BY <1>7
<1>9. EngineTypeOK'
    BY <1>1, <1>2, <1>3, <1>4, <1>5, <1>6, <1>8, Zenon DEF EngineTypeOK, TypeOK
<1>10. Alone(e)
    BY <1>1, <1>2, <1>3, <1>4, <1>5, <1>6, Zenon DEF Alone, p
<1> QED BY <1>2, <1>3, <1>4, <1>5, <1>6, <1>9, <1>10

\* A field that does not change.
LEMMA Kept ==
    ASSUME NEW f, NEW S, f \in [Engines -> S], NEW e \in Engines
    PROVE  f = [f EXCEPT ![e] = f[e]] /\ f[e] \in S
OBVIOUS

\* Nothing is sent.
LEMMA PutNothing ==
    ASSUME EngineTypeOK, NEW e \in Engines, UNCHANGED wire
    PROVE  Put(e, <<>>)
<1>1. wire \in [Engines -> Seq(Message)] /\ wire[e] \in Seq(Message)
    BY DEF EngineTypeOK
<1>2. wire[e] \o <<>> = wire[e]
    BY <1>1
<1> QED BY <1>1, <1>2, Kept, Zenon DEF Put

\* The engine's own messages are one of a session type, numbered next.
LEMMA OneMessage ==
    ASSUME NEW s \in Sessions, NEW type \in MsgType \ {"X"}, NEW e \in Engines
    PROVE  /\ <<Msg(type, s)>> \in Seq(Message)
           /\ Len(<<Msg(type, s)>>) = 1
           /\ <<Msg(type, s)>> # <<>>
           /\ <<Msg(type, s)>>[1].type = type
           /\ \A i \in 1 .. Len(<<Msg(type, s)>>) : <<Msg(type, s)>>[i].type = type
           /\ NumberedFrom(<<Msg(type, s)>>, s.outbound, e)
<1>1. s.outbound \in Nat
    BY DEF Sessions
<1> QED BY <1>1 DEF Msg, Message, NumberedFrom, MsgType

\* None at all are numbered from any number.
LEMMA NoMessage ==
    ASSUME NEW n, NEW e \in Engines
    PROVE  /\ <<>> \in Seq(Message) /\ Len(<<>>) = 0
           /\ NumberedFrom(<<>>, n, e)
BY DEF NumberedFrom

\* The types of the fields, and what it means for e's to be left alone.
LEMMA Fields ==
    ASSUME EngineTypeOK, NEW e \in Engines
    PROVE  /\ sess \in [Engines -> Sessions] /\ sess[e] \in Sessions
           /\ pc = [pc EXCEPT ![e] = pc[e]] /\ pc[e] \in Labels
           /\ open = [open EXCEPT ![e] = open[e]] /\ open[e] \in BOOLEAN
           /\ should_stop = [should_stop EXCEPT ![e] = should_stop[e]] /\ should_stop[e] \in BOOLEAN
           /\ logouts = [logouts EXCEPT ![e] = logouts[e]] /\ logouts[e] \in Nat
           /\ sess = [sess EXCEPT ![e] = sess[e]]
           /\ left \in [Engines -> 0 .. MaxApp[prompt]] /\ wire \in [Engines -> Seq(Message)]
           /\ buf \in [Engines -> Seq(Message)]
           /\ partial \in [Engines -> BOOLEAN] /\ due \subseteq Engines /\ fault \in BOOLEAN
           /\ Peer(e) \in Engines
<1>1. /\ sess \in [Engines -> Sessions] /\ pc \in [Engines -> Labels]
      /\ open \in [Engines -> BOOLEAN] /\ should_stop \in [Engines -> BOOLEAN]
      /\ logouts \in [Engines -> Nat] /\ partial \in [Engines -> BOOLEAN] /\ due \subseteq Engines
      /\ left \in [Engines -> 0 .. MaxApp[prompt]] /\ fault \in BOOLEAN
      /\ wire \in [Engines -> Seq(Message)] /\ buf \in [Engines -> Seq(Message)]
    BY DEF EngineTypeOK, TypeOK
<1> QED BY <1>1, Kept, Peers, Zenon

\* A Heartbeat, and a message that does not parse, change only the session.
LEMMA HeartbeatTurn ==
    ASSUME EngineInv, NEW e \in Engines, DispatchHeartbeat(e) \/ DispatchGarbage(e)
    PROVE  TakesTurn(e)
<1>0. EngineTypeOK
    BY DEF EngineInv
<1>1. PICK types : Dispatching(e, types) /\ types \in {{"0"}, {"X"}}
    BY DEF DispatchHeartbeat, DispatchGarbage
<1>2. /\ ~should_stop[e] /\ open[e] /\ pc[e] = "batch" /\ ~Ungreeted(e)
      /\ sess[e].state \in {"Active", "Resending", "LogoutSent"}
    BY <1>1, DispatchState
<1>3. UNCHANGED <<pc, partial, should_stop, open, wire, left, logouts, due, fault, mode>>
    BY DEF DispatchHeartbeat, DispatchGarbage
<1>4. PICK t \in Sessions :
          /\ sess' = [sess EXCEPT ![e] = t]
          /\ t.role = sess[e].role /\ t.outbound = sess[e].outbound
          /\ t.state = sess[e].state \/ t.state = "Resending"
          /\ Uncounted(e) \/ t.inbound = sess[e].inbound + 1
    <2>1. CASE DispatchHeartbeat(e)
        BY <2>1, <1>1, ReceivedView DEF DispatchHeartbeat
    <2>2. CASE DispatchGarbage(e)
        <3>1. Dispatching(e, {"X"}) /\ sess' = sess
            BY <2>2 DEF DispatchGarbage
        <3>2. Head(buf[e]).type = "X"
            BY <3>1 DEF Dispatching
        <3>3. Uncounted(e)
            BY <3>1, <3>2, ReceivedView
        <3> QED BY <3>1, <3>3, <1>0, Fields
    <2> QED BY <2>1, <2>2
<1>5. buf' \in [Engines -> Seq(Message)] /\ buf'[Peer(e)] = buf[Peer(e)]
    BY <1>0, <1>1, TakeIncoming
<1>6. Becomes(e, t, pc[e], open[e], should_stop[e], logouts[e])
    BY <1>0, <1>3, <1>4, <1>5, Fields, Zenon DEF Becomes
<1>7. /\ EngineTypeOK' /\ Alone(e)
      /\ sess'[e] = t /\ pc'[e] = pc[e] /\ open'[e] = open[e]
      /\ should_stop'[e] = should_stop[e] /\ logouts'[e] = logouts[e]
    BY <1>0, <1>6, StepFrame
<1>8. Put(e, <<>>) /\ Peer(e) \in Engines
    BY <1>0, <1>3, PutNothing, Peers
<1>9. t.outbound = sess[e].outbound + Len(<<>>)
    BY <1>0, <1>4, FieldTypes, NoMessage
<1>10. Dispatched(e, <<>>)
    BY <1>2, <1>4, <1>7, <1>8, <1>9, NoMessage DEF Dispatched
<1> QED BY <1>1, <1>7, <1>10, DispatchTurn

\* A dispatch in which a send or a callback fails ends the engine.
LEMMA FailTurn ==
    ASSUME EngineInv, NEW e \in Engines, NEW types, Dispatching(e, types),
           NEW t \in Sessions, t.role = sess[e].role,
           Uncounted(e) \/ t.inbound = sess[e].inbound + 1,
           Fail(e, t), UNCHANGED <<partial, should_stop, logouts, due, fault, mode>>
    PROVE  TakesTurn(e)
<1>0. EngineTypeOK
    BY DEF EngineInv
<1>1. ~should_stop[e]
    BY DispatchState
<1>2. buf' \in [Engines -> Seq(Message)] /\ buf'[Peer(e)] = buf[Peer(e)]
    BY <1>0, TakeIncoming
<1>3. /\ sess' = [sess EXCEPT ![e] = t] /\ pc' = [pc EXCEPT ![e] = "failed"]
      /\ open' = [open EXCEPT ![e] = FALSE] /\ UNCHANGED <<wire, left>>
    BY DEF Fail, Goto
<1>4. "failed" \in Labels
    BY DEF Labels
<1>5. Becomes(e, t, "failed", FALSE, should_stop[e], logouts[e])
    BY <1>0, <1>2, <1>3, <1>4, Fields, Zenon DEF Becomes
<1>6. /\ EngineTypeOK' /\ Alone(e)
      /\ sess'[e] = t /\ pc'[e] = "failed" /\ open'[e] = FALSE
      /\ should_stop'[e] = should_stop[e] /\ logouts'[e] = logouts[e]
    BY <1>0, <1>5, StepFrame
<1>7. Put(e, <<>>) /\ Peer(e) \in Engines
    BY <1>0, <1>3, PutNothing, Peers
<1>8. Dispatched(e, <<>>)
    BY <1>1, <1>6, <1>7, NoMessage DEF Dispatched
<1> QED BY <1>6, <1>8, DispatchTurn

\* TestRequest: one Heartbeat, numbered next.
LEMMA TestRequestTurn ==
    ASSUME EngineInv, NEW e \in Engines, DispatchTestRequest(e)
    PROVE  TakesTurn(e)
<1> DEFINE s == Received(e)
           t == Numbered(s)
           ms == <<Msg("0", s)>>
<1>0. EngineTypeOK
    BY DEF EngineInv
<1>1. Dispatching(e, {"1"}) /\ UNCHANGED <<partial, should_stop, logouts, due, fault, mode>>
    BY DEF DispatchTestRequest
<1>2. /\ s \in Sessions /\ s.role = sess[e].role /\ s.outbound = sess[e].outbound
      /\ s.state = sess[e].state \/ s.state = "Resending"
      /\ Uncounted(e) \/ s.inbound = sess[e].inbound + 1
    BY <1>1, ReceivedView
<1>3. /\ ~should_stop[e] /\ open[e] /\ pc[e] = "batch" /\ ~Ungreeted(e)
      /\ sess[e].state \in {"Active", "Resending", "LogoutSent"}
    BY <1>1, DispatchState
<1>4. /\ View(t, s.role, s.state, s.outbound + 1, s.inbound)
      /\ View(next_outbound_seq_num(s), s.role, s.state, s.outbound + 1, s.inbound)
    BY <1>2, NumberedView
<1> HIDE DEF s
<1>5. CASE sess' = [sess EXCEPT ![e] = t] /\ Put(e, ms) /\ UNCHANGED <<pc, left, open>>
    <2>1. /\ ms \in Seq(Message) /\ Len(ms) = 1
          /\ \A i \in 1 .. Len(ms) : ms[i].type = "0"
          /\ NumberedFrom(ms, s.outbound, Peer(e))
        BY <1>2, OneMessage, Peers DEF MsgType
    <2> HIDE DEF ms, t
    <2>2. /\ buf' \in [Engines -> Seq(Message)] /\ buf'[Peer(e)] = buf[Peer(e)]
          /\ wire' \in [Engines -> Seq(Message)]
        BY <1>0, <1>1, <1>5, <2>1, TakeIncoming, PutIncoming
    <2>3. Becomes(e, t, pc[e], open[e], should_stop[e], logouts[e])
        BY <1>0, <1>1, <1>4, <1>5, <2>2, Fields, Zenon DEF Becomes, View
    <2>4. /\ EngineTypeOK' /\ Alone(e)
          /\ sess'[e] = t /\ pc'[e] = pc[e] /\ open'[e] = open[e]
          /\ should_stop'[e] = should_stop[e] /\ logouts'[e] = logouts[e]
        BY <1>0, <2>3, StepFrame
    <2>5. Dispatched(e, ms)
        BY <1>2, <1>3, <1>4, <1>5, <2>1, <2>4 DEF Dispatched, View
    <2> QED BY <1>1, <2>4, <2>5, DispatchTurn
<1>6. CASE Fail(e, next_outbound_seq_num(s))
    BY <1>1, <1>2, <1>4, <1>6, FailTurn DEF View
<1> QED BY <1>5, <1>6 DEF DispatchTestRequest, s

\* What the application sends in a callback is numbered next and holds no Logout.
LEMMA AppMessagesNumbered ==
    ASSUME NEW s \in Sessions, NEW n \in Nat, NEW e \in Engines, NEW type,
           server_mode \in BOOLEAN, type \in AppTypes[server_mode][e]
    PROVE  LET ms == AppMessages(s, n, type) IN
           /\ ms \in Seq(Message) /\ Len(ms) = n
           /\ \A i \in 1 .. Len(ms) : ms[i].type # "5"
           /\ NumberedFrom(ms, s.outbound, Peer(e))
<1> DEFINE ms == AppMessages(s, n, type)
<1>1. type \in MsgType /\ type # "5" /\ (type = "X" => server_mode /\ e = "ini")
    BY AppAssumption, ParsableAssumption
<1>2. s.outbound \in Nat \ {0}
    BY DEF Sessions
<1>3. /\ ms = [i \in 1 .. n |-> [type |-> type, seq |-> s.outbound + i - 1]]
      /\ \A i \in 1 .. n : [type |-> type, seq |-> s.outbound + i - 1] \in Message
    BY <1>1, <1>2 DEF AppMessages, Message
<1>4. ms \in Seq(Message) /\ Len(ms) = n
    BY <1>3
<1>5. \A i \in 1 .. n : ms[i].type = type /\ ms[i].seq = s.outbound + i - 1
    BY <1>3
<1>6. type = "X" => Uncounted(Peer(e))
    BY <1>1 DEF Uncounted, Peer
<1> HIDE DEF ms
<1> QED BY <1>1, <1>4, <1>5, <1>6, Zenon DEF ms, NumberedFrom

\* A dispatch that puts `before` on the wire and calls the application is a turn.
LEMMA CallbackTurn ==
    ASSUME EngineInv, NEW e \in Engines, NEW types, Dispatching(e, types),
           NEW s \in Sessions, s.role = sess[e].role,
           Uncounted(e) \/ s.inbound = sess[e].inbound + 1,
           s.state \in {"Active", "Resending", "LogoutSent"},
           NEW before \in Seq(Message), s.outbound = sess[e].outbound + Len(before),
           NumberedFrom(before, sess[e].outbound, Peer(e)),
           \A i \in 1 .. Len(before) : before[i].type = "A",
           Ungreeted(e) => before # <<>>,
           Callback(e, s, before),
           UNCHANGED <<partial, should_stop, logouts, due, fault, mode>>
    PROVE  TakesTurn(e)
<1>0. EngineTypeOK /\ server_mode \in BOOLEAN /\ left[e] \in Nat /\ MaxApp[prompt] \in Nat
    <2>1. EngineTypeOK
        BY DEF EngineInv
    <2>2. [server |-> server_mode, prompt |-> prompt] \in Modes
        BY <2>1 DEF EngineTypeOK, TypeOK
    <2>3. server_mode \in BOOLEAN /\ prompt \in BOOLEAN
        <3>1. [server |-> server_mode, prompt |-> prompt] \in [server : BOOLEAN, prompt : BOOLEAN]
            BY <2>2, EngineAssumption
        <3> QED BY <3>1, Zenon
    <2>4. left \in [Engines -> 0 .. MaxApp[prompt]]
        BY <2>1 DEF EngineTypeOK, TypeOK
    <2> QED BY <2>1, <2>3, <2>4, EngineAssumption
<1>1. PICK n \in 0 .. left[e], type \in AppTypes[server_mode][e], stop \in BOOLEAN :
          /\ sess' = [sess EXCEPT ![e] = IF stop THEN request_stop(send_raw(s, n))
                                         ELSE send_raw(s, n)]
          /\ left' = [left EXCEPT ![e] = @ - n]
          /\ Put(e, before \o AppMessages(s, n, type))
          /\ \/ UNCHANGED <<pc, open>>
             \/ fault /\ Goto(e, "failed") /\ open' = [open EXCEPT ![e] = FALSE]
    BY Zenon DEF Callback
<1> DEFINE t == IF stop THEN request_stop(send_raw(s, n)) ELSE send_raw(s, n)
           after == AppMessages(s, n, type)
           ms == before \o after
<1>2. n \in Nat /\ n <= left[e]
    BY <1>0, <1>1
<1>3. /\ t \in Sessions /\ t.role = s.role /\ t.inbound = s.inbound
      /\ t.outbound = s.outbound + n
      /\ t.state \in {"Active", "Resending", "LogoutSent"}
    <2>1. View(send_raw(s, n), s.role, s.state, s.outbound + n, s.inbound)
        BY <1>2, SendRawView
    <2>2. View(request_stop(send_raw(s, n)), s.role, "LogoutSent", s.outbound + n, s.inbound)
        BY <2>1, StateViews DEF View, request_stop
    <2> QED BY <2>1, <2>2 DEF View
<1>4. /\ after \in Seq(Message) /\ Len(after) = n
      /\ \A i \in 1 .. Len(after) : after[i].type # "5"
      /\ NumberedFrom(after, s.outbound, Peer(e))
    BY <1>0, <1>1, <1>2, AppMessagesNumbered, SMTT(30)
<1>5. sess' = [sess EXCEPT ![e] = t] /\ Put(e, ms)
    BY <1>1
<1> HIDE DEF t, after
<1>6. /\ ms \in Seq(Message) /\ Len(ms) = Len(before) + n
      /\ \A i \in 1 .. Len(before) : ms[i] = before[i]
      /\ \A i \in 1 .. Len(before) + n : i > Len(before) => ms[i] = after[i - Len(before)]
    <2>1. /\ before \o after \in Seq(Message)
          /\ Len(before \o after) = Len(before) + Len(after)
          /\ \A i \in 1 .. Len(before) : (before \o after)[i] = before[i]
          /\ \A i \in 1 .. Len(before) + Len(after) :
                i > Len(before) => (before \o after)[i] = after[i - Len(before)]
        <3>1. after \in Seq(Message)
            BY <1>4
        <3> QED BY <3>1, Joined
    <2> QED BY <1>4, <2>1
<1>7. sess[e].outbound \in Nat /\ Len(before) \in Nat
    BY <1>0, FieldTypes
<1> HIDE DEF ms
<1>8. /\ NumberedFrom(ms, sess[e].outbound, Peer(e))
      /\ \A i \in 1 .. Len(ms) : ms[i].type # "5"
    <2> SUFFICES ASSUME NEW i \in 1 .. Len(ms)
                 PROVE  /\ ms[i].seq = sess[e].outbound + i - 1
                        /\ ms[i].type = "X" => Uncounted(Peer(e))
                        /\ ms[i].type # "5"
        BY DEF NumberedFrom
    <2>1. CASE i <= Len(before)
        <3>1. i \in 1 .. Len(before)
            BY <2>1, <1>7
        <3> QED BY <3>1, <1>6 DEF NumberedFrom
    <2>2. CASE i > Len(before)
        <3>1. i - Len(before) \in 1 .. Len(after) /\ ms[i] = after[i - Len(before)]
            BY <2>2, <1>2, <1>4, <1>6, <1>7
        <3>2. /\ after[i - Len(before)].seq = s.outbound + (i - Len(before)) - 1
              /\ after[i - Len(before)].type = "X" => Uncounted(Peer(e))
              /\ after[i - Len(before)].type # "5"
            BY <3>1, <1>4, Zenon DEF NumberedFrom
        <3>3. s.outbound + (i - Len(before)) - 1 = sess[e].outbound + i - 1
            BY <1>7
        <3> QED BY <3>1, <3>2, <3>3, Zenon
    <2> QED BY <2>1, <2>2, <1>7
<1>9. t.outbound = sess[e].outbound + Len(ms)
    BY <1>2, <1>3, <1>6, <1>7
<1>10. Ungreeted(e) => ms # <<>> /\ ms[1].type = "A"
    <2>1. before # <<>> => 1 \in 1 .. Len(before) /\ Len(ms) > 0
        BY <1>2, <1>6, <1>7
    <2> QED BY <2>1, <1>6
<1>11. /\ buf' \in [Engines -> Seq(Message)] /\ buf'[Peer(e)] = buf[Peer(e)]
       /\ wire' \in [Engines -> Seq(Message)]
    BY <1>0, <1>5, <1>6, TakeIncoming, PutIncoming
<1>12. left' \in [Engines -> 0 .. MaxApp[prompt]]
    <2>1. left \in [Engines -> 0 .. MaxApp[prompt]] /\ left[e] \in 0 .. MaxApp[prompt]
        BY <1>0, Fields
    <2>2. left[e] - n \in 0 .. MaxApp[prompt]
        BY <2>1, <1>0, <1>2
    <2> QED BY <2>1, <2>2, <1>1
<1>13. ~should_stop[e] /\ pc[e] = "batch" /\ open[e] /\ "failed" \in Labels
    BY DispatchState DEF Labels
<1>14. CASE UNCHANGED <<pc, open>>
    <2>1. Becomes(e, t, pc[e], open[e], should_stop[e], logouts[e])
        BY <1>0, <1>3, <1>5, <1>11, <1>12, <1>14, Fields, Zenon DEF Becomes
    <2>2. /\ EngineTypeOK' /\ Alone(e)
          /\ sess'[e] = t /\ pc'[e] = pc[e] /\ open'[e] = open[e]
          /\ should_stop'[e] = should_stop[e] /\ logouts'[e] = logouts[e]
        BY <1>0, <2>1, StepFrame
    <2>3. Dispatched(e, ms)
        BY <1>3, <1>5, <1>6, <1>8, <1>9, <1>10, <1>13, <2>2 DEF Dispatched
    <2> QED BY <2>2, <2>3, DispatchTurn
<1>15. CASE Goto(e, "failed") /\ open' = [open EXCEPT ![e] = FALSE]
    <2>1. Becomes(e, t, "failed", FALSE, should_stop[e], logouts[e])
        BY <1>0, <1>3, <1>5, <1>11, <1>12, <1>13, <1>15, Fields, Zenon DEF Becomes, Goto
    <2>2. /\ EngineTypeOK' /\ Alone(e)
          /\ sess'[e] = t /\ pc'[e] = "failed" /\ open'[e] = FALSE
          /\ should_stop'[e] = should_stop[e] /\ logouts'[e] = logouts[e]
        BY <1>0, <2>1, StepFrame
    <2>3. Dispatched(e, ms)
        BY <1>3, <1>5, <1>6, <1>8, <1>9, <1>10, <1>13, <2>2 DEF Dispatched
    <2> QED BY <2>2, <2>3, DispatchTurn
<1> QED BY <1>1, <1>14, <1>15

\* An application message: what on_message sends is numbered next.
LEMMA AppTurn ==
    ASSUME EngineInv, NEW e \in Engines, DispatchApp(e)
    PROVE  TakesTurn(e)
<1> DEFINE s == Received(e)
<1>0. EngineTypeOK
    BY DEF EngineInv
<1>1. /\ Dispatching(e, {"D"}) /\ UNCHANGED <<partial, should_stop, logouts, due, fault, mode>>
      /\ Callback(e, s, <<>>)
    BY DEF DispatchApp
<1>2. /\ s \in Sessions /\ s.role = sess[e].role /\ s.outbound = sess[e].outbound
      /\ s.state = sess[e].state \/ s.state = "Resending"
      /\ Uncounted(e) \/ s.inbound = sess[e].inbound + 1
    BY <1>1, ReceivedView
<1>3. ~Ungreeted(e) /\ sess[e].state \in {"Active", "Resending", "LogoutSent"}
    BY <1>1, DispatchState
<1> HIDE DEF s
<1>4. /\ <<>> \in Seq(Message) /\ s.outbound = sess[e].outbound + Len(<<>>)
      /\ NumberedFrom(<<>>, sess[e].outbound, Peer(e))
      /\ s.state \in {"Active", "Resending", "LogoutSent"}
      /\ \A i \in 1 .. Len(<<>>) : <<>>[i].type = "A"
    BY <1>0, <1>2, <1>3, FieldTypes, NoMessage, Peers
<1> QED BY <1>1, <1>2, <1>3, <1>4, CallbackTurn

\* A Logon: an acceptor answers the first with its own, an initiator's session
\* starts, and any other is counted and ignored.
LEMMA LogonTurn ==
    ASSUME EngineInv, NEW e \in Engines, DispatchLogon(e)
    PROVE  TakesTurn(e)
<1> DEFINE s == Received(e)
           o == IF s.state = "Disconnected" THEN on_connected(s) ELSE s
           c == on_logon(o)
<1>0. EngineTypeOK /\ Local(e)
    BY DEF EngineInv
<1>1. Dispatching(e, {"A"}) /\ UNCHANGED <<partial, should_stop, logouts, due, fault, mode>>
    BY DEF DispatchLogon
<1>2. /\ s \in Sessions /\ s.role = sess[e].role /\ s.outbound = sess[e].outbound
      /\ s.state = sess[e].state \/ s.state = "Resending"
      /\ Uncounted(e) \/ s.inbound = sess[e].inbound + 1
    BY <1>1, ReceivedView
<1>3. /\ ~should_stop[e] /\ open[e] /\ pc[e] = "batch"
      /\ Ungreeted(e) => PreSession(e)
      /\ ~PreSession(e) => sess[e].state \in {"Active", "Resending", "LogoutSent"}
    BY <1>1, DispatchState
<1>4. Peer(e) \in Engines /\ sess[e].outbound \in Nat
    BY <1>0, Peers, FieldTypes
<1>5. \/ /\ s.role = "Acceptor" /\ s.state \in {"Disconnected", "Connecting"}
         /\ Callback(e, Numbered(c), <<Msg("A", c)>>) \/ Fail(e, next_outbound_seq_num(c))
      \/ s.state = "LogonSent" /\ Callback(e, on_logon(s), <<>>)
      \/ /\ s.state # "LogonSent"
         /\ ~(s.role = "Acceptor" /\ s.state \in {"Disconnected", "Connecting"})
         /\ sess' = [sess EXCEPT ![e] = s]
         /\ UNCHANGED <<pc, wire, left, open>>
    BY Zenon DEF DispatchLogon
<1> HIDE DEF s
<1>6. View(c, s.role, "Active", s.outbound, s.inbound)
    <2>1. o \in Sessions /\ o.role = s.role /\ o.outbound = s.outbound /\ o.inbound = s.inbound
        BY <1>2, StateViews DEF View
    <2> HIDE DEF o
    <2> QED BY <2>1, StateViews
<1> HIDE DEF c
<1>7. CASE Callback(e, Numbered(c), <<Msg("A", c)>>)
    <2> DEFINE ms == <<Msg("A", c)>>
    <2>1. View(Numbered(c), s.role, "Active", s.outbound + 1, s.inbound)
        BY <1>6, NumberedView DEF View
    <2>2. /\ ms \in Seq(Message) /\ Len(ms) = 1 /\ ms # <<>>
          /\ \A i \in 1 .. Len(ms) : ms[i].type = "A"
          /\ NumberedFrom(ms, c.outbound, Peer(e))
        BY <1>4, <1>6, OneMessage DEF MsgType, View
    <2>3. Callback(e, Numbered(c), ms)
        BY <1>7
    <2> HIDE DEF ms
    <2>4. /\ Numbered(c).outbound = sess[e].outbound + Len(ms)
          /\ c.outbound = sess[e].outbound
        BY <1>2, <1>6, <2>1, <2>2 DEF View
    <2> QED BY <1>1, <1>2, <2>1, <2>2, <2>3, <2>4, CallbackTurn DEF View
<1>8. CASE Fail(e, next_outbound_seq_num(c))
    <2>1. View(next_outbound_seq_num(c), s.role, "Active", s.outbound + 1, s.inbound)
        BY <1>6, NumberedView DEF View
    <2> QED BY <1>1, <1>2, <1>8, <2>1, FailTurn DEF View
<1>9. CASE s.state = "LogonSent" /\ Callback(e, on_logon(s), <<>>)
    <2>1. View(on_logon(s), s.role, "Active", s.outbound, s.inbound)
        BY <1>2, StateViews
    <2>2. ~Ungreeted(e)
        <3>1. PreSession(e) /\ sess[e].state = "LogonSent"
            BY <1>2, <1>3, <1>9
        <3>2. e = "ini"
            BY <3>1, <1>0, <1>3 DEF Local
        <3> QED BY <3>2, <1>3 DEF Ungreeted
    <2>3. /\ <<>> \in Seq(Message) /\ s.outbound = sess[e].outbound + Len(<<>>)
          /\ NumberedFrom(<<>>, sess[e].outbound, Peer(e))
          /\ \A i \in 1 .. Len(<<>>) : <<>>[i].type = "A"
        BY <1>2, <1>4, NoMessage
    <2> QED BY <1>1, <1>2, <1>9, <2>1, <2>2, <2>3, CallbackTurn DEF View
<1>10. CASE /\ s.state # "LogonSent"
            /\ ~(s.role = "Acceptor" /\ s.state \in {"Disconnected", "Connecting"})
            /\ sess' = [sess EXCEPT ![e] = s]
            /\ UNCHANGED <<pc, wire, left, open>>
    <2>1. s.state \in {"Active", "Resending", "LogoutSent"}
        <3>1. CASE PreSession(e) /\ e = "ini"
            BY <3>1, <1>0, <1>2, <1>3, <1>10 DEF Local
        <3>2. CASE PreSession(e) /\ e # "ini"
            BY <3>2, <1>0, <1>2, <1>3, <1>10 DEF Local
        <3>3. CASE ~PreSession(e)
            BY <3>3, <1>2, <1>3
        <3> QED BY <3>1, <3>2, <3>3
    <2>2. buf' \in [Engines -> Seq(Message)] /\ buf'[Peer(e)] = buf[Peer(e)]
        BY <1>0, <1>1, TakeIncoming
    <2>3. Becomes(e, s, pc[e], open[e], should_stop[e], logouts[e])
        BY <1>0, <1>1, <1>2, <1>10, <2>2, Fields, Zenon DEF Becomes
    <2>4. /\ EngineTypeOK' /\ Alone(e)
          /\ sess'[e] = s /\ pc'[e] = pc[e] /\ open'[e] = open[e]
          /\ should_stop'[e] = should_stop[e] /\ logouts'[e] = logouts[e]
        BY <1>0, <2>3, StepFrame
    <2>5. Put(e, <<>>) /\ s.outbound = sess[e].outbound + Len(<<>>)
        BY <1>0, <1>2, <1>4, <1>10, PutNothing, NoMessage
    <2>6. ~Ungreeted(e)
        <3>1. Uncounted(e) \/ s.state = sess[e].state
            BY <1>1, ReceivedView DEF s
        <3>2. CASE e = "ini"
            BY <3>2, <1>3 DEF Ungreeted
        <3>3. CASE PreSession(e)
            BY <3>1, <3>3, <2>1, <1>0, <1>3 DEF Local
        <3> QED BY <3>2, <3>3 DEF Ungreeted
    <2>7. Dispatched(e, <<>>)
        BY <1>2, <1>3, <1>4, <2>1, <2>4, <2>5, <2>6, NoMessage DEF Dispatched
    <2> QED BY <1>1, <2>4, <2>7, DispatchTurn
<1> QED BY <1>5, <1>7, <1>8, <1>9, <1>10

\* A Logout: answered unless the engine has asked to stop itself; nothing after it.
LEMMA LogoutTurn ==
    ASSUME EngineInv, NEW e \in Engines, DispatchLogout(e)
    PROVE  TakesTurn(e)
<1> DEFINE s == Received(e)
           c == on_logout_sent(Numbered(s))
           t == on_disconnected(c)
           ms == <<Msg("5", s)>>
<1>0. EngineTypeOK
    BY DEF EngineInv
<1>1. Dispatching(e, {"5"}) /\ UNCHANGED <<partial, due, fault, mode>>
    BY DEF DispatchLogout
<1>2. /\ s \in Sessions /\ s.role = sess[e].role /\ s.outbound = sess[e].outbound
      /\ s.state = sess[e].state \/ s.state = "Resending"
      /\ Uncounted(e) \/ s.inbound = sess[e].inbound + 1
    BY <1>1, ReceivedView
<1>3. /\ ~should_stop[e] /\ open[e] /\ pc[e] = "batch" /\ ~Ungreeted(e)
      /\ Head(buf[e]).type = "5"
    BY <1>1, DispatchState
<1>4. /\ Peer(e) \in Engines /\ sess[e].outbound \in Nat /\ logouts[e] \in Nat
      /\ buf' \in [Engines -> Seq(Message)] /\ buf'[Peer(e)] = buf[Peer(e)]
    BY <1>0, <1>1, Peers, FieldTypes, TakeIncoming
<1>5. \/ /\ sess' = [sess EXCEPT ![e] = t]
         /\ Put(e, ms)
         /\ logouts' = [logouts EXCEPT ![e] = @ + 1]
         /\ should_stop' = [should_stop EXCEPT ![e] = TRUE]
         /\ UNCHANGED <<pc, left, open>>
      \/ /\ sess' = [sess EXCEPT ![e] = on_disconnected(s)]
         /\ should_stop' = [should_stop EXCEPT ![e] = TRUE]
         /\ UNCHANGED <<pc, wire, left, open, logouts>>
      \/ /\ Fail(e, s) \/ Fail(e, next_outbound_seq_num(s))
         /\ UNCHANGED <<should_stop, logouts>>
    BY Zenon DEF DispatchLogout
<1> HIDE DEF s
<1>6. CASE /\ sess' = [sess EXCEPT ![e] = t]
           /\ Put(e, ms)
           /\ logouts' = [logouts EXCEPT ![e] = @ + 1]
           /\ should_stop' = [should_stop EXCEPT ![e] = TRUE]
           /\ UNCHANGED <<pc, left, open>>
    <2>1. View(t, s.role, "Disconnected", s.outbound + 1, s.inbound)
        <3>1. View(Numbered(s), s.role, s.state, s.outbound + 1, s.inbound)
            BY <1>2, NumberedView
        <3>2. View(c, s.role, "LogoutSent", s.outbound + 1, s.inbound)
            BY <3>1, StateViews DEF View
        <3> HIDE DEF c
        <3> QED BY <3>2, StateViews DEF View
    <2>2. /\ ms \in Seq(Message) /\ Len(ms) = 1 /\ ms # <<>>
          /\ NumberedFrom(ms, s.outbound, Peer(e))
        BY <1>2, <1>4, OneMessage DEF MsgType
    <2> HIDE DEF t, ms
    <2>3. wire' \in [Engines -> Seq(Message)]
        BY <1>0, <1>6, <2>2, PutIncoming
    <2>4. Becomes(e, t, pc[e], open[e], TRUE, logouts[e] + 1)
        <3>1. logouts[e] + 1 \in Nat
            BY <1>4
        <3> QED BY <1>0, <1>1, <1>4, <1>6, <2>1, <2>3, <3>1, Fields, Zenon DEF Becomes, View
    <2>5. /\ EngineTypeOK' /\ Alone(e)
          /\ sess'[e] = t /\ pc'[e] = pc[e] /\ open'[e] = open[e]
          /\ should_stop'[e] = TRUE /\ logouts'[e] = logouts[e] + 1
        BY <1>0, <2>4, StepFrame
    <2>6. /\ \A i \in 1 .. Len(ms) : ms[i].type = "5" => i = Len(ms) /\ logouts'[e] > 0
          /\ logouts'[e] >= logouts[e]
        BY <1>4, <2>2, <2>5
    <2>7. Dispatched(e, ms)
        BY <1>2, <1>3, <1>6, <2>1, <2>2, <2>5, <2>6 DEF Dispatched, View
    <2> QED BY <1>1, <2>5, <2>7, DispatchTurn
<1>7. CASE /\ sess' = [sess EXCEPT ![e] = on_disconnected(s)]
           /\ should_stop' = [should_stop EXCEPT ![e] = TRUE]
           /\ UNCHANGED <<pc, wire, left, open, logouts>>
    <2>1. View(on_disconnected(s), s.role, "Disconnected", s.outbound, s.inbound)
        BY <1>2, StateViews
    <2>2. Becomes(e, on_disconnected(s), pc[e], open[e], TRUE, logouts[e])
        BY <1>0, <1>1, <1>4, <1>7, <2>1, Fields, Zenon DEF Becomes, View
    <2>3. /\ EngineTypeOK' /\ Alone(e)
          /\ sess'[e] = on_disconnected(s) /\ pc'[e] = pc[e] /\ open'[e] = open[e]
          /\ should_stop'[e] = TRUE /\ logouts'[e] = logouts[e]
        BY <1>0, <2>2, StepFrame
    <2>4. /\ Put(e, <<>>) /\ s.outbound = sess[e].outbound + Len(<<>>)
          /\ logouts'[e] >= logouts[e]
        BY <1>0, <1>2, <1>4, <1>7, <2>3, PutNothing, NoMessage
    <2>5. Dispatched(e, <<>>)
        BY <1>2, <1>3, <1>4, <2>1, <2>3, <2>4, NoMessage DEF Dispatched, View
    <2> QED BY <1>1, <2>3, <2>5, DispatchTurn
<1>8. CASE /\ Fail(e, s) \/ Fail(e, next_outbound_seq_num(s))
           /\ UNCHANGED <<should_stop, logouts>>
    <2>1. View(next_outbound_seq_num(s), s.role, s.state, s.outbound + 1, s.inbound)
        BY <1>2, NumberedView
    <2>2. UNCHANGED <<partial, should_stop, logouts, due, fault, mode>>
        BY <1>1, <1>8
    <2> QED BY <1>1, <1>2, <1>8, <2>1, <2>2, FailTurn DEF View
<1> QED BY <1>5, <1>6, <1>7, <1>8

\* An engine that leaves its loop, for whatever reason, is silent from then on.
LEMMA CloseTurn ==
    ASSUME EngineInv, NEW e \in Engines, NEW t, NEW label \in {"done", "failed"}, NEW stop,
           Becomes(e, t, label, FALSE, stop, logouts[e]),
           t.role = sess[e].role, t.inbound = sess[e].inbound,
           should_stop[e] => stop, UNCHANGED <<buf, wire>>
    PROVE  TakesTurn(e)
<1> DEFINE p == Peer(e)
<1>0. EngineTypeOK /\ Local(e)
    BY DEF EngineInv
<1>1. /\ EngineTypeOK' /\ Alone(e)
      /\ sess'[e] = t /\ pc'[e] = label /\ open'[e] = FALSE
      /\ should_stop'[e] = stop /\ logouts'[e] = logouts[e]
    BY <1>0, StepFrame
<1>2. /\ Incoming(e)' = SubSeq(Incoming(e), 0 + 1, Len(Incoming(e)))
      /\ 0 \in 0 .. Len(Incoming(e))
    BY <1>0, KeepIncoming
<1>3. /\ Incoming(p)' = IF open[p] THEN Incoming(p) \o <<>> ELSE Incoming(p)
      /\ p \in Engines
    BY <1>0, PutNothing, PutIncoming, NoMessage, Peers
<1>4. /\ logouts[e] \in Nat /\ logouts'[e] >= logouts[e]
      /\ sess'[e].inbound = sess[e].inbound + 0
    BY <1>0, <1>1, FieldTypes
<1>5. Local(e)'
    <2>1. Stopped(e)' /\ pc'[e] # "start" /\ pc'[e] # "recv" /\ ~open'[e]
        BY <1>1 DEF Stopped
    <2>2. sess'[e].role = IF e = "ini" THEN "Initiator" ELSE "Acceptor"
        BY <1>0, <1>1 DEF Local
    <2>3. logouts'[e] > 0 => should_stop'[e]
        BY <1>0, <1>1 DEF Local
    <2> QED BY <2>1, <2>2, <2>3, Zenon DEF Local
<1>6. Turn(e, <<>>, 0)
    <2>1. ~open'[e] /\ pc'[e] # "batch" /\ ~Counts(e)' /\ (should_stop[e] => should_stop'[e])
        BY <1>1 DEF Counts
    <2>2. /\ NumberedFrom(<<>>, sess[e].outbound, p)
          /\ \A i \in 1 .. Len(<<>>) : <<>>[i].type = "5" => i = Len(<<>>) /\ logouts'[e] > 0
        BY <1>3, NoMessage
    <2>3. 0 \in {0, 1}
        OBVIOUS
    <2> QED BY <1>1, <1>2, <1>3, <1>4, <2>1, <2>2, <2>3, Zenon DEF Turn, Alone
<1> QED BY <1>1, <1>2, <1>5, <1>6, NoMessage DEF TakesTurn

\* A step of the loop that sends and counts nothing.
Quiet(e, label, stop) ==
    /\ pc[e] \in {"top", "recv", "batch"} /\ label \in {"top", "recv", "batch"}
    /\ Becomes(e, sess[e], label, open[e], stop, logouts[e])
    /\ should_stop[e] => stop
    /\ stop => label = "top" /\ sess[e].state = "Disconnected"
    /\ Incoming(e)' = Incoming(e) /\ Incoming(Peer(e))' = Incoming(Peer(e))

\* Such a step is a turn.
LEMMA SilentTurn ==
    ASSUME EngineInv, NEW e \in Engines, NEW label, NEW stop, Quiet(e, label, stop)
    PROVE  TakesTurn(e)
<1> DEFINE p == Peer(e)
<1>0. EngineTypeOK /\ Local(e) /\ Becomes(e, sess[e], label, open[e], stop, logouts[e])
    BY Zenon DEF EngineInv, Quiet
<1>1. /\ EngineTypeOK' /\ Alone(e)
      /\ sess'[e] = sess[e] /\ pc'[e] = label /\ open'[e] = open[e]
      /\ should_stop'[e] = stop /\ logouts'[e] = logouts[e]
    BY <1>0, StepFrame
<1> USE DEF Quiet
<1>2. /\ p \in Engines
      /\ Incoming(e) \in Seq(Message) /\ Incoming(p) \in Seq(Message)
      /\ logouts[e] \in Nat /\ sess[e].inbound \in Nat /\ sess[e].outbound \in Nat
    BY <1>0, Peers, IncomingType, FieldTypes
<1>3. /\ Incoming(e) = SubSeq(Incoming(e), 0 + 1, Len(Incoming(e)))
      /\ Incoming(p) = IF open[p] THEN Incoming(p) \o <<>> ELSE Incoming(p)
      /\ 0 \in 0 .. Len(Incoming(e)) /\ 0 \in {0, 1}
    BY <1>2
<1>4. open[e] /\ server_mode' = server_mode
    BY <1>0, <1>1 DEF Local, Stopped, Alone
<1>5. PreSession(e)' => PreSession(e)
    BY <1>1 DEF PreSession
<1>6. ~stop => ~should_stop[e]
    OBVIOUS
<1>7. Local(e)'
    <2>1. /\ ~Stopped(e)' /\ open'[e] /\ pc'[e] # "start"
          /\ should_stop'[e] => pc'[e] \notin {"start", "recv"} /\ sess'[e].state = "Disconnected"
        BY <1>1, <1>4 DEF Stopped
    <2>2. sess'[e].role = IF e = "ini" THEN "Initiator" ELSE "Acceptor"
        BY <1>0, <1>1 DEF Local
    <2>3. logouts'[e] > 0 => should_stop'[e]
        BY <1>0, <1>1 DEF Local
    <2>4. PreSession(e)' =>
             /\ sess'[e].state = IF e = "ini" /\ pc'[e] # "start" THEN "LogonSent" ELSE "Disconnected"
             /\ ~Uncounted(e)'
        BY <1>0, <1>1, <1>4, <1>5 DEF Local, Uncounted
    <2> QED BY <2>1, <2>2, <2>3, <2>4, Zenon DEF Local
<1>8. Turn(e, <<>>, 0)
    <2>1. Counts(e)' => Counts(e) /\ sess'[e].outbound = sess[e].outbound + Len(<<>>)
        BY <1>1, <1>2, <1>4, <1>6, NoMessage DEF Counts
    <2>2. /\ NumberedFrom(<<>>, sess[e].outbound, p)
          /\ \A i \in 1 .. Len(<<>>) : <<>>[i].type = "5" => i = Len(<<>>) /\ logouts'[e] > 0
        BY <1>2, NoMessage
    <2>3. ~should_stop'[e] /\ ~Ungreeted(e)' => ~Ungreeted(e)
        BY <1>1, <1>6 DEF Ungreeted, PreSession
    <2>4. /\ sess'[e].inbound = sess[e].inbound + 0 /\ logouts'[e] >= logouts[e]
          /\ should_stop[e] => should_stop'[e]
          /\ should_stop'[e] => pc'[e] # "batch"
        BY <1>1, <1>2
    <2> QED BY <1>1, <1>3, <1>4, <1>5, <2>1, <2>2, <2>3, <2>4, Zenon DEF Turn, Alone
<1> QED BY <1>1, <1>3, <1>7, <1>8, NoMessage DEF TakesTurn

\* A step of the loop that sends ms and becomes t: the Logon, a heartbeat, a Logout.
Says(e, ms, t, label, stop, n) ==
    /\ ms \in Seq(Message) /\ Put(e, ms) /\ UNCHANGED buf
    /\ open[e] /\ ~should_stop[e]
    /\ Becomes(e, t, label, open[e], stop, n)
    /\ label \in {"top", "recv"}
    /\ NumberedFrom(ms, sess[e].outbound, Peer(e))
    /\ t.role = sess[e].role /\ t.inbound = sess[e].inbound
    /\ Ungreeted(e) => ms # <<>> /\ ms[1].type = "A"
    /\ \A i \in 1 .. Len(ms) : ms[i].type = "5" => i = Len(ms) /\ n > 0
    /\ n >= logouts[e] /\ (n > 0 => stop)
    /\ stop => label = "top" /\ t.state = "Disconnected"
    /\ ~stop =>
          /\ t.outbound = sess[e].outbound + Len(ms)
          /\ \/ t.state = "Active"
             \/ e = "ini" /\ t.state = "LogonSent" /\ PreSession(e)

\* Such a step is a turn.
LEMMA SaysTurn ==
    ASSUME EngineInv, NEW e \in Engines, NEW ms, NEW t, NEW label, NEW stop, NEW n,
           Says(e, ms, t, label, stop, n)
    PROVE  TakesTurn(e)
<1> DEFINE p == Peer(e)
<1>0. EngineTypeOK /\ Local(e) /\ Becomes(e, t, label, open[e], stop, n)
    BY Zenon DEF EngineInv, Says
<1>1. /\ EngineTypeOK' /\ Alone(e)
      /\ sess'[e] = t /\ pc'[e] = label /\ open'[e] = open[e]
      /\ should_stop'[e] = stop /\ logouts'[e] = n
    BY <1>0, StepFrame
<1> USE DEF Says
<1>2. /\ Incoming(p)' = IF open[p] THEN Incoming(p) \o ms ELSE Incoming(p)
      /\ wire'[p] = wire[p]
    BY <1>0, PutIncoming
<1>3. /\ Incoming(e)' = SubSeq(Incoming(e), 0 + 1, Len(Incoming(e)))
      /\ 0 \in 0 .. Len(Incoming(e)) /\ 0 \in {0, 1}
    BY <1>0, <1>2, KeepIncoming
<1>4. sess[e].inbound \in Nat /\ server_mode' = server_mode
    BY <1>0, <1>1, FieldTypes DEF Alone
<1>5. ~stop => t.state # "Disconnected" /\ t.state # "Connecting"
    OBVIOUS
<1>6. Local(e)'
    <2>1. /\ ~Stopped(e)' /\ open'[e] /\ pc'[e] # "start"
          /\ should_stop'[e] => pc'[e] \notin {"start", "recv"} /\ sess'[e].state = "Disconnected"
        BY <1>1 DEF Stopped
    <2>2. sess'[e].role = IF e = "ini" THEN "Initiator" ELSE "Acceptor"
        BY <1>0, <1>1 DEF Local
    <2>3. logouts'[e] > 0 => should_stop'[e]
        BY <1>1
    <2>4. PreSession(e)' => sess'[e].state = "LogonSent" /\ e = "ini"
        BY <1>1, <1>5 DEF PreSession
    <2>5. ~(e = "ini" /\ Uncounted(e)')
        BY DEF Uncounted
    <2> QED BY <2>1, <2>2, <2>3, <2>4, <2>5, Zenon DEF Local
<1>7. Turn(e, ms, 0)
    <2>1. Counts(e)' => Counts(e) /\ sess'[e].outbound = sess[e].outbound + Len(ms)
        BY <1>1 DEF Counts
    <2>2. /\ sess'[e].inbound = sess[e].inbound + 0 /\ logouts'[e] >= logouts[e]
          /\ should_stop'[e] => pc'[e] # "batch"
        BY <1>1, <1>4
    <2>3. PreSession(e)' => PreSession(e)
        BY <1>1 DEF PreSession
    <2> QED BY <1>1, <1>2, <1>3, <2>1, <2>2, <2>3, Zenon DEF Turn, Alone
<1> QED BY <1>1, <1>3, <1>6, <1>7 DEF TakesTurn

\* run_initiator's first message is the Logon.
LEMMA RunInitiatorTurn ==
    ASSUME EngineInv, RunInitiator
    PROVE  TakesTurn("ini")
<1> DEFINE e == "ini"
           s == on_connected(sess[e])
           ms == <<Msg("A", s)>>
<1>0. EngineTypeOK /\ Local(e) /\ e \in Engines
    BY DEF EngineInv, Engines
<1>1. /\ pc[e] = "start"
      /\ UNCHANGED <<buf, partial, should_stop, logouts, due, fault, mode>>
      /\ \/ /\ sess' = [sess EXCEPT ![e] = Numbered(s)]
            /\ Put(e, ms)
            /\ pc' = [pc EXCEPT ![e] = "top"]
            /\ UNCHANGED <<open, left>>
         \/ Fail(e, next_outbound_seq_num(s))
    BY DEF RunInitiator, Goto
<1>2. /\ PreSession(e) /\ open[e] /\ ~should_stop[e] /\ ~(logouts[e] > 0)
      /\ sess[e].state = "Disconnected" /\ sess[e].role = "Initiator"
    BY <1>0, <1>1 DEF Local, PreSession, Stopped
<1>3. sess[e] \in Sessions /\ sess[e].outbound \in Nat /\ logouts[e] \in Nat /\ Peer(e) \in Engines
    BY <1>0, FieldTypes, Peers
<1>4. View(s, "Initiator", "LogonSent", sess[e].outbound, sess[e].inbound)
    BY <1>2, <1>3, StateViews
<1> HIDE DEF s
<1>5. /\ View(Numbered(s), "Initiator", "LogonSent", sess[e].outbound + 1, sess[e].inbound)
      /\ View(next_outbound_seq_num(s), "Initiator", "LogonSent", sess[e].outbound + 1, sess[e].inbound)
    BY <1>4, NumberedView DEF View
<1>6. "top" \in Labels /\ "failed" \in Labels
    BY DEF Labels
<1>7. CASE /\ sess' = [sess EXCEPT ![e] = Numbered(s)]
           /\ Put(e, ms)
           /\ pc' = [pc EXCEPT ![e] = "top"]
           /\ UNCHANGED <<open, left>>
    <2>1. /\ ms \in Seq(Message) /\ Len(ms) = 1 /\ ms # <<>> /\ ms[1].type = "A"
          /\ \A i \in 1 .. Len(ms) : ms[i].type = "A"
          /\ NumberedFrom(ms, s.outbound, Peer(e))
        BY <1>3, <1>4, OneMessage DEF MsgType, View
    <2> HIDE DEF ms, e
    <2>2. wire' \in [Engines -> Seq(Message)]
        BY <1>0, <1>7, <2>1, PutIncoming
    <2>3. Becomes(e, Numbered(s), "top", open[e], should_stop[e], logouts[e])
        BY <1>0, <1>1, <1>5, <1>6, <1>7, <2>2, Fields, Zenon DEF Becomes, View
    <2>4. Says(e, ms, Numbered(s), "top", should_stop[e], logouts[e])
        <3>1. /\ \A i \in 1 .. Len(ms) : ms[i].type # "5"
              /\ logouts[e] >= logouts[e]
              /\ s.outbound = sess[e].outbound
              /\ Numbered(s).outbound = sess[e].outbound + Len(ms)
            BY <1>3, <1>4, <1>5, <2>1 DEF View
        <3>2. UNCHANGED buf /\ "top" \in {"top", "recv"} /\ e = "ini"
            BY <1>1 DEF e
        <3> QED BY <1>2, <1>5, <1>7, <2>1, <2>3, <3>1, <3>2, Zenon DEF Says, View
    <2> QED BY <1>0, <2>4, SaysTurn DEF e
<1>8. CASE Fail(e, next_outbound_seq_num(s))
    <2> HIDE DEF e
    <2>1. Becomes(e, next_outbound_seq_num(s), "failed", FALSE, should_stop[e], logouts[e])
        BY <1>0, <1>1, <1>5, <1>6, <1>8, Fields, Zenon DEF Becomes, View, Fail, Goto
    <2> QED BY <1>0, <1>1, <1>2, <1>5, <1>8, <2>1, CloseTurn DEF View, Fail, e
<1> QED BY <1>1, <1>7, <1>8

\* The head of the loop: only an Active session sends a heartbeat.
LEMMA TopTurn ==
    ASSUME EngineInv, NEW e \in Engines, Top(e)
    PROVE  TakesTurn(e)
<1> DEFINE s == check_heartbeat(sess[e])
           action == HeartbeatAction(sess[e])
           ms == <<Msg("0", s)>>
<1>0. EngineTypeOK /\ Local(e)
    BY DEF EngineInv
<1>1. pc[e] = "top" /\ UNCHANGED <<buf, partial, logouts, fault, mode>> /\ due' = due \ {e}
    BY DEF Top
<1>2. \/ /\ should_stop[e]
         /\ Close(e)
         /\ UNCHANGED <<sess, wire, left, should_stop>>
      \/ /\ ~should_stop[e]
         /\ Goto(e, "recv")
         /\ UNCHANGED <<sess, wire, left, open, should_stop>>
      \/ /\ ~should_stop[e] /\ action = "Send" /\ UNCHANGED should_stop
         /\ sess' = [sess EXCEPT ![e] = Numbered(s)]
         /\ Put(e, ms)
         /\ Goto(e, "recv")
         /\ UNCHANGED <<open, left>>
      \/ /\ Fail(e, next_outbound_seq_num(s))
         /\ UNCHANGED should_stop
      \/ /\ should_stop' = [should_stop EXCEPT ![e] = TRUE]
         /\ Close(e)
         /\ UNCHANGED <<sess, wire, left>>
    BY Zenon DEF Top
<1>3. /\ sess[e] \in Sessions /\ sess[e].outbound \in Nat /\ sess[e].inbound \in Nat
      /\ logouts[e] \in Nat /\ Peer(e) \in Engines
    BY <1>0, FieldTypes, Peers
<1>4. View(s, sess[e].role, sess[e].state, sess[e].outbound, sess[e].inbound)
    BY <1>3, CheckHeartbeatView
<1>5. action = "Send" => sess[e].state = "Active"
    BY DEF HeartbeatAction, HeartbeatDue, Silent
<1> HIDE DEF s, action
<1>6. /\ View(Numbered(s), sess[e].role, sess[e].state, sess[e].outbound + 1, sess[e].inbound)
      /\ View(next_outbound_seq_num(s), sess[e].role, sess[e].state, sess[e].outbound + 1, sess[e].inbound)
    BY <1>4, NumberedView DEF View
<1>7. {"top", "recv", "done", "failed"} \subseteq Labels
    BY DEF Labels
<1>8. due' \subseteq Engines /\ open[e]
    BY <1>0, <1>1, Fields DEF Local, Stopped
<1>9. CASE Close(e) /\ UNCHANGED <<sess, wire, left, should_stop>>
    <2>1. Becomes(e, sess[e], "done", FALSE, should_stop[e], logouts[e])
        BY <1>0, <1>1, <1>7, <1>8, <1>9, Fields, Zenon DEF Becomes, Close, Goto
    <2> QED BY <1>1, <1>9, <2>1, CloseTurn
<1>10. CASE ~should_stop[e] /\ Goto(e, "recv") /\ UNCHANGED <<sess, wire, left, open, should_stop>>
    <2>1. Becomes(e, sess[e], "recv", open[e], should_stop[e], logouts[e])
        BY <1>0, <1>1, <1>7, <1>8, <1>10, Fields, Zenon DEF Becomes, Goto
    <2>2. Incoming(e)' = Incoming(e) /\ Incoming(Peer(e))' = Incoming(Peer(e))
        BY <1>1, <1>10 DEF Incoming
    <2>3. Quiet(e, "recv", should_stop[e])
        BY <1>1, <1>10, <2>1, <2>2 DEF Quiet
    <2> QED BY <2>3, SilentTurn
<1>11. CASE /\ ~should_stop[e] /\ action = "Send" /\ UNCHANGED should_stop
            /\ sess' = [sess EXCEPT ![e] = Numbered(s)]
            /\ Put(e, ms)
            /\ Goto(e, "recv")
            /\ UNCHANGED <<open, left>>
    <2>1. /\ ms \in Seq(Message) /\ Len(ms) = 1
          /\ \A i \in 1 .. Len(ms) : ms[i].type = "0"
          /\ NumberedFrom(ms, s.outbound, Peer(e))
        BY <1>3, <1>4, OneMessage DEF MsgType, View
    <2> HIDE DEF ms
    <2>2. wire' \in [Engines -> Seq(Message)]
        BY <1>0, <1>11, <2>1, PutIncoming
    <2>3. Becomes(e, Numbered(s), "recv", open[e], should_stop[e], logouts[e])
        BY <1>0, <1>1, <1>6, <1>7, <1>8, <1>11, <2>2, Fields, Zenon DEF Becomes, View, Goto
    <2>4. /\ \A i \in 1 .. Len(ms) : ms[i].type # "5"
          /\ logouts[e] >= logouts[e]
          /\ s.outbound = sess[e].outbound
          /\ Numbered(s).outbound = sess[e].outbound + Len(ms)
        BY <1>3, <1>4, <1>6, <2>1 DEF View
    <2>5. ~Ungreeted(e) /\ sess[e].state = "Active"
        BY <1>1, <1>5, <1>11 DEF Ungreeted, PreSession
    <2>6. "recv" \in {"top", "recv"} /\ ~(logouts[e] > 0)
        BY <1>0, <1>11 DEF Local
    <2>7. Says(e, ms, Numbered(s), "recv", should_stop[e], logouts[e])
        BY <1>1, <1>6, <1>8, <1>11, <2>1, <2>3, <2>4, <2>5, <2>6, Zenon DEF Says, View
    <2> QED BY <2>7, SaysTurn
<1>12. CASE Fail(e, next_outbound_seq_num(s)) /\ UNCHANGED should_stop
    <2>1. Becomes(e, next_outbound_seq_num(s), "failed", FALSE, should_stop[e], logouts[e])
        BY <1>0, <1>1, <1>6, <1>7, <1>8, <1>12, Fields, Zenon DEF Becomes, View, Fail, Goto
    <2> QED BY <1>1, <1>6, <1>12, <2>1, CloseTurn DEF View, Fail
<1>13. CASE /\ should_stop' = [should_stop EXCEPT ![e] = TRUE]
            /\ Close(e)
            /\ UNCHANGED <<sess, wire, left>>
    <2>1. Becomes(e, sess[e], "done", FALSE, TRUE, logouts[e])
        BY <1>0, <1>1, <1>7, <1>8, <1>13, Fields, Zenon DEF Becomes, Close, Goto
    <2> QED BY <1>1, <1>13, <2>1, CloseTurn
<1> QED BY <1>2, <1>9, <1>10, <1>11, <1>12, <1>13

\* recv() that returns nothing or fails.
LEMMA RecvTurn ==
    ASSUME EngineInv, NEW e \in Engines, RecvNothing(e) \/ RecvReset(e) \/ RecvError(e)
    PROVE  TakesTurn(e)
<1>0. EngineTypeOK /\ Local(e)
    BY DEF EngineInv
<1>1. pc[e] = "recv" /\ UNCHANGED <<buf, partial, wire, left, logouts, due, fault, mode>>
    BY DEF RecvNothing, RecvReset, RecvError, Fail
<1>2. /\ sess[e] \in Sessions /\ ~should_stop[e]
      /\ {"top", "done", "failed"} \subseteq Labels
    BY <1>0, <1>1, Fields DEF Local, Labels
<1>3. CASE RecvNothing(e)
    <2>1. Becomes(e, sess[e], "top", open[e], should_stop[e], logouts[e])
        BY <1>0, <1>1, <1>2, <1>3, Fields, Zenon DEF Becomes, RecvNothing, Goto
    <2>2. Incoming(e)' = Incoming(e) /\ Incoming(Peer(e))' = Incoming(Peer(e))
        BY <1>1 DEF Incoming
    <2>3. Quiet(e, "top", should_stop[e])
        BY <1>1, <1>2, <2>1, <2>2 DEF Quiet
    <2> QED BY <2>3, SilentTurn
<1>4. CASE RecvReset(e)
    <2>1. View(on_disconnected(sess[e]), sess[e].role, "Disconnected",
               sess[e].outbound, sess[e].inbound)
        BY <1>2, StateViews
    <2>2. sess' = [sess EXCEPT ![e] = on_disconnected(sess[e])]
        BY <1>4 DEF RecvReset
    <2>3. Becomes(e, on_disconnected(sess[e]), "done", FALSE, TRUE, logouts[e])
        BY <1>0, <1>1, <1>2, <1>4, <2>1, <2>2, Fields, Zenon DEF Becomes, RecvReset, Close, Goto, View
    <2> QED BY <1>1, <2>1, <2>3, CloseTurn DEF View
<1>5. CASE RecvError(e)
    <2>1. Becomes(e, sess[e], "failed", FALSE, should_stop[e], logouts[e])
        BY <1>0, <1>1, <1>2, <1>5, Fields, Zenon DEF Becomes, RecvError, Fail, Goto
    <2> QED BY <1>1, <2>1, CloseTurn
<1> QED BY <1>3, <1>4, <1>5

\* recv() that returns messages moves them to recv_buf and loses none.
LEMMA RecvDataTurn ==
    ASSUME EngineInv, NEW e \in Engines, RecvData(e)
    PROVE  TakesTurn(e)
<1> DEFINE p == Peer(e)
           b == buf[e]
           w == wire[p]
<1>0. EngineTypeOK /\ Local(e)
    BY DEF EngineInv
<1>1. /\ pc[e] = "recv" /\ UNCHANGED <<sess, should_stop, open, left, logouts, due, fault, mode>>
      /\ pc' = [pc EXCEPT ![e] = "batch"]
    BY DEF RecvData, Goto
<1>2. PICK k \in 0 .. MaxBatch :
          /\ k <= Len(w)
          /\ buf' = [buf EXCEPT ![e] = b \o SubSeq(w, 1, k)]
          /\ wire' = [wire EXCEPT ![p] = SubSeq(w, k + 1, Len(w))]
          /\ partial' = [partial EXCEPT ![e] = (k = 0)]
    BY DEF RecvData
<1>3. p \in Engines /\ p # e /\ Peer(p) = e
    BY Peers
<1>4. /\ buf \in [Engines -> Seq(Message)] /\ wire \in [Engines -> Seq(Message)]
      /\ partial \in [Engines -> BOOLEAN] /\ b \in Seq(Message) /\ w \in Seq(Message)
    BY <1>0, <1>3, Fields
<1> HIDE DEF p, b, w
<1>5. k \in 0 .. Len(w)
    BY <1>2, <1>4, EngineAssumption
<1>6. /\ b \o SubSeq(w, 1, k) \in Seq(Message) /\ SubSeq(w, k + 1, Len(w)) \in Seq(Message)
      /\ (b \o SubSeq(w, 1, k)) \o SubSeq(w, k + 1, Len(w)) = b \o w
    <2>1. b \in Seq(Message) /\ w \in Seq(Message)
        BY <1>4
    <2>2. MovesAll(b, w, k)
        BY <2>1, <1>5, Moved, Zenon
    <2> QED BY <2>2, Zenon DEF MovesAll
<1>9. /\ buf' \in [Engines -> Seq(Message)] /\ buf'[p] = buf[p] /\ buf'[e] = b \o SubSeq(w, 1, k)
      /\ wire' \in [Engines -> Seq(Message)] /\ wire'[e] = wire[e]
      /\ wire'[p] = SubSeq(w, k + 1, Len(w))
    BY <1>2, <1>3, <1>4, <1>6, Zenon
<1>10. Incoming(e)' = Incoming(e) /\ Incoming(p)' = Incoming(p)
    <2>1. Incoming(e)' = buf'[e] \o wire'[p] /\ Incoming(p)' = buf'[p] \o wire'[e]
        BY <1>3 DEF Incoming, p
    <2>2. Incoming(e) = b \o w /\ Incoming(p) = buf[p] \o wire[e]
        BY <1>3 DEF Incoming, p, b, w
    <2> QED BY <1>6, <1>9, <2>1, <2>2, Zenon
<1>11. partial' \in [Engines -> BOOLEAN] /\ ~should_stop[e] /\ "batch" \in Labels
    BY <1>0, <1>1, <1>2, <1>4 DEF Local, Labels
<1>12. Becomes(e, sess[e], "batch", open[e], should_stop[e], logouts[e])
    BY <1>0, <1>1, <1>9, <1>11, Fields, Zenon DEF Becomes, p
<1>13. Quiet(e, "batch", should_stop[e])
    BY <1>1, <1>10, <1>11, <1>12 DEF p, Quiet
<1> QED BY <1>13, SilentTurn

\* The end of an iteration: the application's stop is announced by one Logout.
LEMMA EndIterationTurn ==
    ASSUME EngineInv, NEW e \in Engines, EndIteration(e)
    PROVE  TakesTurn(e)
<1> DEFINE s == sess[e]
           u == next_outbound_seq_num(s)
           t == on_disconnected(u)
           ms == <<Msg("5", s)>>
<1>0. EngineTypeOK /\ Local(e)
    BY DEF EngineInv
<1>1. /\ pc[e] = "batch" /\ pc' = [pc EXCEPT ![e] = "top"]
      /\ UNCHANGED <<buf, partial, open, left, due, fault, mode>>
    BY DEF EndIteration, Goto
<1>2. \/ /\ s.state = "Disconnected"
         /\ should_stop' = [should_stop EXCEPT ![e] = TRUE]
         /\ UNCHANGED <<sess, wire, logouts>>
      \/ /\ s.state = "LogoutSent"
         /\ sess' = [sess EXCEPT ![e] = t]
         /\ should_stop' = [should_stop EXCEPT ![e] = TRUE]
         /\ \/ /\ Put(e, ms)
               /\ logouts' = [logouts EXCEPT ![e] = @ + 1]
            \/ UNCHANGED <<wire, logouts>>
      \/ /\ s.state \notin {"Disconnected", "LogoutSent"}
         /\ UNCHANGED <<sess, wire, logouts, should_stop>>
    BY Zenon DEF EndIteration
<1>3. /\ s \in Sessions /\ s.outbound \in Nat /\ s.inbound \in Nat
      /\ logouts[e] \in Nat /\ Peer(e) \in Engines /\ "top" \in Labels
    BY <1>0, FieldTypes, Peers DEF Labels
<1>4. open[e]
    BY <1>0, <1>1 DEF Local, Stopped
<1>5. View(t, s.role, "Disconnected", s.outbound + 1, s.inbound)
    <2>1. View(u, s.role, s.state, s.outbound + 1, s.inbound)
        BY <1>3, NumberedView
    <2> HIDE DEF u
    <2> QED BY <2>1, StateViews DEF View
<1> HIDE DEF t
<1>6. CASE /\ s.state = "Disconnected"
           /\ should_stop' = [should_stop EXCEPT ![e] = TRUE]
           /\ UNCHANGED <<sess, wire, logouts>>
    <2>1. Becomes(e, sess[e], "top", open[e], TRUE, logouts[e])
        BY <1>0, <1>1, <1>3, <1>6, Fields, Zenon DEF Becomes
    <2>2. Incoming(e)' = Incoming(e) /\ Incoming(Peer(e))' = Incoming(Peer(e))
        BY <1>1, <1>6 DEF Incoming
    <2>3. /\ pc[e] \in {"top", "recv", "batch"} /\ "top" \in {"top", "recv", "batch"}
          /\ "top" = "top" /\ sess[e].state = "Disconnected"
        BY <1>1, <1>6
    <2>4. Quiet(e, "top", TRUE)
        BY <2>1, <2>2, <2>3, Zenon DEF Quiet
    <2> QED BY <2>4, SilentTurn
<1>7. CASE /\ s.state \notin {"Disconnected", "LogoutSent"}
           /\ UNCHANGED <<sess, wire, logouts, should_stop>>
    <2>1. Becomes(e, sess[e], "top", open[e], should_stop[e], logouts[e])
        BY <1>0, <1>1, <1>3, <1>7, Fields, Zenon DEF Becomes
    <2>2. Incoming(e)' = Incoming(e) /\ Incoming(Peer(e))' = Incoming(Peer(e))
        BY <1>1, <1>7 DEF Incoming
    <2>3. ~should_stop[e]
        BY <1>0, <1>4, <1>7 DEF Local
    <2>4. Quiet(e, "top", should_stop[e])
        BY <1>1, <2>1, <2>2, <2>3 DEF Quiet
    <2> QED BY <2>4, SilentTurn
<1>8. CASE /\ s.state = "LogoutSent"
           /\ sess' = [sess EXCEPT ![e] = t]
           /\ should_stop' = [should_stop EXCEPT ![e] = TRUE]
           /\ \/ /\ Put(e, ms)
                 /\ logouts' = [logouts EXCEPT ![e] = @ + 1]
              \/ UNCHANGED <<wire, logouts>>
    <2>1. ~should_stop[e] /\ ~Ungreeted(e) /\ "top" \in {"top", "recv"}
        BY <1>0, <1>1, <1>4, <1>8 DEF Local, Ungreeted, PreSession
    <2>2. CASE Put(e, ms) /\ logouts' = [logouts EXCEPT ![e] = @ + 1]
        <3>1. /\ ms \in Seq(Message) /\ Len(ms) = 1
              /\ NumberedFrom(ms, s.outbound, Peer(e))
            BY <1>3, OneMessage DEF MsgType
        <3> HIDE DEF ms
        <3>2. wire' \in [Engines -> Seq(Message)]
            BY <1>0, <2>2, <3>1, PutIncoming
        <3>3. logouts[e] + 1 \in Nat /\ logouts[e] + 1 >= logouts[e] /\ logouts[e] + 1 > 0
            BY <1>3
        <3>4. Becomes(e, t, "top", open[e], TRUE, logouts[e] + 1)
            BY <1>0, <1>1, <1>3, <1>5, <1>8, <2>2, <3>2, <3>3, Fields, Zenon DEF Becomes, View
        <3>5. \A i \in 1 .. Len(ms) : i = Len(ms)
            BY <3>1
        <3>6. Says(e, ms, t, "top", TRUE, logouts[e] + 1)
            BY <1>1, <1>4, <1>5, <2>1, <2>2, <3>1, <3>3, <3>4, <3>5, Zenon DEF Says, View
        <3> QED BY <3>6, SaysTurn
    <2>3. CASE UNCHANGED <<wire, logouts>>
        <3>1. Becomes(e, t, "top", open[e], TRUE, logouts[e])
            BY <1>0, <1>1, <1>3, <1>5, <1>8, <2>3, Fields, Zenon DEF Becomes, View
        <3>2. Put(e, <<>>) /\ logouts[e] >= logouts[e]
            BY <1>0, <1>3, <2>3, PutNothing
        <3>3. /\ <<>> \in Seq(Message) /\ NumberedFrom(<<>>, s.outbound, Peer(e))
              /\ \A i \in 1 .. Len(<<>>) : <<>>[i].type = "5" => i = Len(<<>>) /\ logouts[e] > 0
            BY <1>3, NoMessage
        <3>4. Says(e, <<>>, t, "top", TRUE, logouts[e])
            BY <1>1, <1>4, <1>5, <2>1, <3>1, <3>2, <3>3, Zenon DEF Says, View
        <3> QED BY <3>4, SaysTurn
    <2> QED BY <1>8, <2>2, <2>3
<1> QED BY <1>2, <1>6, <1>7, <1>8

\* The connection FixServer refuses.
LEMMA ServerRefuseTurn ==
    ASSUME EngineInv, ServerRefuse
    PROVE  TakesTurn("acc")
<1> DEFINE e == "acc"
<1>0. EngineTypeOK /\ e \in Engines
    BY DEF EngineInv, Engines
<1>1. Fail(e, sess[e]) /\ UNCHANGED <<buf, partial, should_stop, logouts, due, fault, mode>>
    BY DEF ServerRefuse
<1> HIDE DEF e
<1>2. "failed" \in Labels
    BY DEF Labels
<1>3. Becomes(e, sess[e], "failed", FALSE, should_stop[e], logouts[e])
    BY <1>0, <1>1, <1>2, Fields, Zenon DEF Becomes, Fail, Goto
<1>4. TakesTurn(e)
    BY <1>0, <1>1, <1>3, CloseTurn DEF Fail
<1> QED BY <1>4 DEF e

\* FixServer reads the Logon, and what it drops the engine does not count.
LEMMA ServerLogonTurn ==
    ASSUME EngineInv, ServerLogon
    PROVE  TakesTurn("acc")
<1> DEFINE e == "acc"
           p == "ini"
           s == on_logon(on_connected(sess[e]))
           t == Numbered(s)
           ms == <<Msg("A", s)>>
           w == wire[p]
<1>0. EngineTypeOK /\ Local(e) /\ e \in Engines /\ p \in Engines /\ Peer(e) = p /\ Peer(p) = e
    BY DEF EngineInv, Engines, Peer
<1>1. pc[e] = "start" /\ UNCHANGED <<buf, partial, should_stop, logouts, due, fault, mode>>
    BY DEF ServerLogon
<1>2. PICK k \in 1 .. Len(w) :
          \/ /\ sess' = [sess EXCEPT ![e] = t]
             /\ wire' = [wire EXCEPT ![p] = SubSeq(w, k + 1, Len(w)),
                                     ![e] = IF open[p] THEN wire[e] \o ms ELSE wire[e]]
             /\ pc' = [pc EXCEPT ![e] = "top"]
             /\ UNCHANGED <<open, left>>
          \/ Fail(e, next_outbound_seq_num(s))
    BY DEF ServerLogon, Goto
<1>3. /\ PreSession(e) /\ open[e] /\ ~should_stop[e] /\ ~(logouts[e] > 0) /\ Uncounted(e)
      /\ buf[e] = <<>>
    BY <1>0, <1>1 DEF Local, PreSession, Stopped, Uncounted
<1>4. /\ sess[e] \in Sessions /\ sess[e].outbound \in Nat /\ logouts[e] \in Nat
      /\ sess[e].role = "Acceptor" /\ {"top", "failed"} \subseteq Labels
    BY <1>0, FieldTypes DEF Local, Labels
<1>5. View(s, "Acceptor", "Active", sess[e].outbound, sess[e].inbound)
    <2> DEFINE o == on_connected(sess[e])
    <2>1. o \in Sessions /\ o.role = "Acceptor" /\ o.outbound = sess[e].outbound /\ o.inbound = sess[e].inbound
        BY <1>4, StateViews DEF View
    <2> HIDE DEF o
    <2>2. View(on_logon(o), "Acceptor", "Active", sess[e].outbound, sess[e].inbound)
        BY <2>1, StateViews
    <2> QED BY <2>2 DEF o
<1> HIDE DEF s
<1>6. /\ View(t, "Acceptor", "Active", sess[e].outbound + 1, sess[e].inbound)
      /\ View(next_outbound_seq_num(s), "Acceptor", "Active", sess[e].outbound + 1, sess[e].inbound)
    BY <1>5, NumberedView DEF View
<1>7. CASE Fail(e, next_outbound_seq_num(s))
    <2> HIDE DEF e
    <2>1. Becomes(e, next_outbound_seq_num(s), "failed", FALSE, should_stop[e], logouts[e])
        BY <1>0, <1>1, <1>4, <1>6, <1>7, Fields, Zenon DEF Becomes, View, Fail, Goto
    <2>2. TakesTurn(e)
        BY <1>0, <1>1, <1>4, <1>6, <1>7, <2>1, CloseTurn DEF View, Fail
    <2> QED BY <2>2 DEF e
<1>8. CASE /\ sess' = [sess EXCEPT ![e] = t]
           /\ wire' = [wire EXCEPT ![p] = SubSeq(w, k + 1, Len(w)),
                                   ![e] = IF open[p] THEN wire[e] \o ms ELSE wire[e]]
           /\ pc' = [pc EXCEPT ![e] = "top"]
           /\ UNCHANGED <<open, left>>
    <2>1. /\ ms \in Seq(Message) /\ Len(ms) = 1 /\ ms # <<>> /\ ms[1].type = "A"
          /\ \A i \in 1 .. Len(ms) : ms[i].type = "A"
          /\ NumberedFrom(ms, sess[e].outbound, p)
        BY <1>0, <1>5, OneMessage DEF MsgType, View
    <2>2. e # p
        OBVIOUS
    <2> HIDE DEF e, p, ms, t, w
    <2>3. /\ wire \in [Engines -> Seq(Message)] /\ wire[e] \in Seq(Message) /\ w \in Seq(Message)
          /\ buf[p] \in Seq(Message) /\ buf \in [Engines -> Seq(Message)]
        BY <1>0, Fields DEF w
    <2>4. SubSeq(w, k + 1, Len(w)) \in Seq(Message) /\ k \in 0 .. Len(w)
        BY <2>3, Dropped
    <2>5. wire[e] \o ms \in Seq(Message)
        BY <2>1, <2>3, Joined
    <2>6. /\ wire' \in [Engines -> Seq(Message)]
          /\ wire'[p] = SubSeq(w, k + 1, Len(w))
          /\ wire'[e] = IF open[p] THEN wire[e] \o ms ELSE wire[e]
        BY <1>0, <1>8, <2>2, <2>3, <2>4, <2>5, Zenon
    <2>7. /\ Incoming(e) = w /\ Incoming(e)' = SubSeq(w, k + 1, Len(w))
        <3>1. \A x \in Seq(Message) : <<>> \o x = x
            OBVIOUS
        <3> QED BY <1>0, <1>1, <1>3, <2>3, <2>4, <2>6, <3>1, Zenon DEF Incoming, w
    <2>8. Incoming(p)' = IF open[p] THEN Incoming(p) \o ms ELSE Incoming(p)
        <3> DEFINE b == buf[p]
                   v == wire[e]
        <3>1. b \in Seq(Message) /\ v \in Seq(Message)
            BY <2>3
        <3> HIDE DEF b, v
        <3>2. b \o (v \o ms) = (b \o v) \o ms
            BY <2>1, <3>1, SMTT(30)
        <3>3. Incoming(p) = b \o v /\ Incoming(p)' = b \o wire'[e]
            BY <1>0, <1>1 DEF Incoming, b, v
        <3> QED BY <2>6, <3>2, <3>3, Zenon DEF v
    <2>9. Becomes(e, t, "top", open[e], should_stop[e], logouts[e])
        BY <1>0, <1>1, <1>4, <1>6, <1>8, <2>3, <2>6, Fields, Zenon DEF Becomes, View
    <2>10. /\ EngineTypeOK' /\ Alone(e)
           /\ sess'[e] = t /\ pc'[e] = "top" /\ open'[e] = open[e]
           /\ should_stop'[e] = should_stop[e] /\ logouts'[e] = logouts[e]
        BY <1>0, <2>9, StepFrame
    <2>11. Local(e)'
        <3>1. /\ ~Stopped(e)' /\ open'[e] /\ pc'[e] # "start"
              /\ ~should_stop'[e] /\ ~PreSession(e)' /\ ~(logouts'[e] > 0)
            BY <1>3, <1>6, <2>10 DEF Stopped, PreSession, View
        <3>2. sess'[e].role = IF e = "ini" THEN "Initiator" ELSE "Acceptor"
            BY <1>6, <2>10 DEF View, e
        <3> QED BY <3>1, <3>2, Zenon DEF Local
    <2>12. Turn(e, ms, k)
        <3>1. Counts(e)' => Counts(e) /\ sess'[e].outbound = sess[e].outbound + Len(ms)
            BY <1>3, <1>6, <2>1, <2>10 DEF Counts, View
        <3>2. \A i \in 1 .. Len(ms) : ms[i].type # "5"
            BY <2>1
        <3>3. /\ ~PreSession(e)' /\ logouts'[e] >= logouts[e] /\ pc'[e] # "batch"
              /\ Alone(e) /\ open'[e] = open[e] /\ should_stop'[e] = should_stop[e]
            BY <1>4, <1>6, <2>10 DEF PreSession, View
        <3> QED BY <1>0, <1>3, <2>1, <2>7, <2>8, <3>1, <3>2, <3>3, Zenon DEF Turn, Alone
    <2>13. TakesTurn(e)
        BY <2>1, <2>4, <2>7, <2>10, <2>11, <2>12 DEF TakesTurn
    <2> QED BY <2>13 DEF e
<1> QED BY <1>2, <1>7, <1>8

\* The clock, a fault and a step of nobody change nothing the invariant speaks of.
LEMMA IdleStep ==
    ASSUME EngineInv, Tick \/ Break \/ UNCHANGED vars
    PROVE  EngineInv'
<1>0. EngineTypeOK /\ (\A e \in Engines : Local(e) /\ Protocol(e) /\ InSequence(e))
    BY DEF EngineInv
<1>1. UNCHANGED <<pc, buf, partial, should_stop, open, wire, left, logouts, mode>>
    BY DEF Tick, Break, vars
<1>2. /\ sess' \in [Engines -> Sessions] /\ due' \subseteq Engines /\ fault' \in BOOLEAN
      /\ \A e \in Engines :
            /\ sess'[e].role = sess[e].role /\ sess'[e].state = sess[e].state
            /\ sess'[e].outbound = sess[e].outbound /\ sess'[e].inbound = sess[e].inbound
    <2>1. sess \in [Engines -> Sessions] /\ due \subseteq Engines /\ fault \in BOOLEAN
        BY <1>0 DEF EngineTypeOK, TypeOK
    <2>2. CASE Break
        BY <2>1, <2>2 DEF Break
    <2>3. CASE Tick
        <3>1. sess' = [e \in Engines |-> IF Stopped(e) THEN sess[e] ELSE Aged(sess[e])]
            BY <2>3 DEF Tick
        <3>2. \A e \in Engines : View(Aged(sess[e]), sess[e].role, sess[e].state,
                                      sess[e].outbound, sess[e].inbound)
            BY <2>1, AgedView
        <3>3. due' \subseteq Engines /\ fault' = fault
            BY <2>3 DEF Tick
        <3> QED BY <2>1, <3>1, <3>2, <3>3, Zenon DEF View
    <2>4. CASE UNCHANGED vars
        BY <2>1, <2>4 DEF vars
    <2> QED BY <2>2, <2>3, <2>4
<1>3. EngineTypeOK'
    BY <1>0, <1>1, <1>2, Zenon DEF EngineTypeOK, TypeOK, mode
<1>4. server_mode' = server_mode
    BY <1>1 DEF mode
<1>5. ASSUME NEW e \in Engines
      PROVE  Local(e)' /\ Protocol(e)' /\ InSequence(e)'
    <2> DEFINE p == Peer(e)
    <2>1. p \in Engines /\ Incoming(e)' = Incoming(e)
        BY <1>1, Peers DEF Incoming
    <2>2. \A f \in Engines :
             /\ (PreSession(f)' <=> PreSession(f)) /\ (Ungreeted(f)' <=> Ungreeted(f))
             /\ (Uncounted(f)' <=> Uncounted(f)) /\ (Stopped(f)' <=> Stopped(f))
             /\ (Counts(f)' <=> Counts(f))
        BY <1>1, <1>2, <1>4, Zenon DEF PreSession, Ungreeted, Uncounted, Stopped, Counts
    <2>3. Local(e)'
        <3>1. /\ Local(e) /\ pc'[e] = pc[e] /\ open'[e] = open[e] /\ buf'[e] = buf[e]
              /\ should_stop'[e] = should_stop[e] /\ logouts'[e] = logouts[e]
              /\ sess'[e].role = sess[e].role /\ sess'[e].state = sess[e].state
            BY <1>0, <1>1, <1>2
        <3>2. /\ (PreSession(e)' <=> PreSession(e)) /\ (Uncounted(e)' <=> Uncounted(e))
              /\ (Stopped(e)' <=> Stopped(e))
            BY <2>2
        <3> QED BY <3>1, <3>2, <1>4 DEF Local
    <2>4. Protocol(e)'
        BY <1>0, <1>1, <2>1, <2>2, Zenon DEF Protocol
    <2>5. InSequence(e)'
        BY <1>0, <1>1, <1>2, <2>1, <2>2, Zenon DEF InSequence, NumberedFrom
    <2> QED BY <2>3, <2>4, <2>5
<1> QED BY <1>3, <1>5 DEF EngineInv

-----------------------------------------------------------------------------
(* Theorems                                                                *)

\* The invariant holds when the engines are created.
LEMMA InitEngineInv == Init => EngineInv
<1> SUFFICES ASSUME Init PROVE EngineInv
    OBVIOUS
<1>1. PICK m \in Modes : server_mode = m.server /\ prompt = m.prompt
    BY DEF Init
<1>2. /\ m \in [server : BOOLEAN, prompt : BOOLEAN]
      /\ m = [server |-> m.server, prompt |-> m.prompt]
    BY <1>1, EngineAssumption
<1>3. /\ sess = [ini |-> ClientSession, acc |-> NewSession("Acceptor")]
      /\ pc = [e \in Engines |-> IF e = "ini" \/ server_mode THEN "start" ELSE "top"]
      /\ buf = [e \in Engines |-> <<>>] /\ partial = [e \in Engines |-> FALSE]
      /\ should_stop = [e \in Engines |-> FALSE] /\ open = [e \in Engines |-> TRUE]
      /\ wire = [e \in Engines |-> <<>>] /\ left = [e \in Engines |-> MaxApp[prompt]]
      /\ logouts = [e \in Engines |-> 0] /\ due = {} /\ fault = FALSE
    BY DEF Init
<1>4. /\ View(ClientSession, "Initiator", "Disconnected", 1, 1)
      /\ View(NewSession("Acceptor"), "Acceptor", "Disconnected", 1, 1)
    BY NewSessionView DEF ClientSession, SessionRole
<1>5. /\ sess \in [Engines -> Sessions]
      /\ \A e \in Engines : View(sess[e], IF e = "ini" THEN "Initiator" ELSE "Acceptor", "Disconnected", 1, 1)
    BY <1>3, <1>4 DEF Engines, View
<1>6. MaxApp[prompt] \in Nat
    BY <1>1, <1>2, EngineAssumption
<1>7. EngineTypeOK
    <2>1. [server |-> server_mode, prompt |-> prompt] \in Modes
        BY <1>1, <1>2, Zenon
    <2>2. pc \in [Engines -> Labels]
        BY <1>3 DEF Labels
    <2>3. /\ buf \in [Engines -> Seq(Message)] /\ wire \in [Engines -> Seq(Message)]
          /\ \A e \in Engines : \A i \in 1 .. Len(buf[e]) : buf[e][i] \in Message
          /\ \A e \in Engines : \A i \in 1 .. Len(wire[e]) : wire[e][i] \in Message
        BY <1>3
    <2>4. left \in [Engines -> 0 .. MaxApp[prompt]] /\ logouts \in [Engines -> Nat]
        BY <1>3, <1>6
    <2>5. /\ partial \in [Engines -> BOOLEAN] /\ should_stop \in [Engines -> BOOLEAN]
          /\ open \in [Engines -> BOOLEAN] /\ due \subseteq Engines /\ fault \in BOOLEAN
        BY <1>3, Zenon
    <2> QED BY <1>5, <2>1, <2>2, <2>3, <2>4, <2>5 DEF EngineTypeOK, TypeOK
<1>8. ASSUME NEW e \in Engines
      PROVE  Local(e) /\ Protocol(e) /\ InSequence(e)
    <2> DEFINE p == Peer(e)
    <2>1. p \in Engines /\ e \in {"ini", "acc"} /\ p # e /\ Peer(p) = e
        BY Peers DEF Engines
    <2>2. Incoming(e) = <<>>
        BY <1>3, <2>1 DEF Incoming
    <2>3. /\ pc[e] = (IF e = "ini" \/ server_mode THEN "start" ELSE "top") /\ buf[e] = <<>>
          /\ ~should_stop[e] /\ ~should_stop[p] /\ open[e] /\ ~(logouts[e] > 0)
          /\ sess[e].role = (IF e = "ini" THEN "Initiator" ELSE "Acceptor")
          /\ sess[e].state = "Disconnected" /\ sess[p].state = "Disconnected"
          /\ sess[e].inbound = 1 /\ sess[p].outbound = 1
        BY <1>3, <1>5, <2>1 DEF View
    <2>4. pc[p] = (IF p = "ini" \/ server_mode THEN "start" ELSE "top")
        BY <1>3, <2>1
    <2>5. Ungreeted(p) /\ PreSession(e)
        BY <2>3, <2>4 DEF Ungreeted, PreSession
    <2>6. Local(e)
        <3>1. pc[e] # "recv" /\ ~Stopped(e)
            BY <2>3 DEF Stopped
        <3>2. pc[e] = "start" => e = "ini" \/ server_mode
            BY <2>3
        <3>3. Uncounted(e) => pc[e] = "start"
            BY <2>3 DEF Uncounted
        <3>4. ~(e = "ini" /\ pc[e] # "start")
            BY <2>3
        <3> QED BY <2>3, <2>5, <3>1, <3>2, <3>3, <3>4, Zenon DEF Local
    <2>7. Protocol(e)
        BY <2>2, <2>3, <2>5 DEF Protocol
    <2>8. InSequence(e)
        BY <2>2, <2>3 DEF InSequence, NumberedFrom
    <2> QED BY <2>6, <2>7, <2>8
<1> QED BY <1>7, <1>8 DEF EngineInv

\* A turn of either engine keeps the invariant.
LEMMA TurnKeeps ==
    ASSUME EngineInv, NEW e \in Engines, TakesTurn(e)
    PROVE  EngineInv'
<1> DEFINE p == Peer(e)
<1>0. EngineTypeOK /\ (\A f \in Engines : Local(f) /\ Protocol(f) /\ InSequence(f))
    BY DEF EngineInv
<1>1. PICK ms \in Seq(Message), k \in 0 .. Len(Incoming(e)) : Turn(e, ms, k)
    BY DEF TakesTurn
<1>2. EngineTypeOK' /\ Local(e)'
    BY DEF TakesTurn
<1>3. p \in Engines /\ \A f \in Engines : f = e \/ f = p
    BY DEF Engines, Peer
<1>4. Protocol(e)' /\ Protocol(p)'
    BY <1>0, <1>1, <1>2, <1>3, TurnProtocol
<1>5. InSequence(e)' /\ InSequence(p)'
    BY <1>0, <1>1, <1>2, <1>3, TurnInSequence
<1>6. Local(p)'
    <2>1. /\ Local(p) /\ pc'[p] = pc[p] /\ open'[p] = open[p] /\ buf'[p] = buf[p]
          /\ should_stop'[p] = should_stop[p] /\ logouts'[p] = logouts[p]
          /\ sess'[p] = sess[p] /\ server_mode' = server_mode
        BY <1>0, <1>1, <1>3, Zenon DEF Turn
    <2>2. /\ (PreSession(p)' <=> PreSession(p)) /\ (Uncounted(p)' <=> Uncounted(p))
          /\ (Stopped(p)' <=> Stopped(p))
        BY <2>1, Zenon DEF PreSession, Uncounted, Stopped
    <2> HIDE DEF p
    <2> QED BY <2>1, <2>2 DEF Local
<1>7. ASSUME NEW f \in Engines
      PROVE  Local(f)' /\ Protocol(f)' /\ InSequence(f)'
    <2>1. CASE f = e
        BY <2>1, <1>2, <1>4, <1>5
    <2>2. CASE f = p
        BY <2>2, <1>4, <1>5, <1>6
    <2> QED BY <1>3, <2>1, <2>2
<1> QED BY <1>2, <1>7 DEF EngineInv

\* Every step of a loop is a turn.
LEMMA LoopTurns ==
    ASSUME EngineInv, NEW e \in Engines, LoopStep(e) \/ TransportFailure(e)
    PROVE  TakesTurn(e)
BY TopTurn, RecvTurn, RecvDataTurn, HeartbeatTurn, TestRequestTurn, AppTurn, LogonTurn,
   LogoutTurn, EndIterationTurn, Zenon DEF LoopStep, TransportFailure, Dispatch

\* Every step of the two engines, the clock and the faults keeps the invariant.
LEMMA StepEngineInv == EngineInv /\ [Next]_vars => EngineInv'
<1> SUFFICES ASSUME EngineInv, [Next]_vars PROVE EngineInv'
    OBVIOUS
<1>1. CASE Start
    <2>1. "ini" \in Engines /\ "acc" \in Engines
        BY DEF Engines
    <2> QED BY <1>1, <2>1, RunInitiatorTurn, ServerLogonTurn, ServerRefuseTurn, TurnKeeps DEF Start
<1>2. CASE \E e \in Engines : LoopStep(e) \/ TransportFailure(e)
    BY <1>2, LoopTurns, TurnKeeps
<1>3. CASE Tick \/ Break
    BY <1>3, IdleStep
<1>4. CASE UNCHANGED vars
    BY <1>4, IdleStep
<1> QED BY <1>1, <1>2, <1>3, <1>4 DEF Next, AllStopped

\* The invariant of two engines running run_loop over one connection, with any
\* mixture of faults, batch sizes and applications.
THEOREM EngineInvariant == Spec => []EngineInv
<1>1. Init => EngineInv
    BY InitEngineInv
<1>2. EngineInv /\ [Next]_vars => EngineInv'
    BY StepEngineInv
<1> QED BY <1>1, <1>2, PTL DEF Spec

\* Sessions, buffers and counters of engine.rs and session.rs keep their types.
THEOREM EngineTypeCorrect == Spec => []TypeOK
<1>1. EngineInv => TypeOK
    BY DEF EngineInv, EngineTypeOK
<1> QED BY <1>1, EngineInvariant, PTL

\* Sender and receiver agree on every number: no path through send_raw, the
\* engine's own sends and validate_inbound_seq makes or sees a gap while both ends
\* are open.
THEOREM EngineInStep == Spec => []InStep
<1>1. EngineInv => InStep
    <2> SUFFICES ASSUME EngineInv, NEW e \in Engines, ~Uncounted(e) PROVE Numbering(e)
        BY DEF InStep, Uncounted
    <2>1. /\ NumberedFrom(Incoming(e), sess[e].inbound, e)
          /\ open[e] /\ Counts(Peer(e)) =>
                sess[Peer(e)].outbound = sess[e].inbound + Len(Incoming(e))
        BY DEF EngineInv, InSequence
    <2> QED BY <2>1 DEF Numbering, NumberedFrom, Counts
<1> QED BY <1>1, EngineInvariant, PTL

\* on_message is called only in a session: after run_loop has dispatched a Logon and
\* never for a message behind a Logout.
THEOREM EngineCallbackInSession == Spec => []CallbackInSession
<1>1. EngineInv => CallbackInSession
    <2> SUFFICES ASSUME EngineInv, NEW e \in Engines,
                        pc[e] = "batch", buf[e] # <<>>, Head(buf[e]).type = "D"
                 PROVE  sess[e].state \in {"Active", "Resending", "LogoutSent"}
        BY DEF CallbackInSession
    <2>1. EngineTypeOK /\ Local(e) /\ Protocol(e)
        BY DEF EngineInv
    <2>2. Incoming(e) # <<>> /\ Incoming(e)[1] = Head(buf[e])
        <3>1. Peer(e) \in Engines
            BY Peers
        <3>2. buf[e] \in Seq(Message) /\ wire[Peer(e)] \in Seq(Message)
            BY <2>1, <3>1 DEF EngineTypeOK
        <3> DEFINE b == buf[e]  w == wire[Peer(e)]
        <3>3. b \in Seq(Message) /\ w \in Seq(Message) /\ b # <<>>
            BY <3>2
        <3> HIDE DEF b, w
        <3>4. b \o w # <<>> /\ (b \o w)[1] = Head(b)
            BY <3>3
        <3> QED BY <3>4 DEF Incoming, b, w
    <2>3. open[e] /\ ~should_stop[e]
        BY <2>1, <2>2 DEF Local, Stopped, Protocol
    <2>4. ~PreSession(e)
        BY <2>1, <2>2, <2>3 DEF Protocol
    <2>5. sess[e].state \in SessionState
        BY <2>1, FieldTypes DEF Sessions
    <2> QED BY <2>3, <2>4, <2>5 DEF PreSession, SessionState
<1> QED BY <1>1, EngineInvariant, PTL

-----------------------------------------------------------------------------
(* The last message                                                        *)

\* A suffix of a sequence is not longer.
LEMMA Shorter ==
    ASSUME NEW S, NEW w \in Seq(S), NEW k \in Nat
    PROVE  Len(SubSeq(w, k + 1, Len(w))) <= Len(w)
OBVIOUS

\* An engine that has sent a Logout sends no other: the dispatch of a Logout sends
\* one before should_stop is set, and so does the end of an iteration.
LEMMA NoSecondLogout ==
    ASSUME EngineInv, NEW e \in Engines, logouts[e] > 0, Next
    PROVE  logouts'[e] = logouts[e]
<1> DEFINE p == Peer(e)
<1>1. /\ EngineTypeOK /\ Local(e) /\ logouts \in [Engines -> Nat]
      /\ p \in Engines /\ p # e /\ (\A f \in Engines : f = e \/ f = p)
    BY Peers DEF EngineInv, EngineTypeOK, TypeOK, Engines
<1>2. should_stop[e] /\ (pc[e] = "batch" => sess[e].state = "Disconnected")
    BY <1>1 DEF Local, Stopped
<1>3. ASSUME NEW f \in Engines, NEW n, logouts' = [logouts EXCEPT ![f] = n], f # e
      PROVE  logouts'[e] = logouts[e]
    BY <1>3, <1>1
<1>4. ASSUME NEW f \in Engines, DispatchLogout(f) PROVE logouts'[e] = logouts[e]
    <2>1. ~should_stop[f]
        BY <1>4, DispatchState DEF DispatchLogout
    <2>2. f # e
        BY <1>2, <2>1
    <2>3. UNCHANGED logouts \/ logouts' = [logouts EXCEPT ![f] = logouts[f] + 1]
        BY <1>4, Zenon DEF DispatchLogout
    <2> QED BY <1>3, <2>2, <2>3
<1>5. ASSUME NEW f \in Engines, EndIteration(f) PROVE logouts'[e] = logouts[e]
    <2>1. \/ UNCHANGED logouts
          \/ /\ pc[f] = "batch" /\ sess[f].state = "LogoutSent"
             /\ logouts' = [logouts EXCEPT ![f] = logouts[f] + 1]
        BY <1>5, Zenon DEF EndIteration
    <2>2. sess[e].state = "LogoutSent" => pc[e] # "batch"
        BY <1>2
    <2> QED BY <1>3, <2>1, <2>2
<1>6. ASSUME NEW f \in Engines, LoopStep(f) \/ TransportFailure(f)
      PROVE  \/ UNCHANGED logouts \/ DispatchLogout(f) \/ EndIteration(f)
    BY <1>6, Zenon
       DEF LoopStep, TransportFailure, Top, RecvNothing, RecvData, Dispatch, RecvReset, RecvError,
           DispatchGarbage, DispatchLogon, DispatchHeartbeat, DispatchTestRequest, DispatchApp
<1>7. Start \/ Tick \/ Break \/ AllStopped => UNCHANGED logouts
    BY Zenon DEF Start, RunInitiator, ServerLogon, ServerRefuse, Tick, Break, AllStopped, vars
<1> QED BY <1>4, <1>5, <1>6, <1>7 DEF Next

\* A step of one engine adds nothing to what the other has in flight: it only reads.
LEMMA OnlyReads ==
    ASSUME EngineTypeOK, NEW p \in Engines,
           \/ LoopStep(p) \/ TransportFailure(p)
           \/ p = "ini" /\ RunInitiator
           \/ p = "acc" /\ (ServerLogon \/ ServerRefuse)
    PROVE  Len(wire'[Peer(p)]) <= Len(wire[Peer(p)])
<1> DEFINE e == Peer(p)
<1>1. e \in Engines /\ e # p
    BY Peers
<1>2. wire \in [Engines -> Seq(Message)] /\ wire[e] \in Seq(Message) /\ Len(wire[e]) \in Nat
    BY <1>1 DEF EngineTypeOK
<1>3. \A w : wire' = [wire EXCEPT ![p] = w] => wire'[e] = wire[e]
    BY <1>1, <1>2
<1>4. \A ms : Put(p, ms) => wire'[e] = wire[e]
    BY <1>3 DEF Put
<1>5. UNCHANGED wire => wire'[e] = wire[e]
    OBVIOUS
<1>6. ASSUME NEW s, NEW b, Callback(p, s, b) PROVE wire'[e] = wire[e]
    BY <1>4, <1>6 DEF Callback
<1>7. ASSUME NEW s, Fail(p, s) PROVE wire'[e] = wire[e]
    BY <1>5, <1>7 DEF Fail
<1>8. CASE RecvData(p)
    <2>1. PICK k \in 0 .. MaxBatch : wire' = [wire EXCEPT ![e] = SubSeq(wire[e], k + 1, Len(wire[e]))]
        BY <1>8 DEF RecvData
    <2>2. k \in Nat
        BY EngineAssumption
    <2>3. wire'[e] = SubSeq(wire[e], k + 1, Len(wire[e]))
        BY <1>1, <1>2, <2>1
    <2> QED BY <1>2, <2>2, <2>3, Shorter
<1>9. CASE p = "acc" /\ ServerLogon
    <2>1. e = "ini"
        BY <1>9 DEF Peer
    <2>2. \/ wire'[e] = wire[e]
          \/ \E k \in 1 .. Len(wire["ini"]) : \E w :
                wire' = [wire EXCEPT !["ini"] = SubSeq(wire["ini"], k + 1, Len(wire["ini"])), !["acc"] = w]
        BY <1>9, <1>7, Zenon DEF ServerLogon
    <2>3. CASE wire'[e] = wire[e]
        BY <1>2, <2>3
    <2>4. CASE ~(wire'[e] = wire[e])
        <3>1. PICK k \in 1 .. Len(wire["ini"]) : \E w :
                wire' = [wire EXCEPT !["ini"] = SubSeq(wire["ini"], k + 1, Len(wire["ini"])), !["acc"] = w]
            BY <2>2, <2>4
        <3>2. k \in Nat /\ wire'[e] = SubSeq(wire[e], k + 1, Len(wire[e]))
            BY <1>1, <1>2, <2>1, <3>1
        <3> QED BY <1>2, <3>2, Shorter
    <2> QED BY <2>3, <2>4
<1>10. CASE (p = "ini" /\ RunInitiator) \/ (p = "acc" /\ ServerRefuse)
    BY <1>2, <1>4, <1>7, <1>10 DEF RunInitiator, ServerRefuse
<1>11. CASE Top(p)
    <2>1. UNCHANGED wire \/ (\E ms : Put(p, ms)) \/ (\E s : Fail(p, s))
        BY <1>11, Zenon DEF Top
    <2> QED BY <1>2, <1>4, <1>5, <1>7, <2>1
<1>12. CASE DispatchLogon(p) \/ DispatchTestRequest(p) \/ DispatchLogout(p) \/ DispatchApp(p)
    <2>1. UNCHANGED wire \/ (\E ms : Put(p, ms)) \/ (\E s : Fail(p, s)) \/ (\E s, b : Callback(p, s, b))
        BY <1>12, Zenon DEF DispatchLogon, DispatchTestRequest, DispatchLogout, DispatchApp
    <2> QED BY <1>2, <1>4, <1>5, <1>6, <1>7, <2>1
<1>13. CASE EndIteration(p) \/ RecvError(p)
    <2>1. UNCHANGED wire \/ (\E ms : Put(p, ms)) \/ (\E s : Fail(p, s))
        BY <1>13, Zenon DEF EndIteration, RecvError
    <2> QED BY <1>2, <1>4, <1>5, <1>7, <2>1
<1>14. CASE RecvNothing(p) \/ DispatchGarbage(p) \/ DispatchHeartbeat(p) \/ RecvReset(p)
    BY <1>2, <1>14 DEF RecvNothing, DispatchGarbage, DispatchHeartbeat, RecvReset
<1>15. CASE Dispatch(p)
    BY <1>12, <1>14, <1>15 DEF Dispatch
<1>16. CASE LoopStep(p) \/ TransportFailure(p)
    BY <1>8, <1>11, <1>13, <1>14, <1>15, <1>16 DEF LoopStep, TransportFailure
<1>17. CASE p = "acc" /\ (ServerLogon \/ ServerRefuse)
    BY <1>9, <1>10, <1>17
<1> QED BY <1>10, <1>16, <1>17

\* A turn of an engine that has stopped or is about to puts nothing in flight.
LEMMA StoppedTurn ==
    ASSUME EngineTypeOK, NEW e \in Engines, should_stop[e], TakesTurn(e)
    PROVE  Len(wire'[e]) = Len(wire[e])
<1> DEFINE p == Peer(e)
<1>1. PICK ms \in Seq(Message), k \in 0 .. Len(Incoming(e)) : Turn(e, ms, k)
    BY DEF TakesTurn
<1>2. p \in Engines /\ Peer(p) = e /\ EngineTypeOK'
    BY Peers DEF TakesTurn
<1>3. ms = <<>> /\ buf'[p] = buf[p] /\ Incoming(p)' = IF open[p] THEN Incoming(p) \o ms ELSE Incoming(p)
    BY <1>1, Zenon DEF Turn
<1>4. /\ buf[p] \in Seq(Message) /\ wire[e] \in Seq(Message) /\ wire'[e] \in Seq(Message)
      /\ Incoming(p) \in Seq(Message)
    BY <1>2, IncomingType DEF EngineTypeOK
<1>5. Incoming(p)' = Incoming(p)
    BY <1>3, <1>4
<1>6. buf[p] \o wire'[e] = buf[p] \o wire[e]
    BY <1>2, <1>3, <1>5 DEF Incoming
<1> DEFINE b == buf[p]  w == wire[e]  v == wire'[e]
<1>7. b \in Seq(Message) /\ w \in Seq(Message) /\ v \in Seq(Message) /\ b \o v = b \o w
    BY <1>4, <1>6
<1> HIDE DEF b, w, v
<1>8. Len(b \o v) = Len(b) + Len(v) /\ Len(b \o w) = Len(b) + Len(w)
    BY <1>7, Joined
<1>9. Len(b) \in Nat /\ Len(v) \in Nat /\ Len(w) \in Nat
    BY <1>7
<1>10. Len(v) = Len(w)
    BY <1>7, <1>8, <1>9
<1> QED BY <1>10 DEF v, w

\* Nothing run_loop does after an engine's Logout puts another message behind it:
\* not the rest of the batch, not the timer, not a callback.
THEOREM EngineLogoutIsLast == Spec => LogoutIsLast
<1>1. EngineInv /\ [Next]_vars =>
         [\A e \in Engines : logouts[e] > 0 =>
             logouts'[e] = logouts[e] /\ Len(wire'[e]) <= Len(wire[e])]_vars
    <2> SUFFICES ASSUME EngineInv, Next, NEW e \in Engines, logouts[e] > 0
                 PROVE  logouts'[e] = logouts[e] /\ Len(wire'[e]) <= Len(wire[e])
        OBVIOUS
    <2>1. logouts'[e] = logouts[e]
        BY NoSecondLogout
    <2> SUFFICES Len(wire'[e]) <= Len(wire[e])
        BY <2>1
    <2>2. EngineTypeOK /\ should_stop[e] /\ Len(wire[e]) \in Nat
        BY DEF EngineInv, Local, EngineTypeOK
    <2>3. Peer(e) \in Engines /\ Peer(Peer(e)) = e /\ (\A f \in Engines : f = e \/ f = Peer(e))
        BY Peers DEF Engines, Peer
    <2>4. TakesTurn(e) => Len(wire'[e]) <= Len(wire[e])
        BY <2>2, StoppedTurn
    <2>5. CASE Start
        <3>1. "ini" \in Engines /\ "acc" \in Engines
            BY DEF Engines
        <3>2. RunInitiator => TakesTurn("ini")
            BY RunInitiatorTurn
        <3>3. ServerLogon \/ ServerRefuse => TakesTurn("acc")
            BY ServerLogonTurn, ServerRefuseTurn
        <3>4. CASE RunInitiator
            <4>1. "ini" = Peer(e) => Len(wire'[e]) <= Len(wire[e])
                BY <2>2, <2>3, <3>1, <3>4, OnlyReads
            <4> QED BY <2>3, <2>4, <3>1, <3>2, <3>4, <4>1, Zenon
        <3>5. CASE ServerLogon \/ ServerRefuse
            <4>1. "acc" = Peer(e) => Len(wire'[e]) <= Len(wire[e])
                BY <2>2, <2>3, <3>1, <3>5, OnlyReads
            <4> QED BY <2>3, <2>4, <3>1, <3>3, <3>5, <4>1, Zenon
        <3> QED BY <2>5, <3>4, <3>5 DEF Start
    <2>6. CASE \E f \in Engines : LoopStep(f) \/ TransportFailure(f)
        <3>1. PICK f \in Engines : LoopStep(f) \/ TransportFailure(f)
            BY <2>6
        <3>2. CASE f = e
            BY <3>1, <3>2, <2>4, LoopTurns, Zenon
        <3>3. CASE f = Peer(e)
            BY <3>1, <3>3, <2>2, <2>3, OnlyReads, Zenon
        <3> QED BY <2>3, <3>2, <3>3
    <2>7. CASE Tick \/ Break \/ AllStopped
        <3>1. wire'[e] = wire[e]
            BY <2>7, Zenon DEF Tick, Break, AllStopped, vars
        <3>2. Len(wire[e]) <= Len(wire[e])
            BY <2>2
        <3> QED BY <3>1, <3>2, Zenon
    <2> QED BY <2>5, <2>6, <2>7 DEF Next
<1> QED BY <1>1, EngineInvariant, PTL DEF Spec, LogoutIsLast

-----------------------------------------------------------------------------
(* Heartbeats keep a session up                                            *)

\* The interval in the configuration of engine e.
Beat(e) == HeartbeatInterval[IF e = "ini" THEN "Initiator" ELSE "Acceptor"]

\* Two engines with compatible intervals that keep up with the clock, nothing broken,
\* no Logout sent.
Calm == CompatibleIntervals /\ ~server_mode /\ prompt /\ ~fault /\ \A e \in Engines : logouts[e] = 0

\* Then neither has stopped or is about to, ...
Settled(e) ==
    /\ ~Stopped(e) /\ ~should_stop[e]
    /\ pc[e] \in {"top", "recv"} => buf[e] = <<>>
    /\ sess[e].state = "LogoutSent" => pc[e] = "batch"
    /\ sess[e].state # "Resending"
    /\ PreSession(e) /\ pc[e] = "batch" => buf[e] # <<>>
    /\ sess[e].state = "LogonSent" => sess[e].sinceSent = 0

\* ... and in a session each sends before its interval is over and has heard from
\* the other within the other's: with nothing on its way to it, not longer ago than
\* the other last sent.
Timely(e) ==
    sess[e].state = "Active" =>
        /\ sess[e].sinceSent <= Beat(e)
        /\ e \notin due => sess[e].sinceSent < Beat(e)
        /\ sess[e].sinceRecv <= Beat(Peer(e))
        /\ Incoming(e) = <<>> => sess[e].sinceRecv <= sess[Peer(e)].sinceSent

HeartbeatInv == Calm => \A e \in Engines : Settled(e) /\ Timely(e)

\* A step within such a time.
CalmStep ==
    /\ EngineInv /\ Calm /\ Calm'
    /\ \A e \in Engines : Settled(e) /\ Timely(e)

\* What a step of e does to its own clocks: it sets the time of sending only if it
\* uses a number.
Beats(e) ==
    /\ Settled(e)'
    /\ sess'[e].state = "Active" =>
          /\ sess'[e].sinceSent <= Beat(e)
          /\ e \notin due' => sess'[e].sinceSent < Beat(e)
          /\ \/ sess'[e].sinceRecv = 0
             \/ /\ sess[e].state = "Active"
                /\ sess'[e].sinceRecv = sess[e].sinceRecv
                /\ sess'[e].inbound = sess[e].inbound
    /\ sess'[e].sinceSent = sess[e].sinceSent \/ sess'[e].outbound # sess[e].outbound
    /\ Peer(e) \in due' <=> Peer(e) \in due

\* Ages are numbers.
LEMMA AgeTypes ==
    ASSUME NEW s \in Sessions
    PROVE  s.sinceSent \in Nat /\ s.sinceRecv \in Nat /\ s.outbound \in Nat /\ s.inbound \in Nat
BY DEF Sessions

\* Intervals are numbers above zero, and the one of e's session is e's.
LEMMA BeatTypes ==
    /\ Grace \in Nat \ {0}
    /\ \A e \in Engines :
          /\ Beat(e) \in Nat \ {0}
          /\ Local(e) => Interval(sess[e]) = Beat(e)
          /\ CompatibleIntervals => Beat(Peer(e)) < Beat(e) + Grace
<1>1. "Initiator" \in SessionRole /\ "Acceptor" \in SessionRole
    BY DEF SessionRole
<1>2. Grace \in Nat \ {0} /\ \A r \in SessionRole : HeartbeatInterval[r] \in Nat \ {0}
    BY SessionAssumption
<1> QED BY <1>1, <1>2, Zenon DEF Beat, Local, Interval, CompatibleIntervals

\* A turn with such clocks leaves both engines settled and in time.
LEMMA BeatsKeep ==
    ASSUME CalmStep, NEW e \in Engines, TakesTurn(e), Beats(e)
    PROVE  \A f \in Engines : Settled(f)' /\ Timely(f)'
<1> DEFINE p == Peer(e)
           q == Incoming(e)
           r == Incoming(p)
<1>1. p \in Engines /\ Peer(p) = e /\ p # e /\ \A f \in Engines : f = e \/ f = p
    BY Peers DEF Engines, Peer
<1>2. PICK ms \in Seq(Message), k \in 0 .. Len(q) : Turn(e, ms, k)
    BY DEF TakesTurn
<1>3. /\ sess'[p] = sess[p] /\ pc'[p] = pc[p] /\ buf'[p] = buf[p]
      /\ should_stop'[p] = should_stop[p]
      /\ q' = SubSeq(q, k + 1, Len(q))
      /\ r' = IF open[p] THEN r \o ms ELSE r
      /\ Uncounted(e) \/ (k \in {0, 1} /\ sess'[e].inbound = sess[e].inbound + k)
      /\ Counts(e)' => sess'[e].outbound = sess[e].outbound + Len(ms)
    BY <1>2, Zenon DEF Turn
<1>4. /\ q \in Seq(Message) /\ r \in Seq(Message) /\ k \in Nat
      /\ \A f \in Engines : sess[f] \in Sessions /\ sess'[f] \in Sessions
      /\ Len(q) \in Nat /\ Len(ms) \in Nat
    <2>1. EngineTypeOK /\ EngineTypeOK'
        BY DEF CalmStep, EngineInv, TakesTurn
    <2>2. \A f \in Engines : sess[f] \in Sessions /\ sess'[f] \in Sessions
        BY <2>1 DEF EngineTypeOK, TypeOK
    <2> QED BY <1>1, <2>1, <2>2, IncomingType
<1>5. /\ open[p] /\ Counts(e)' /\ ~Uncounted(e)
      /\ Settled(p) /\ Timely(p) /\ Timely(e)
    <2>1. Local(p) /\ Local(e)' /\ Settled(p) /\ Settled(e)' /\ Timely(p) /\ Timely(e) /\ ~server_mode
        BY <1>1 DEF CalmStep, EngineInv, TakesTurn, Beats, Calm
    <2>2. open[p]
        BY <2>1, Zenon DEF Local, Settled
    <2>3. open'[e] /\ ~should_stop'[e]
        BY <2>1, Zenon DEF Local, Settled
    <2> QED BY <2>1, <2>2, <2>3 DEF Counts, Uncounted
<1>6. sess'[e].inbound = sess[e].inbound => q' = q
    <2> HIDE DEF q, r, p
    <2> SUFFICES ASSUME sess'[e].inbound = sess[e].inbound PROVE q' = q
        OBVIOUS
    <2>1. sess[e].inbound \in Nat
        BY <1>4, AgeTypes
    <2>2. sess[e].inbound + k = sess[e].inbound
        BY <1>3, <1>5
    <2>3. k = 0
        BY <1>4, <2>1, <2>2
    <2>4. SubSeq(q, 0 + 1, Len(q)) = q
        BY <1>4
    <2> QED BY <1>3, <2>3, <2>4
<1>7. r' = <<>> => r = <<>> /\ sess'[e].sinceSent = sess[e].sinceSent
    <2>1. sess[e].outbound \in Nat
        BY <1>4, AgeTypes
    <2> HIDE DEF q, r, p
    <2> SUFFICES ASSUME r' = <<>> PROVE r = <<>> /\ sess'[e].sinceSent = sess[e].sinceSent
        OBVIOUS
    <2>2. r = <<>> /\ Len(ms) = 0
        <3>1. r \o ms = <<>> /\ Len(r \o ms) = Len(r) + Len(ms)
            BY <1>3, <1>4, <1>5, Joined
        <3> QED BY <1>4, <3>1
    <2>3. sess'[e].outbound = sess[e].outbound
        BY <1>3, <1>5, <2>1, <2>2
    <2> QED BY <2>2, <2>3 DEF Beats
<1>8. /\ sess[p].sinceSent \in Nat /\ sess[e].sinceRecv \in Nat
    BY <1>1, <1>4, AgeTypes
<1>9. Settled(p)'
    BY <1>3, <1>5, Zenon DEF Settled, Stopped, PreSession
<1>10. Timely(p)'
    <2> SUFFICES ASSUME sess'[p].state = "Active" PROVE Timely(p)'
        BY DEF Timely
    <2>1. /\ sess[p].sinceSent <= Beat(p)
          /\ p \notin due => sess[p].sinceSent < Beat(p)
          /\ sess[p].sinceRecv <= Beat(e)
          /\ r = <<>> => sess[p].sinceRecv <= sess[e].sinceSent
        BY <1>1, <1>3, <1>5 DEF Timely
    <2>2. p \in due' <=> p \in due
        BY DEF Beats
    <2>3. r' = <<>> => sess'[p].sinceRecv <= sess'[e].sinceSent
        BY <1>3, <1>7, <2>1
    <2> QED BY <1>1, <1>3, <2>1, <2>2, <2>3, Zenon DEF Timely
<1>11. Timely(e)'
    <2> SUFFICES ASSUME sess'[e].state = "Active" PROVE Timely(e)'
        BY DEF Timely
    <2>1. /\ sess'[e].sinceSent <= Beat(e)
          /\ e \notin due' => sess'[e].sinceSent < Beat(e)
        BY DEF Beats
    <2>2. CASE sess'[e].sinceRecv = 0
        <3>1. 0 <= sess[p].sinceSent /\ 0 <= Beat(p)
            BY <1>1, <1>8, BeatTypes
        <3> QED BY <1>3, <2>1, <2>2, <3>1, Zenon DEF Timely
    <2>3. CASE /\ sess[e].state = "Active"
               /\ sess'[e].sinceRecv = sess[e].sinceRecv
               /\ sess'[e].inbound = sess[e].inbound
        <3>1. /\ sess[e].sinceRecv <= Beat(p)
              /\ q = <<>> => sess[e].sinceRecv <= sess[p].sinceSent
            BY <1>5, <2>3 DEF Timely
        <3>2. q' = q
            BY <1>6, <2>3
        <3> QED BY <1>3, <2>1, <2>3, <3>1, <3>2, Zenon DEF Timely
    <2> QED BY <2>2, <2>3 DEF Beats
<1> QED BY <1>1, <1>9, <1>10, <1>11 DEF Beats

\* In calm times an engine runs, its peer's end is open and no call fails.
LEMMA CalmFacts ==
    ASSUME CalmStep, NEW e \in Engines
    PROVE  /\ EngineTypeOK /\ EngineInv /\ sess[e] \in Sessions
           /\ ~should_stop[e] /\ pc[e] \notin {"done", "failed"}
           /\ ~SendMayFail(e) /\ ~fault /\ ~server_mode /\ prompt
           /\ open[Peer(e)] /\ ~Uncounted(e)
           /\ logouts[e] = 0 /\ logouts'[e] = 0 /\ logouts[Peer(e)] = 0
           /\ Settled(e) /\ Timely(e) /\ Local(e) /\ Protocol(e)
<1>1. Peer(e) \in Engines
    BY Peers
<1>2. /\ EngineInv /\ EngineTypeOK /\ Settled(e) /\ Timely(e) /\ Settled(Peer(e))
      /\ Local(e) /\ Local(Peer(e)) /\ Protocol(e)
      /\ Calm /\ Calm'
    BY <1>1, Zenon DEF CalmStep, EngineInv
<1>3. sess[e] \in Sessions
    BY <1>2, FieldTypes
<1>4. open[Peer(e)]
    BY <1>2, Zenon DEF Local, Settled
<1>5. pc[e] \notin {"done", "failed"} /\ ~should_stop[e]
    BY <1>2, Zenon DEF Settled, Stopped
<1> QED BY <1>1, <1>2, <1>3, <1>4, <1>5, Zenon DEF Calm, SendMayFail, Uncounted

\* What e's session is once it has dispatched a message: heard from just now, and
\* the time of sending set only with a number.
Fresh(e, s) ==
    /\ s \in Sessions /\ s.state \in {"Active", "LogoutSent"} /\ s.sinceRecv = 0
    /\ s.outbound >= sess[e].outbound
    /\ s.sinceSent = sess[e].sinceSent \/ s.outbound > sess[e].outbound
    /\ \/ s.sinceSent = 0
       \/ s.sinceSent = sess[e].sinceSent /\ (s.state = "Active" => sess[e].state = "Active")

\* A message received, whatever its number, sets the time of receipt.
LEMMA ReceivedClocks ==
    ASSUME NEW s \in Sessions, NEW seq \in Nat
    PROVE  LET t == validate_inbound_seq(on_message_received(s), seq) IN
           t.sinceRecv = 0 /\ t.sinceSent = s.sinceSent
<1> DEFINE m == on_message_received(s)
<1>1. m \in Sessions /\ m.sinceRecv = 0 /\ m.sinceSent = s.sinceSent
    BY TimeViews, Zenon DEF View, on_message_received, Sessions
<1> HIDE DEF m
<1>2. /\ [m EXCEPT !.inbound = @ + 1, !.sinceRecv = 0].sinceRecv = 0
      /\ [m EXCEPT !.inbound = @ + 1, !.sinceRecv = 0].sinceSent = s.sinceSent
      /\ [m EXCEPT !.state = "Resending"].sinceRecv = 0
      /\ [m EXCEPT !.state = "Resending"].sinceSent = s.sinceSent
    BY <1>1, Zenon DEF Sessions
<1>3. \/ validate_inbound_seq(m, seq) = [m EXCEPT !.inbound = @ + 1, !.sinceRecv = 0]
      \/ validate_inbound_seq(m, seq) = [m EXCEPT !.state = "Resending"]
      \/ validate_inbound_seq(m, seq) = m
    BY DEF validate_inbound_seq
<1> QED BY <1>1, <1>2, <1>3, Zenon DEF m

\* What sending, request_stop, a Logon and a connection do to the clocks.
LEMMA SentClocks ==
    ASSUME NEW s \in Sessions, NEW n \in Nat
    PROVE  /\ Numbered(s).sinceSent = 0 /\ Numbered(s).sinceRecv = s.sinceRecv
           /\ n # 0 => send_raw(s, n).sinceSent = 0
           /\ n = 0 => send_raw(s, n) = s
           /\ send_raw(s, n).sinceRecv = s.sinceRecv
           /\ request_stop(s).sinceSent = s.sinceSent /\ request_stop(s).sinceRecv = s.sinceRecv
           /\ on_logon(s).sinceSent = s.sinceSent /\ on_logon(s).sinceRecv = 0
<1>1. /\ Numbered(s).sinceSent = 0 /\ Numbered(s).sinceRecv = s.sinceRecv
      /\ request_stop(s).sinceSent = s.sinceSent /\ request_stop(s).sinceRecv = s.sinceRecv
      /\ on_logon(s).sinceSent = s.sinceSent /\ on_logon(s).sinceRecv = 0
    BY Zenon DEF Numbered, on_message_sent, next_outbound_seq_num, request_stop, on_logout_sent,
                 on_logon, Sessions
<1>2. n # 0 => send_raw(s, n).sinceSent = 0 /\ send_raw(s, n).sinceRecv = s.sinceRecv
    BY Zenon DEF send_raw, on_message_sent, Sessions
<1>3. n = 0 => send_raw(s, n) = s
    BY DEF send_raw
<1> QED BY <1>1, <1>2, <1>3, Zenon

\* What is sent in answer leaves the session fresh.
LEMMA FreshAnswers ==
    ASSUME EngineTypeOK, NEW e \in Engines, NEW s, Fresh(e, s)
    PROVE  /\ Fresh(e, Numbered(s)) /\ Fresh(e, request_stop(s))
           /\ \A n \in Nat : Fresh(e, send_raw(s, n))
<1>1. s \in Sessions /\ sess[e].outbound \in Nat /\ s.outbound \in Nat
    BY FieldTypes, AgeTypes DEF Fresh
<1>2. Fresh(e, Numbered(s))
    <2>1. View(Numbered(s), s.role, s.state, s.outbound + 1, s.inbound)
        BY <1>1, NumberedView
    <2>2. Numbered(s).sinceSent = 0 /\ Numbered(s).sinceRecv = s.sinceRecv
        BY <1>1, SentClocks
    <2>3. s.outbound + 1 >= sess[e].outbound /\ s.outbound + 1 > sess[e].outbound
        BY <1>1 DEF Fresh
    <2> QED BY <2>1, <2>2, <2>3, Zenon DEF Fresh, View
<1>3. Fresh(e, request_stop(s))
    <2>1. View(request_stop(s), s.role, "LogoutSent", s.outbound, s.inbound)
        BY <1>1, StateViews DEF request_stop
    <2>2. request_stop(s).sinceSent = s.sinceSent /\ request_stop(s).sinceRecv = s.sinceRecv
        BY <1>1, SentClocks
    <2> QED BY <2>1, <2>2 DEF Fresh, View
<1>4. ASSUME NEW n \in Nat PROVE Fresh(e, send_raw(s, n))
    <2>1. View(send_raw(s, n), s.role, s.state, s.outbound + n, s.inbound)
        BY <1>1, SendRawView
    <2>2. /\ n # 0 => send_raw(s, n).sinceSent = 0
          /\ n = 0 => send_raw(s, n) = s
          /\ send_raw(s, n).sinceRecv = s.sinceRecv
        BY <1>1, SentClocks
    <2>3. CASE n = 0
        BY <2>2, <2>3
    <2>4. CASE n # 0
        <3>1. s.outbound + n >= sess[e].outbound /\ s.outbound + n > sess[e].outbound
            BY <1>1, <2>4 DEF Fresh
        <3> QED BY <2>1, <2>2, <2>4, <3>1, Zenon DEF Fresh, View
    <2> QED BY <2>3, <2>4
<1> QED BY <1>2, <1>3, <1>4

\* A dispatch that leaves the session fresh and goes on.
LEMMA FreshBeats ==
    ASSUME CalmStep, NEW e \in Engines, NEW types, Dispatching(e, types),
           NEW s, Fresh(e, s), sess' = [sess EXCEPT ![e] = s],
           UNCHANGED <<pc, should_stop, due>>
    PROVE  Beats(e)
<1>1. /\ EngineTypeOK /\ ~should_stop[e] /\ Timely(e) /\ pc[e] = "batch"
    BY CalmFacts DEF Dispatching
<1>2. sess'[e] = s /\ s \in Sessions /\ s.outbound \in Nat /\ sess[e].outbound \in Nat
      /\ s.sinceSent \in Nat
    <2>1. sess \in [Engines -> Sessions] /\ s \in Sessions
        BY <1>1 DEF EngineTypeOK, TypeOK, Fresh
    <2> QED BY <2>1, AgeTypes
<1>3. Settled(e)'
    <2>1. s.state \in {"Active", "LogoutSent"} /\ pc'[e] = "batch" /\ ~should_stop'[e]
        BY <1>1 DEF Fresh
    <2> QED BY <1>2, <2>1 DEF Settled, Stopped, PreSession
<1>4. ASSUME s.state = "Active"
      PROVE  /\ s.sinceSent <= Beat(e)
             /\ e \notin due' => s.sinceSent < Beat(e)
    <2>1. CASE s.sinceSent = 0
        BY <2>1, BeatTypes
    <2>2. CASE s.sinceSent = sess[e].sinceSent /\ sess[e].state = "Active"
        BY <1>1, <2>2 DEF Timely
    <2> QED BY <1>4, <2>1, <2>2 DEF Fresh
<1>5. s.outbound > sess[e].outbound => s.outbound # sess[e].outbound
    BY <1>2
<1> QED BY <1>2, <1>3, <1>4, <1>5, Zenon DEF Beats, Fresh

\* The application's part of a dispatch.
LEMMA CallbackBeats ==
    ASSUME CalmStep, NEW e \in Engines, NEW types, Dispatching(e, types),
           NEW s, Fresh(e, s), NEW before, Callback(e, s, before),
           UNCHANGED <<should_stop, due>>
    PROVE  Beats(e)
<1>1. EngineTypeOK /\ ~fault
    BY CalmFacts
<1>2. PICK n \in 0 .. left[e], stop \in BOOLEAN :
          /\ sess' = [sess EXCEPT ![e] = IF stop THEN request_stop(send_raw(s, n))
                                         ELSE send_raw(s, n)]
          /\ UNCHANGED pc
    BY <1>1, Zenon DEF Callback
<1>3. n \in Nat
    <2>1. left \in [Engines -> 0 .. MaxApp[prompt]]
        BY <1>1, Fields
    <2> QED BY <2>1
<1>4. Fresh(e, send_raw(s, n)) /\ Fresh(e, request_stop(send_raw(s, n)))
    BY <1>1, <1>3, FreshAnswers
<1>5. Fresh(e, IF stop THEN request_stop(send_raw(s, n)) ELSE send_raw(s, n))
    BY <1>4
<1> DEFINE t == IF stop THEN request_stop(send_raw(s, n)) ELSE send_raw(s, n)
<1>6. Fresh(e, t) /\ sess' = [sess EXCEPT ![e] = t]
    BY <1>2, <1>5
<1> HIDE DEF t
<1> QED BY <1>2, <1>6, FreshBeats

\* The messages run_loop dispatches in calm times: no Logout is among them.
LEMMA DispatchBeats ==
    ASSUME CalmStep, NEW e \in Engines, Dispatch(e)
    PROVE  Beats(e)
<1> DEFINE s == Received(e)
<1>1. /\ EngineTypeOK /\ EngineInv /\ ~Uncounted(e) /\ ~SendMayFail(e)
      /\ sess[e] \in Sessions /\ Settled(e) /\ Local(e) /\ Protocol(e) /\ logouts[Peer(e)] = 0
      /\ ~should_stop[e]
    BY CalmFacts
<1>2. PICK types : Dispatching(e, types) /\ types \subseteq {Head(buf[e]).type}
    BY DEF Dispatch, DispatchGarbage, DispatchLogon, DispatchHeartbeat, DispatchTestRequest,
           DispatchLogout, DispatchApp, Dispatching
<1>3. /\ s \in Sessions /\ s.role = sess[e].role /\ s.outbound = sess[e].outbound
      /\ s.state = sess[e].state
      /\ Head(buf[e]).type # "X"
    BY <1>1, <1>2, ReceivedView, Zenon
<1>4. s.sinceRecv = 0 /\ s.sinceSent = sess[e].sinceSent
    <2>1. Head(buf[e]).seq \in Nat
        BY <1>1, <1>2, TakeIncoming DEF Message
    <2> QED BY <1>1, <2>1, ReceivedClocks DEF Received
<1>5. Head(buf[e]).type # "5"
    <2>1. Incoming(e) \in Seq(Message) /\ Incoming(e)[1] = Head(buf[e]) /\ 1 \in 1 .. Len(Incoming(e))
        BY <1>1, <1>2, TakeIncoming, IncomingType
    <2>2. \A i \in 1 .. Len(Incoming(e)) : Incoming(e)[i].type = "5" => logouts[Peer(e)] > 0
        BY <1>1 DEF Protocol
    <2>3. ~(logouts[Peer(e)] > 0)
        BY <1>1
    <2> QED BY <2>1, <2>2, <2>3, Zenon
<1>6. /\ pc[e] = "batch" /\ open[e]
      /\ PreSession(e) => Head(buf[e]).type = "A"
      /\ ~PreSession(e) => sess[e].state \in {"Active", "LogoutSent"}
    BY <1>1, <1>2, DispatchState DEF Settled
<1> HIDE DEF s
<1>7. s.outbound \in Nat /\ s.sinceSent \in Nat
    BY <1>3, AgeTypes
<1>8. ~PreSession(e) => Fresh(e, s)
    BY <1>3, <1>4, <1>6, <1>7 DEF Fresh
<1>9. CASE DispatchHeartbeat(e)
    <2>1. /\ ~PreSession(e) /\ sess' = [sess EXCEPT ![e] = s] /\ UNCHANGED <<pc, should_stop, due>>
          /\ Dispatching(e, {"0"})
        BY <1>6, <1>9 DEF DispatchHeartbeat, Dispatching, s
    <2> QED BY <1>8, <2>1, FreshBeats
<1>10. CASE DispatchTestRequest(e)
    <2>1. /\ ~PreSession(e) /\ sess' = [sess EXCEPT ![e] = Numbered(s)]
          /\ UNCHANGED <<pc, should_stop, due>> /\ Dispatching(e, {"1"})
        BY <1>1, <1>6, <1>10 DEF DispatchTestRequest, Dispatching, s
    <2>2. Fresh(e, Numbered(s))
        BY <1>1, <1>8, <2>1, FreshAnswers
    <2> QED BY <2>1, <2>2, FreshBeats
<1>11. CASE DispatchApp(e)
    <2>1. /\ ~PreSession(e) /\ Callback(e, s, <<>>)
          /\ UNCHANGED <<should_stop, due>> /\ Dispatching(e, {"D"})
        BY <1>6, <1>11 DEF DispatchApp, Dispatching, s
    <2> QED BY <1>8, <2>1, CallbackBeats
<1>12. CASE DispatchLogon(e)
    <2> DEFINE o == IF s.state = "Disconnected" THEN on_connected(s) ELSE s
               c == on_logon(o)
    <2>0. UNCHANGED <<should_stop, due>> /\ Dispatching(e, {"A"})
        BY <1>12 DEF DispatchLogon
    <2>1. \/ /\ s.role = "Acceptor" /\ s.state \in {"Disconnected", "Connecting"}
             /\ Callback(e, Numbered(c), <<Msg("A", c)>>)
          \/ s.state = "LogonSent" /\ Callback(e, on_logon(s), <<>>)
          \/ /\ s.state # "LogonSent"
             /\ ~(s.role = "Acceptor" /\ s.state \in {"Disconnected", "Connecting"})
             /\ sess' = [sess EXCEPT ![e] = s]
             /\ UNCHANGED pc
        BY <1>1, <1>12, Zenon DEF DispatchLogon, s
    <2>2. CASE Callback(e, Numbered(c), <<Msg("A", c)>>)
        <3>1. o \in Sessions /\ o.outbound = s.outbound
            BY <1>3, StateViews DEF View
        <3> HIDE DEF o
        <3>2. View(c, o.role, "Active", s.outbound, o.inbound) /\ c.sinceRecv = 0
            <4>1. View(on_logon(o), o.role, "Active", o.outbound, o.inbound)
                BY <3>1, StateViews
            <4>2. on_logon(o).sinceRecv = 0
                BY <3>1, SentClocks
            <4> QED BY <3>1, <4>1, <4>2
        <3> HIDE DEF c
        <3>3. c \in Sessions
            BY <3>2 DEF View
        <3>4. View(Numbered(c), c.role, "Active", s.outbound + 1, c.inbound)
            BY <3>2, <3>3, NumberedView DEF View
        <3>5. Numbered(c).sinceSent = 0 /\ Numbered(c).sinceRecv = 0
            BY <3>2, <3>3, SentClocks
        <3>6. s.outbound + 1 >= sess[e].outbound /\ s.outbound + 1 > sess[e].outbound
            BY <1>3, <1>7
        <3>7. Fresh(e, Numbered(c))
            BY <3>4, <3>5, <3>6, Zenon DEF Fresh, View
        <3> QED BY <2>0, <2>2, <3>7, CallbackBeats
    <2>3. CASE s.state = "LogonSent" /\ Callback(e, on_logon(s), <<>>)
        <3>1. s.sinceSent = 0
            BY <1>1, <1>3, <1>4, <2>3 DEF Settled
        <3>2. View(on_logon(s), s.role, "Active", s.outbound, s.inbound)
            BY <1>3, StateViews
        <3>3. on_logon(s).sinceSent = 0 /\ on_logon(s).sinceRecv = 0
            BY <1>3, <3>1, SentClocks
        <3>4. s.outbound >= sess[e].outbound
            BY <1>3, <1>7
        <3>5. Fresh(e, on_logon(s))
            BY <1>3, <1>4, <3>1, <3>2, <3>3, <3>4, Zenon DEF Fresh, View
        <3> QED BY <2>0, <2>3, <3>5, CallbackBeats
    <2>4. CASE /\ s.state # "LogonSent"
               /\ ~(s.role = "Acceptor" /\ s.state \in {"Disconnected", "Connecting"})
               /\ sess' = [sess EXCEPT ![e] = s]
               /\ UNCHANGED pc
        <3>1. ~PreSession(e)
            BY <1>1, <1>3, <1>6, <2>4 DEF Local
        <3> QED BY <1>8, <2>0, <2>4, <3>1, FreshBeats
    <2> QED BY <2>1, <2>2, <2>3, <2>4
<1>13. ~DispatchGarbage(e) /\ ~DispatchLogout(e)
    BY <1>3, <1>5 DEF DispatchGarbage, DispatchLogout, Dispatching
<1> QED BY <1>9, <1>10, <1>11, <1>12, <1>13 DEF Dispatch

\* A step that leaves the session alone.
LEMMA QuietBeats ==
    ASSUME CalmStep, NEW e \in Engines, sess'[e] = sess[e], Settled(e)',
           e \in due => e \in due' \/ ~HeartbeatDue(sess[e]),
           Peer(e) \in due' <=> Peer(e) \in due
    PROVE  Beats(e)
<1>1. Timely(e) /\ sess[e] \in Sessions
    BY CalmFacts
<1>2. sess[e].sinceSent \in Nat /\ Beat(e) \in Nat /\ Interval(sess[e]) = Beat(e)
    BY <1>1, AgeTypes, BeatTypes, CalmFacts
<1>3. sess[e].state = "Active" /\ e \notin due' => sess[e].sinceSent < Beat(e)
    BY <1>1, <1>2 DEF Timely, HeartbeatDue
<1> QED BY <1>1, <1>3, Zenon DEF Beats, Timely

\* The head of the loop: the timer sends in time, and a peer in time is not silent.
LEMMA TopBeats ==
    ASSUME CalmStep, NEW e \in Engines, Top(e)
    PROVE  Beats(e)
<1> DEFINE s == check_heartbeat(sess[e])
<1>1. /\ EngineTypeOK /\ sess[e] \in Sessions /\ ~should_stop[e] /\ ~SendMayFail(e)
      /\ Settled(e) /\ Timely(e)
    BY CalmFacts
<1>2. /\ pc[e] = "top" /\ due' = due \ {e} /\ UNCHANGED buf
    BY DEF Top
<1>3. /\ sess[e].sinceSent \in Nat /\ sess[e].sinceRecv \in Nat /\ sess[e].outbound \in Nat
      /\ Beat(e) \in Nat \ {0} /\ Beat(Peer(e)) \in Nat /\ Grace \in Nat
    BY <1>1, AgeTypes, BeatTypes, Peers
<1>4. pc \in [Engines -> Labels] /\ sess \in [Engines -> Sessions]
    BY <1>1 DEF EngineTypeOK, TypeOK
<1>5. Peer(e) \in due' <=> Peer(e) \in due
    BY <1>2, Peers
<1>6. ~Silent(sess[e])
    <2>1. Beat(Peer(e)) < Beat(e) + Grace /\ Timeout(sess[e]) = Beat(e) + Grace
        BY CalmFacts, BeatTypes DEF CalmStep, Calm, Timeout
    <2> QED BY <1>1, <1>3, <2>1 DEF Silent, Timely
<1>7. HeartbeatAction(sess[e]) = IF HeartbeatDue(sess[e]) THEN "Send" ELSE "None"
    BY <1>6 DEF HeartbeatAction
<1>8. CASE HeartbeatAction(sess[e]) = "None"
    <2>1. Goto(e, "recv") /\ UNCHANGED <<sess, should_stop>> /\ ~HeartbeatDue(sess[e])
        BY <1>1, <1>7, <1>8 DEF Top
    <2>2. pc'[e] = "recv"
        BY <1>4, <2>1 DEF Goto
    <2>3. Settled(e)'
        BY <1>1, <1>2, <2>1, <2>2 DEF Settled, Stopped, PreSession
    <2> QED BY <1>5, <2>1, <2>3, QuietBeats
<1>9. CASE HeartbeatAction(sess[e]) = "Send"
    <2>1. Goto(e, "recv") /\ sess' = [sess EXCEPT ![e] = Numbered(s)] /\ UNCHANGED should_stop
        BY <1>1, <1>9, Zenon DEF Top
    <2>2. View(s, sess[e].role, sess[e].state, sess[e].outbound, sess[e].inbound)
        BY <1>1, CheckHeartbeatView
    <2>3. sess[e].state = "Active"
        BY <1>7, <1>9 DEF HeartbeatDue
    <2>4. s.sinceRecv = sess[e].sinceRecv
        BY <1>1, <1>7, <1>9, Zenon DEF check_heartbeat, Sessions
    <2> HIDE DEF s
    <2>5. View(Numbered(s), s.role, "Active", sess[e].outbound + 1, sess[e].inbound)
        BY <2>2, <2>3, NumberedView DEF View
    <2>6. Numbered(s).sinceSent = 0 /\ Numbered(s).sinceRecv = sess[e].sinceRecv
        BY <2>2, <2>4, SentClocks DEF View
    <2>7. sess'[e] = Numbered(s) /\ pc'[e] = "recv"
        BY <1>4, <2>1 DEF Goto
    <2> DEFINE t == Numbered(s)
    <2>8. /\ sess'[e] = t /\ t.state = "Active" /\ t.outbound = sess[e].outbound + 1
          /\ t.inbound = sess[e].inbound /\ t.sinceSent = 0 /\ t.sinceRecv = sess[e].sinceRecv
        BY <2>5, <2>6, <2>7 DEF View
    <2> HIDE DEF t
    <2>9. Settled(e)'
        BY <1>1, <1>2, <2>1, <2>7, <2>8 DEF Settled, Stopped, PreSession
    <2>10. 0 <= Beat(e) /\ 0 < Beat(e) /\ sess[e].outbound + 1 # sess[e].outbound
        BY <1>3
    <2> QED BY <1>5, <2>3, <2>8, <2>9, <2>10, Zenon DEF Beats
<1> QED BY <1>7, <1>8, <1>9

\* Receiving, with no failure to report.
LEMMA RecvBeats ==
    ASSUME CalmStep, NEW e \in Engines, RecvNothing(e) \/ RecvData(e)
    PROVE  Beats(e)
<1>1. EngineTypeOK /\ Settled(e) /\ ~server_mode
    BY CalmFacts
<1>2. pc \in [Engines -> Labels] /\ buf \in [Engines -> Seq(Message)] /\ Peer(e) \in Engines
    BY <1>1, Fields DEF EngineTypeOK, TypeOK
<1>3. UNCHANGED <<sess, should_stop, due>>
    BY DEF RecvNothing, RecvData
<1>4. CASE RecvNothing(e)
    <2>1. pc[e] = "recv" /\ pc'[e] = "top" /\ UNCHANGED buf
        BY <1>2, <1>4 DEF RecvNothing, Goto
    <2>2. Settled(e)'
        BY <1>1, <1>3, <2>1 DEF Settled, Stopped, PreSession
    <2> QED BY <1>3, <2>2, QuietBeats
<1>5. CASE RecvData(e)
    <2>1. PICK k \in 0 .. MaxBatch :
              /\ k <= Len(wire[Peer(e)]) /\ k # 0
              /\ buf' = [buf EXCEPT ![e] = @ \o SubSeq(wire[Peer(e)], 1, k)]
        BY <1>1, <1>5 DEF RecvData
    <2>2. pc[e] = "recv" /\ pc'[e] = "batch"
        BY <1>2, <1>5 DEF RecvData, Goto
    <2>3. buf'[e] # <<>>
        <3> DEFINE w == wire[Peer(e)]
        <3>1. w \in Seq(Message) /\ k \in 1 .. Len(w) /\ buf[e] \in Seq(Message)
            BY <1>1, <1>2, <2>1, EngineAssumption DEF EngineTypeOK
        <3>2. buf'[e] = buf[e] \o SubSeq(w, 1, k)
            BY <1>2, <2>1
        <3> HIDE DEF w
        <3>3. SubSeq(w, 1, k) \in Seq(Message) /\ Len(SubSeq(w, 1, k)) = k
            BY <3>1
        <3>4. Len(buf[e] \o SubSeq(w, 1, k)) = Len(buf[e]) + k
            BY <3>1, <3>3, Joined
        <3>5. Len(buf[e]) + k # 0
            BY <3>1
        <3>6. Len(<<>>) = 0
            OBVIOUS
        <3> QED BY <3>2, <3>4, <3>5, <3>6, Zenon
    <2>4. Settled(e)'
        BY <1>1, <1>3, <2>2, <2>3 DEF Settled, Stopped, PreSession
    <2> QED BY <1>3, <2>4, QuietBeats
<1> QED BY <1>4, <1>5

\* The end of an iteration: no session has ended, and a Logout is not sent.
LEMMA EndBeats ==
    ASSUME CalmStep, NEW e \in Engines, EndIteration(e)
    PROVE  Beats(e)
<1>1. /\ EngineTypeOK /\ Settled(e) /\ ~SendMayFail(e) /\ ~should_stop[e]
      /\ logouts[e] = 0 /\ logouts'[e] = 0
    BY CalmFacts
<1>2. pc \in [Engines -> Labels] /\ logouts \in [Engines -> Nat]
    BY <1>1 DEF EngineTypeOK, TypeOK
<1>3. pc[e] = "batch" /\ buf[e] = <<>> /\ pc'[e] = "top" /\ UNCHANGED <<buf, due>>
    BY <1>2 DEF EndIteration, Goto
<1>4. sess[e].state # "Disconnected"
    BY <1>1, <1>3 DEF Settled, PreSession
<1>5. sess[e].state # "LogoutSent"
    BY <1>1, <1>2, <1>4 DEF EndIteration
<1>6. UNCHANGED <<sess, should_stop>>
    BY <1>4, <1>5 DEF EndIteration
<1>7. Settled(e)'
    BY <1>1, <1>3, <1>5, <1>6 DEF Settled, Stopped, PreSession
<1> QED BY <1>3, <1>6, <1>7, QuietBeats

\* run_initiator sends its Logon.
LEMMA StartBeats ==
    ASSUME CalmStep, RunInitiator
    PROVE  Beats("ini")
<1> DEFINE e == "ini"
           s == on_connected(sess[e])
<1>1. e \in Engines
    BY DEF Engines
<1>2. /\ EngineTypeOK /\ sess[e] \in Sessions /\ ~SendMayFail(e) /\ ~should_stop[e]
      /\ Local(e) /\ pc[e] = "start"
    BY <1>1, CalmFacts DEF RunInitiator
<1>3. /\ sess' = [sess EXCEPT ![e] = Numbered(s)] /\ Goto(e, "top")
      /\ UNCHANGED <<buf, should_stop, due>>
    BY <1>2, Zenon DEF RunInitiator
<1>4. buf[e] = <<>> /\ sess[e].state = "Disconnected" /\ sess[e].role = "Initiator"
    BY <1>2 DEF Local, Stopped
<1>5. View(s, "Initiator", "LogonSent", sess[e].outbound, sess[e].inbound)
    BY <1>2, <1>4, StateViews
<1>6. pc \in [Engines -> Labels] /\ sess \in [Engines -> Sessions] /\ sess[e].outbound \in Nat
    BY <1>1, <1>2, AgeTypes DEF EngineTypeOK, TypeOK
<1> HIDE DEF s, e
<1> DEFINE t == Numbered(s)
<1>7. t.state = "LogonSent" /\ t.outbound = sess[e].outbound + 1 /\ t.sinceSent = 0
    BY <1>5, NumberedView, SentClocks DEF View
<1>8. sess'[e] = t /\ pc'[e] = "top"
    BY <1>1, <1>3, <1>6 DEF Goto
<1> HIDE DEF t
<1>9. Settled(e)'
    BY <1>2, <1>3, <1>4, <1>7, <1>8 DEF Settled, Stopped, PreSession
<1>10. sess[e].outbound + 1 # sess[e].outbound
    BY <1>6
<1>11. Beats(e)
    BY <1>3, <1>7, <1>8, <1>9, <1>10, Zenon DEF Beats
<1> QED BY <1>11 DEF e

\* When the clock moves, both engines wait in their loops, in a session, with nothing
\* on its way.
LEMMA TickCalm ==
    ASSUME CalmStep, Tick, NEW e \in Engines
    PROVE  /\ sess[e].state = "Active" /\ e \notin due /\ pc[e] \in {"top", "recv"}
           /\ Incoming(e) = <<>>
<1>1. \A f \in Engines :
          /\ EngineTypeOK /\ Settled(f) /\ Local(f) /\ Protocol(f) /\ ~should_stop[f]
          /\ pc[f] \notin {"done", "failed"} /\ ~server_mode /\ prompt /\ open[Peer(f)]
          /\ sess[f] \in Sessions
    BY CalmFacts, Zenon
<1>2. /\ "ini" \in Engines /\ "acc" \in Engines /\ Peer("ini") = "acc" /\ Peer("acc") = "ini"
      /\ \A f \in Engines : f = "ini" \/ f = "acc"
    BY DEF Engines, Peer
<1>3. \A f \in Engines : /\ pc[f] \in {"top", "recv"} /\ wire[Peer(f)] = <<>> /\ f \notin due
                         /\ buf[f] = <<>>
    <2>1. \A f \in Engines : Waiting(f)
        BY <1>1, <1>2 DEF Tick
    <2>2. pc["acc"] # "start"
        BY <1>1, <1>2 DEF Local
    <2>3. \A f \in Engines : pc[f] \in {"top", "recv"} /\ wire[Peer(f)] = <<>> /\ f \notin due
        BY <1>1, <1>2, <2>1, <2>2 DEF Waiting, Stopped
    <2> QED BY <1>1, <2>3 DEF Settled
<1>4. \A f \in Engines : Incoming(f) = <<>>
    <2>1. <<>> \o <<>> = <<>>
        OBVIOUS
    <2> QED BY <1>3, <2>1 DEF Incoming
<1>5. open["ini"] /\ open["acc"]
    BY <1>1, <1>2, Zenon
<1>6. ~PreSession("acc")
    BY <1>1, <1>2, <1>3, <1>4, <1>5 DEF Protocol, Ungreeted
<1>7. ~PreSession("ini")
    BY <1>1, <1>2, <1>3, <1>4, <1>5, <1>6 DEF Protocol, Ungreeted
<1>8. \A f \in Engines : sess[f].state = "Active"
    <2> SUFFICES ASSUME NEW f \in Engines PROVE sess[f].state = "Active"
        OBVIOUS
    <2>1. ~PreSession(f)
        BY <1>2, <1>6, <1>7
    <2>2. sess[f].state \in SessionState
        BY <1>1 DEF Sessions
    <2> QED BY <1>1, <1>3, <2>1, <2>2 DEF PreSession, Settled, SessionState
<1> QED BY <1>3, <1>4, <1>8

\* A tick of the clock finds both engines in time and leaves them so.
LEMMA TickKeeps ==
    ASSUME CalmStep, Tick
    PROVE  \A f \in Engines : Settled(f)' /\ Timely(f)'
<1> SUFFICES ASSUME NEW e \in Engines PROVE Settled(e)' /\ Timely(e)'
    OBVIOUS
<1>1. \A f \in Engines : /\ sess[f].state = "Active" /\ f \notin due /\ pc[f] \in {"top", "recv"}
                         /\ Incoming(f) = <<>>
    BY TickCalm
<1>2. \A f \in Engines : /\ EngineTypeOK /\ Settled(f) /\ Timely(f) /\ sess[f] \in Sessions
                         /\ prompt /\ pc[f] \notin {"done", "failed"}
    BY CalmFacts, Zenon
<1>3. /\ \A f \in Engines : sess'[f] = Aged(sess[f])
      /\ due' = {f \in Engines : pc[f] \in {"top", "recv"}}
      /\ UNCHANGED <<pc, buf, should_stop, wire>>
    BY <1>2 DEF Tick, Stopped
<1>4. \A s \in Sessions : /\ Aged(s).sinceSent = Older(s, s.sinceSent)
                          /\ Aged(s).sinceRecv = Older(s, s.sinceRecv)
                          /\ Aged(s).state = s.state
    BY Zenon DEF Aged, Sessions
<1>5. Peer(e) \in Engines
    BY Peers
<1>6. Settled(e)'
    BY <1>1, <1>2, <1>3, <1>4 DEF Settled, Stopped, PreSession
<1> DEFINE x == sess[e].sinceSent
           y == sess[e].sinceRecv
           z == sess[Peer(e)].sinceSent
           b == Beat(e)
           c == Beat(Peer(e))
<1>7. x \in Nat /\ y \in Nat /\ z \in Nat /\ b \in Nat /\ c \in Nat /\ Grace \in Nat
    BY <1>2, <1>5, AgeTypes, BeatTypes
<1>8. x < b /\ z < c /\ y <= z
    BY <1>1, <1>2, <1>5 DEF Timely
<1>9. /\ sess'[e].sinceSent = Older(sess[e], x) /\ sess'[e].sinceRecv = Older(sess[e], y)
      /\ sess'[Peer(e)].sinceSent = Older(sess[Peer(e)], z)
      /\ Timeout(sess[e]) = b + Grace /\ Timeout(sess[Peer(e)]) = c + Grace
    BY <1>2, <1>3, <1>4, <1>5, CalmFacts, BeatTypes DEF Timeout
<1> HIDE DEF x, y, z, b, c
<1>10. /\ Older(sess[e], x) <= b /\ Older(sess[e], y) <= c
       /\ Older(sess[e], y) <= Older(sess[Peer(e)], z)
    BY <1>7, <1>8, <1>9 DEF Older
<1>11. e \in due'
    BY <1>1, <1>3
<1> QED BY <1>6, <1>9, <1>10, <1>11, Zenon DEF Timely, b, c

\* What breaks stays broken, and a Logout sent stays sent.
LEMMA CalmBefore ==
    ASSUME EngineInv, [Next]_vars, Calm'
    PROVE  Calm
<1>1. UNCHANGED mode /\ (fault => fault')
    <2>1. CASE Start
        <3>1. UNCHANGED <<fault, mode>>
            BY <2>1 DEF Start, RunInitiator, ServerLogon, ServerRefuse
        <3> QED BY <3>1
    <2>2. CASE \E e \in Engines : LoopStep(e) \/ TransportFailure(e)
        <3>1. PICK e \in Engines : LoopStep(e) \/ TransportFailure(e)
            BY <2>2
        <3>2. CASE Top(e) \/ RecvNothing(e) \/ RecvData(e) \/ EndIteration(e) \/ TransportFailure(e)
            <4>1. UNCHANGED <<fault, mode>>
                BY <3>2 DEF Top, RecvNothing, RecvData, EndIteration, TransportFailure, RecvReset,
                            RecvError
            <4> QED BY <4>1
        <3>3. CASE Dispatch(e)
            <4>1. UNCHANGED <<fault, mode>>
                BY <3>3 DEF Dispatch, DispatchGarbage, DispatchLogon, DispatchHeartbeat,
                            DispatchTestRequest, DispatchLogout, DispatchApp
            <4> QED BY <4>1
        <3> QED BY <3>1, <3>2, <3>3 DEF LoopStep
    <2>3. CASE Tick
        <3>1. UNCHANGED <<fault, mode>>
            BY <2>3 DEF Tick
        <3> QED BY <3>1
    <2>4. CASE Break
        BY <2>4 DEF Break
    <2>5. CASE UNCHANGED vars
        BY <2>5 DEF vars
    <2> QED BY <2>1, <2>2, <2>3, <2>4, <2>5 DEF Next, AllStopped
<1>2. ASSUME NEW e \in Engines PROVE logouts[e] = 0
    <2>1. logouts[e] \in Nat /\ logouts'[e] = 0
        BY FieldTypes DEF EngineInv, Calm
    <2>2. CASE logouts[e] > 0
        <3>1. logouts'[e] = logouts[e]
            <4>1. CASE Next
                BY <2>2, <4>1, NoSecondLogout
            <4>2. CASE UNCHANGED vars
                BY <4>2 DEF vars
            <4> QED BY <4>1, <4>2
        <3> QED BY <2>1, <2>2, <3>1
    <2> QED BY <2>1, <2>2
<1> QED BY <1>1, <1>2 DEF Calm, mode

\* No step of the two engines, the clock and the faults upsets the heartbeats.
LEMMA StepHeartbeatInv == EngineInv /\ HeartbeatInv /\ [Next]_vars => HeartbeatInv'
<1> SUFFICES ASSUME EngineInv, HeartbeatInv, [Next]_vars, Calm'
             PROVE  \A f \in Engines : Settled(f)' /\ Timely(f)'
    BY Zenon DEF HeartbeatInv
<1>1. CalmStep
    BY CalmBefore DEF CalmStep, HeartbeatInv
<1>2. "ini" \in Engines /\ "acc" \in Engines
    BY DEF Engines
<1>3. CASE RunInitiator
    <2>1. TakesTurn("ini")
        BY <1>3, RunInitiatorTurn
    <2> QED BY <1>1, <1>2, <1>3, <2>1, StartBeats, BeatsKeep
<1>4. CASE ServerLogon \/ ServerRefuse
    <2>1. Local("acc") /\ pc["acc"] = "start" /\ ~server_mode
        BY <1>1, <1>2, <1>4, CalmFacts DEF ServerLogon, ServerRefuse
    <2> QED BY <2>1 DEF Local
<1>5. CASE \E e \in Engines : LoopStep(e) \/ TransportFailure(e)
    <2>1. PICK e \in Engines : LoopStep(e) \/ TransportFailure(e)
        BY <1>5
    <2>2. ~TransportFailure(e)
        BY <1>1, CalmFacts DEF TransportFailure, RecvReset, RecvError
    <2>3. TakesTurn(e)
        BY <2>1, LoopTurns
    <2>4. Beats(e)
        BY <1>1, <2>1, <2>2, TopBeats, RecvBeats, DispatchBeats, EndBeats DEF LoopStep
    <2> QED BY <1>1, <2>3, <2>4, BeatsKeep
<1>6. CASE Tick
    BY <1>1, <1>6, TickKeeps
<1>7. CASE Break
    BY <1>7 DEF Break, Calm
<1>8. CASE UNCHANGED vars
    BY <1>1, <1>8, Zenon DEF vars, CalmStep, Settled, Timely, Stopped, PreSession, Incoming
<1> QED BY <1>3, <1>4, <1>5, <1>6, <1>7, <1>8 DEF Next, Start, AllStopped

\* Two engines that keep up with the clock end no session of their own accord, for
\* any two compatible intervals: until something breaks or a Logout is sent neither
\* stops, since each sends within its interval, which is over before the other's
\* interval and the grace are.
THEOREM EngineOrderlyEnd == Spec => []OrderlyEnd
<1>1. Init => HeartbeatInv
    <2> SUFFICES ASSUME Init, Calm, NEW e \in Engines PROVE Settled(e) /\ Timely(e)
        BY DEF HeartbeatInv
    <2>1. /\ sess[e].state = "Disconnected" /\ pc[e] \in {"start", "top"} /\ buf[e] = <<>>
          /\ ~should_stop[e]
        BY DEF Init, Engines, ClientSession, NewSession
    <2> QED BY <2>1 DEF Settled, Timely, Stopped
<1>2. EngineInv /\ HeartbeatInv => OrderlyEnd
    <2> SUFFICES ASSUME EngineInv, HeartbeatInv, CompatibleIntervals, ~server_mode, prompt, ~fault,
                        NEW e \in Engines, Stopped(e), \A f \in Engines : ~(logouts[f] > 0)
                 PROVE  FALSE
        BY DEF OrderlyEnd
    <2>1. \A f \in Engines : logouts[f] = 0
        BY FieldTypes DEF EngineInv
    <2>2. Calm
        BY <2>1 DEF Calm
    <2> QED BY <2>2 DEF HeartbeatInv, Settled
<1> QED BY <1>1, <1>2, EngineInvariant, StepHeartbeatInv, PTL DEF Spec
=============================================================================
