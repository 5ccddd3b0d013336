---------------------------- MODULE SessionProofs ---------------------------
(***************************************************************************)
(* What each method of session.rs does to the fields that the engine and   *)
(* FixtSession rely on, for any heartbeat intervals and grace.             *)
(***************************************************************************)
EXTENDS Session, TLAPS

\* What a step can change of a session t that the properties look at.
View(t, role, state, out, in) ==
    /\ t \in Sessions
    /\ t.role = role
    /\ t.state = state
    /\ t.outbound = out
    /\ t.inbound = in

\* The age of a clock reading of this moment is 0; a tick makes it older, up to the
\* session's timeout.
LEMMA Ages ==
    ASSUME NEW s
    PROVE  0 \in Nat /\ \A a \in Nat : Older(s, a) \in Nat
BY DEF Older

\* A new session of session.rs is disconnected and counts from 1.
LEMMA NewSessionView ==
    ASSUME NEW role \in SessionRole
    PROVE  View(NewSession(role), role, "Disconnected", 1, 1)
<1>1. /\ 1 \in Nat \ {0}
      /\ "Disconnected" \in SessionState
    BY DEF SessionState
<1> QED BY <1>1, Ages, Zenon DEF View, NewSession, Sessions

\* The clock leaves a session's numbers and its state alone.
LEMMA AgedView ==
    ASSUME NEW s \in Sessions
    PROVE  View(Aged(s), s.role, s.state, s.outbound, s.inbound)
BY Ages, Zenon DEF View, Aged, Sessions

\* on_message_sent and on_message_received note the time.
LEMMA TimeViews ==
    ASSUME NEW s \in Sessions
    PROVE  /\ View(on_message_sent(s), s.role, s.state, s.outbound, s.inbound)
           /\ View(on_message_received(s), s.role, s.state, s.outbound, s.inbound)
BY Ages, Zenon DEF View, on_message_sent, on_message_received, Sessions

\* next_outbound_seq_num uses one number.
LEMMA NextOutboundView ==
    ASSUME NEW s \in Sessions
    PROVE  View(next_outbound_seq_num(s), s.role, s.state, s.outbound + 1, s.inbound)
<1>1. s.outbound + 1 \in Nat \ {0}
    BY DEF Sessions
<1> QED BY <1>1, Zenon DEF View, next_outbound_seq_num, Sessions

\* on_connected, on_logon, on_logout_sent and on_disconnected only set the state.
LEMMA StateViews ==
    ASSUME NEW s \in Sessions
    PROVE  /\ View(on_connected(s), s.role,
                   IF s.state \in {"Disconnected", "Connecting"}
                   THEN IF s.role = "Initiator" THEN "LogonSent" ELSE "Connecting"
                   ELSE s.state, s.outbound, s.inbound)
           /\ View(on_logon(s), s.role, "Active", s.outbound, s.inbound)
           /\ View(on_logout_sent(s), s.role, "LogoutSent", s.outbound, s.inbound)
           /\ View(on_disconnected(s), s.role, "Disconnected", s.outbound, s.inbound)
<1>1. \A state \in SessionState :
          LET t == [s EXCEPT !.state = state, !.sinceRecv = 0, !.sinceSent = 0] IN
          View(t, s.role, state, s.outbound, s.inbound)
    BY Ages, Zenon DEF View, Sessions
<1>2. {"LogonSent", "Connecting", "Active", "LogoutSent", "Disconnected"} \subseteq SessionState
    BY DEF SessionState
<1>3. View(on_connected(s), s.role,
           IF s.state \in {"Disconnected", "Connecting"}
           THEN IF s.role = "Initiator" THEN "LogonSent" ELSE "Connecting"
           ELSE s.state, s.outbound, s.inbound)
    <2>1. CASE s.state \notin {"Disconnected", "Connecting"}
        BY <2>1, Zenon DEF on_connected, View
    <2>2. CASE s.state \in {"Disconnected", "Connecting"}
        <3> DEFINE state == IF s.role = "Initiator" THEN "LogonSent" ELSE "Connecting"
        <3>1. state \in SessionState
            BY <1>2
        <3> HIDE DEF state
        <3>2. View([s EXCEPT !.state = state, !.sinceRecv = 0, !.sinceSent = 0],
                   s.role, state, s.outbound, s.inbound)
            BY <3>1, <1>1
        <3> QED BY <3>2, <2>2 DEF on_connected, state
    <2> QED BY <2>1, <2>2
<1>4. View(on_logon(s), s.role, "Active", s.outbound, s.inbound)
    BY <1>2, Ages, Zenon DEF on_logon, View, Sessions
<1>5. View(on_logout_sent(s), s.role, "LogoutSent", s.outbound, s.inbound)
    BY <1>2, Zenon DEF on_logout_sent, View, Sessions
<1>6. View(on_disconnected(s), s.role, "Disconnected", s.outbound, s.inbound)
    BY <1>2, Zenon DEF on_disconnected, View, Sessions
<1> QED BY <1>3, <1>4, <1>5, <1>6

\* The heartbeat timer uses no number of its own.
LEMMA CheckHeartbeatView ==
    ASSUME NEW s \in Sessions
    PROVE  View(check_heartbeat(s), s.role, s.state, s.outbound, s.inbound)
<1>1. View([s EXCEPT !.sinceSent = 0], s.role, s.state, s.outbound, s.inbound)
    BY Ages, Zenon DEF View, Sessions
<1>2. View([s EXCEPT !.pending = TRUE], s.role, s.state, s.outbound, s.inbound)
    BY Ages, Zenon DEF View, Sessions
<1>3. View(s, s.role, s.state, s.outbound, s.inbound)
    BY DEF View
<1> QED BY <1>1, <1>2, <1>3, Zenon DEF check_heartbeat

\* A message with the expected number moves the inbound counter by one, one from
\* beyond a gap sets Resending, one from the past changes neither.
LEMMA ValidateView ==
    ASSUME NEW s \in Sessions, NEW seq \in Nat
    PROVE  LET t == validate_inbound_seq(on_message_received(s), seq) IN
           View(t, s.role, IF seq > s.inbound THEN "Resending" ELSE s.state, s.outbound,
                IF seq = s.inbound THEN s.inbound + 1 ELSE s.inbound)
<1> DEFINE r == on_message_received(s)
<1>1. View(r, s.role, s.state, s.outbound, s.inbound)
    BY TimeViews
<1> HIDE DEF r
<1>2. /\ s.inbound \in Nat \ {0} /\ s.inbound + 1 \in Nat \ {0}
      /\ "Resending" \in SessionState
    BY DEF Sessions, SessionState
<1>3. CASE seq = s.inbound
    <2>1. View([r EXCEPT !.inbound = @ + 1, !.sinceRecv = 0],
               s.role, s.state, s.outbound, s.inbound + 1)
        BY <1>1, <1>2, Ages, Zenon DEF View, Sessions
    <2>2. validate_inbound_seq(r, seq) = [r EXCEPT !.inbound = @ + 1, !.sinceRecv = 0]
        BY <1>1, <1>3 DEF View, validate_inbound_seq
    <2> QED BY <2>1, <2>2, <1>2, <1>3 DEF r
<1>4. CASE seq > s.inbound
    <2>1. View([r EXCEPT !.state = "Resending"], s.role, "Resending", s.outbound, s.inbound)
        BY <1>1, <1>2, Ages, Zenon DEF View, Sessions
    <2>2. validate_inbound_seq(r, seq) = [r EXCEPT !.state = "Resending"]
        BY <1>1, <1>2, <1>4 DEF View, validate_inbound_seq
    <2> QED BY <2>1, <2>2, <1>2, <1>4 DEF r
<1>5. CASE seq < s.inbound
    <2>1. validate_inbound_seq(r, seq) = r
        BY <1>1, <1>2, <1>5 DEF View, validate_inbound_seq
    <2> QED BY <2>1, <1>1, <1>2, <1>5 DEF r
<1> QED BY <1>2, <1>3, <1>4, <1>5
=============================================================================
