------------------------------ MODULE Session -------------------------------
(***************************************************************************)
(* session.rs: the state one FIX session keeps and the methods that change *)
(* it.  A session is a record and a method is an operator from the session *)
(* before the call to the session after it; FixEngine calls them.          *)
(*                                                                         *)
(* Clock readings are kept as ages: sinceSent stands for                   *)
(* now - last_sent_time and so on, in ticks.  Setting a time to            *)
(* Instant::now() sets its age to 0, and the clock's tick ages them all.   *)
(* Ages stop growing at Timeout, above which check_heartbeat distinguishes *)
(* nothing.                                                                *)
(*                                                                         *)
(* Each end of a connection has the heartbeat interval of its own          *)
(* SessionConfig: a Logon carries the sender's in tag 108, which nothing   *)
(* in the code reads.                                                      *)
(***************************************************************************)
EXTENDS Integers

CONSTANTS
    HeartbeatInterval,      \* HeartbeatInterval[role]: config.heartbeat_interval of the
                            \* session in that role, in ticks
    Grace                   \* the 5 seconds check_heartbeat adds, in ticks

SessionState ==
    {"Disconnected", "Connecting", "LogonSent", "Active", "Resending", "LogoutSent"}

SessionRole == {"Initiator", "Acceptor"}

ASSUME SessionAssumption ==
    /\ HeartbeatInterval \in [SessionRole -> Nat \ {0}]
    /\ Grace \in Nat \ {0}

Interval(s) == HeartbeatInterval[s.role]

\* What check_heartbeat waits for an inbound message.
Timeout(s) == Interval(s) + Grace

Sessions ==
    [ role      : SessionRole,
      state     : SessionState,
      outbound  : Nat \ {0},        \* outbound_seq_num: the next number to send
      inbound   : Nat \ {0},        \* inbound_seq_num: the next number expected
      sinceSent : Nat,              \* last_sent_time
      sinceRecv : Nat,              \* last_received_time
      pending   : BOOLEAN ]         \* test_request_pending

\* Session::new
NewSession(role) ==
    [ role |-> role, state |-> "Disconnected", outbound |-> 1, inbound |-> 1,
      sinceSent |-> 0, sinceRecv |-> 0, pending |-> FALSE ]

Older(s, age) == IF age < Timeout(s) THEN age + 1 ELSE age

\* A tick of the clock.
Aged(s) == [s EXCEPT !.sinceSent = Older(s, @), !.sinceRecv = Older(s, @)]

-----------------------------------------------------------------------------

next_outbound_seq_num(s) == [s EXCEPT !.outbound = @ + 1]

on_connected(s) ==
    IF s.state \in {"Disconnected", "Connecting"}
    THEN [s EXCEPT !.state = IF s.role = "Initiator" THEN "LogonSent" ELSE "Connecting",
                   !.sinceRecv = 0, !.sinceSent = 0]
    ELSE s

on_logon(s) == [s EXCEPT !.state = "Active", !.sinceRecv = 0, !.pending = FALSE]

\* Equal: consume it.  Above: a gap, wait for a resend.  Below: ignore it.
validate_inbound_seq(s, seq) ==
    IF seq = s.inbound THEN [s EXCEPT !.inbound = @ + 1, !.sinceRecv = 0]
    ELSE IF seq > s.inbound THEN [s EXCEPT !.state = "Resending"]
    ELSE s

on_logout_sent(s) == [s EXCEPT !.state = "LogoutSent"]

on_disconnected(s) == [s EXCEPT !.state = "Disconnected", !.pending = FALSE]

on_message_sent(s) == [s EXCEPT !.sinceSent = 0]

on_message_received(s) == [s EXCEPT !.sinceRecv = 0, !.pending = FALSE]

\* check_heartbeat, as the action it returns and the session it leaves.  The time of
\* the probe, test_request_sent_time, is written and never read, and not kept here.

\* Mutated form: the heartbeat waits for the grace period as well.
HeartbeatDueLate(s) == s.state = "Active" /\ s.sinceSent >= Timeout(s)

HeartbeatDue(s) == s.state = "Active" /\ s.sinceSent >= Interval(s)

Silent(s) ==
    /\ s.state = "Active"
    /\ ~HeartbeatDue(s)
    /\ s.sinceRecv >= Timeout(s)

HeartbeatAction(s) ==
    IF HeartbeatDue(s) \/ (Silent(s) /\ ~s.pending) THEN "Send"
    ELSE IF Silent(s) THEN "Disconnect"
    ELSE "None"

check_heartbeat(s) ==
    IF HeartbeatDue(s) THEN [s EXCEPT !.sinceSent = 0]
    ELSE IF Silent(s) /\ ~s.pending THEN [s EXCEPT !.pending = TRUE]
    ELSE s
=============================================================================
