---------------------------- MODULE FixtSession -----------------------------
(***************************************************************************)
(* fixt.rs: FixtSession wraps a Session and negotiates the application     *)
(* version; every other method goes to the base session.  The record also  *)
(* holds the fields of session.rs for reconnection and rate limiting,      *)
(* which FixEngine never touches and module Session leaves out.            *)
(***************************************************************************)
EXTENDS Session

CONSTANTS
    ApplVerID,          \* the versions from_bytes knows
    MaxRate,            \* config.max_msg_rate
    Second              \* one second, the window of check_rate_limit, in ticks

ASSUME FixtAssumption ==
    /\ MaxRate \in Nat \ {0}
    /\ Second \in Nat \ {0}

\* What the version field of a message or negotiated_version can hold besides.
None == "absent"
Junk == "junk"

FixtSessions ==
    [ base       : Sessions,
      negotiated : ApplVerID \cup {None},
      attempts   : Nat,                 \* reconnect_attempts
      count      : Nat,                 \* msg_count_window
      sinceStart : 0 .. Second ]        \* window_start

\* FixtSession::new and the rest of Session::new
NewFixtSession(role) ==
    [ base |-> NewSession(role), negotiated |-> None, attempts |-> 0,
      count |-> 0, sinceStart |-> 0 ]

\* FixtSession::new adds the default to the versions the configuration lists.
supported_versions(config) == config.listed \cup {config.default}

FixtAged(f) ==
    [f EXCEPT !.base = Aged(@),
              !.sinceStart = IF @ < Second THEN @ + 1 ELSE @]

-----------------------------------------------------------------------------
(* Version negotiation                                                     *)

Acceptable(config, ver) == ver \in supported_versions(config)

\* Mutated form: the session's own default is what counts.
on_logon_received_own(f, config, ver) ==
    [f EXCEPT !.negotiated = config.default, !.base = on_logon(@)]

\* on_logon_received with an acceptable DefaultApplVerID; any other field, or
\* none, is an error and changes nothing.
on_logon_received(f, config, ver) ==
    [f EXCEPT !.negotiated = ver, !.base = on_logon(@)]

\* build_logon_fields: the DefaultApplVerID of an outbound Logon.
build_logon_fields(config) == config.default

\* validate_appl_ver of an application message with this ApplVerID field: the
\* version, or None for an error.  Session-level messages always pass.
validate_appl_ver(f, config, ver) ==
    IF ver = None THEN f.negotiated
    ELSE IF Acceptable(config, ver) THEN ver
    ELSE None

fixt_on_disconnected(f) == [f EXCEPT !.base = on_disconnected(@), !.negotiated = None]

-----------------------------------------------------------------------------
(* Reconnection, gaps and rate limit                                       *)

\* on_connected also forgets the failed attempts, if it does anything.
fixt_on_connected(f) ==
    IF f.base.state \in {"Disconnected", "Connecting"}
    THEN [f EXCEPT !.base = on_connected(@), !.attempts = 0]
    ELSE f

\* Mutated form: one attempt too many.
should_reconnect_once_more(f, config) ==
    /\ f.base.state = "Disconnected"
    /\ f.base.role = "Initiator"
    /\ ~(config.max_attempts > 0 /\ f.attempts > config.max_attempts)

\* max_reconnect_attempts = 0, the default, is no limit.
should_reconnect(f, config) ==
    /\ f.base.state = "Disconnected"
    /\ f.base.role = "Initiator"
    /\ ~(config.max_attempts > 0 /\ f.attempts >= config.max_attempts)

on_reconnect_attempt(f) ==
    [f EXCEPT !.attempts = @ + 1, !.base.state = "Connecting"]

reset_sequences(f) == [f EXCEPT !.base.outbound = 1, !.base.inbound = 1]

on_gap_filled(f, new_seq) ==
    [f EXCEPT !.base.inbound = new_seq, !.base.state = "Active"]

\* Mutated form: a new window leaves the start of the old one.
check_rate_limit_stuck(f) ==
    IF f.sinceStart >= Second THEN [f EXCEPT !.count = 1]
    ELSE [f EXCEPT !.count = @ + 1]

\* check_rate_limit counts the message first; what is over the limit counts too.
check_rate_limit(f) ==
    IF f.sinceStart >= Second THEN [f EXCEPT !.count = 1, !.sinceStart = 0]
    ELSE [f EXCEPT !.count = @ + 1]

Allowed(f) == f.count <= MaxRate
=============================================================================
