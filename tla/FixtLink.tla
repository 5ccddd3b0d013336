------------------------------ MODULE FixtLink ------------------------------
(***************************************************************************)
(* Two services, each with a FixtSession and an AeronTransport on the same *)
(* channel and stream.  The crate leaves the loop that drives a            *)
(* FixtSession to the service; the one here treats a message in the order  *)
(* of FixEngine::run_loop (received, number, type) and calls every method  *)
(* of FixtSession where its comment says it is for.  Connections are cut   *)
(* and dialled again at any moment, and the bus keeps what was not read.   *)
(***************************************************************************)
EXTENDS FixtSession, AeronBus

CONSTANTS
    Configs,        \* configurations: each service's default and listed versions, and
                    \* its max_reconnect_attempts
    Contents,       \* Contents[p]: p's application messages, by their ApplVerID field
                    \* and whether they are too big for the other's recv()
    MaxSends,       \* MaxSends[p], bound: messages p sends
    MaxCuts,        \* bound: connections the services give up of their own accord
    MaxDials,       \* bound: dials that may fail in a row
    MaxTicks        \* bound: ticks of the clock

ASSUME LinkAssumption ==
    /\ None \notin ApplVerID /\ Junk \notin ApplVerID
    /\ MaxSends \in [{"ini", "acc"} -> Nat]
    /\ MaxCuts \in Nat /\ MaxDials \in Nat /\ MaxTicks \in Nat

Services == {"ini", "acc"}

\* Versions in a configuration are ones the code knows; a message may name any.
ASSUME VersionAssumption ==
    /\ Configs \subseteq
          [Services -> [default : ApplVerID, listed : SUBSET ApplVerID, max_attempts : Nat]]
    /\ Contents \in [Services -> SUBSET [ver : ApplVerID \cup {None, Junk}, big : BOOLEAN]]

Other(p) == IF p = "ini" THEN "acc" ELSE "ini"

VARIABLES
    config,         \* config[p]: p's FixtSessionConfig
    fs,             \* each service's FixtSession
    ep,             \* each service's endpoint
    frames,         \* the shared queue
    gap,            \* the last number of the gap a service waits to be filled
    ticks, cuts,
    \* What has happened, for the bounds and the properties:
    sent,           \* messages each service has sent
    taken,          \* frames each service has taken off the bus
    read,           \* the last application message a service accepted
    allowed         \* ages of the messages check_rate_limit let through, newest first;
                    \* a second is as old as they get

vars == <<config, fs, ep, frames, gap, ticks, cuts, sent, taken, read, allowed>>

\* A payload: type, number, version field; the version the sender means by it and
\* how many it has sent before are for the properties.
Payloads ==
    [ type : {"A", "0", "5", "D"}, seq : Nat \ {0}, ver : ApplVerID \cup {None, Junk},
      big : BOOLEAN, meant : ApplVerID \cup {None, Junk}, nth : Nat ]

\* Numbers have their types; and where the configuration sets a limit, any order of
\* cuts, failed dials and connections keeps the attempts to reconnect within it.
TypeOK ==
    /\ fs \in [Services -> FixtSessions]
    /\ ep \in [Services -> Endpoints]
    /\ \A i \in 1 .. Len(frames) :
          frames[i].sender \in Nat /\ frames[i].payload \in Payloads
    /\ gap \in [Services -> Nat]
    /\ \A p \in Services :
          config[p].max_attempts > 0 => fs[p].attempts <= config[p].max_attempts

Init ==
    /\ config \in Configs
    /\ fs = [p \in Services |-> NewFixtSession(IF p = "ini" THEN "Initiator" ELSE "Acceptor")]
    /\ ep = [p \in Services |-> NewEndpoint(IF p = "ini" THEN 1 ELSE 2)]
    /\ frames = <<>>
    /\ gap = [p \in Services |-> 0]
    /\ ticks = 0
    /\ cuts = 0
    /\ sent = [p \in Services |-> 0]
    /\ taken = [p \in Services |-> 0]
    /\ read = [p \in Services |-> [ver |-> None, meant |-> None]]
    /\ allowed = [p \in Services |-> <<>>]

State(p) == fs[p].base.state

\* The session f takes the next number, sends a message and notes the time.
Posted(f) == [f EXCEPT !.base = on_message_sent(next_outbound_seq_num(@))]

Payload(p, f, type, ver, big) ==
    [ type |-> type, seq |-> f.base.outbound, ver |-> ver, big |-> big,
      meant |-> IF ver = None THEN config[p].default ELSE ver, nth |-> sent[p] ]

Post(p, f, queue, type, ver, big) ==
    /\ fs' = [fs EXCEPT ![p] = Posted(f)]
    /\ frames' = Sent(queue, ep[p], Payload(p, f, type, ver, big))
    /\ sent' = [sent EXCEPT ![p] = @ + 1]

\* The service gives the connection up: close() and on_disconnected().
Cut(p, f) ==
    /\ fs' = [fs EXCEPT ![p] = fixt_on_disconnected(f)]
    /\ ep' = [ep EXCEPT ![p] = Closed(@)]

-----------------------------------------------------------------------------
(* Connecting                                                              *)

Listen ==
    /\ State("acc") = "Disconnected"
    /\ fs' = [fs EXCEPT !["acc"] = fixt_on_connected(@)]
    /\ ep' = [ep EXCEPT !["acc"] = Opened(@)]
    /\ UNCHANGED <<config, frames, gap, ticks, cuts, sent, taken, read, allowed>>

Dial ==
    /\ should_reconnect(fs["ini"], config["ini"])
    /\ fs["ini"].attempts < MaxDials
    /\ fs' = [fs EXCEPT !["ini"] = on_reconnect_attempt(@)]
    /\ UNCHANGED <<config, ep, frames, gap, ticks, cuts, sent, taken, read, allowed>>

\* connect() succeeds and the Logon is sent,
Connect ==
    /\ State("ini") = "Connecting"
    /\ sent["ini"] < MaxSends["ini"]
    /\ ep' = [ep EXCEPT !["ini"] = Opened(@)]
    /\ Post("ini", fixt_on_connected(fs["ini"]), frames, "A",
            build_logon_fields(config["ini"]), FALSE)
    /\ UNCHANGED <<config, gap, ticks, cuts, taken, read, allowed>>

\* or the dial fails, which AeronTransport's never does and TCP's may.
ConnectFails ==
    /\ State("ini") = "Connecting"
    /\ fs' = [fs EXCEPT !["ini"] = fixt_on_disconnected(@)]
    /\ UNCHANGED <<config, ep, frames, gap, ticks, cuts, sent, taken, read, allowed>>

Disconnect(p) ==
    /\ ep[p].connected
    /\ cuts < MaxCuts
    /\ cuts' = cuts + 1
    /\ Cut(p, fs[p])
    /\ UNCHANGED <<config, frames, gap, ticks, sent, taken, read, allowed>>

\* Between two connections a service may start its numbers again.
Reset(p) ==
    /\ State(p) = "Disconnected"
    /\ fs[p].base.outbound + fs[p].base.inbound > 2
    /\ fs' = [fs EXCEPT ![p] = reset_sequences(@)]
    /\ UNCHANGED <<config, ep, frames, gap, ticks, cuts, sent, taken, read, allowed>>

-----------------------------------------------------------------------------
(* Receiving                                                               *)

\* recv() hands p a frame with a payload m of one of these types.
Receiving(p, types) ==
    /\ ep[p].connected
    /\ DataReceived(frames, ep[p])
    /\ LET m == NextFrame(frames, ep[p]).payload IN ~m.big /\ m.type \in types
    /\ taken' = [taken EXCEPT ![p] = @ + 1]

Incoming(p) == NextFrame(frames, ep[p]).payload
Rest(p) == Remaining(frames, ep[p])

Received(p) ==
    [fs[p] EXCEPT !.base = validate_inbound_seq(on_message_received(@), Incoming(p).seq)]

\* validate_inbound_seq has returned the gap (expected, received).
NoteGap(p) ==
    gap' = [gap EXCEPT ![p] = IF Incoming(p).seq > fs[p].base.inbound
                              THEN Incoming(p).seq ELSE @]

\* recv() fails: the frame is larger than the buffer and has left the queue.
RecvTooBig(p) ==
    /\ ep[p].connected
    /\ DataReceived(frames, ep[p])
    /\ Incoming(p).big
    /\ taken' = [taken EXCEPT ![p] = @ + 1]
    /\ frames' = Rest(p)
    /\ Cut(p, fs[p])
    /\ UNCHANGED <<config, gap, ticks, cuts, sent, read, allowed>>

\* A Logon with an acceptable version; an acceptor that waits for it answers.
RecvLogon(p) ==
    /\ Receiving(p, {"A"})
    /\ Acceptable(config[p], Incoming(p).ver)
    /\ LET f == on_logon_received(Received(p), config[p], Incoming(p).ver) IN
       \/ /\ State(p) = "Connecting"
          /\ sent[p] < MaxSends[p]
          /\ Post(p, f, Rest(p), "A", build_logon_fields(config[p]), FALSE)
       \/ /\ State(p) # "Connecting"
          /\ fs' = [fs EXCEPT ![p] = f]
          /\ frames' = Rest(p)
          /\ UNCHANGED sent
    /\ NoteGap(p)
    /\ UNCHANGED <<config, ep, ticks, cuts, read, allowed>>

\* Any other Logon: on_logon_received returns an error.
RefuseLogon(p) ==
    /\ Receiving(p, {"A"})
    /\ ~Acceptable(config[p], Incoming(p).ver)
    /\ frames' = Rest(p)
    /\ Cut(p, Received(p))
    /\ UNCHANGED <<config, gap, ticks, cuts, sent, read, allowed>>

RecvHeartbeat(p) ==
    /\ Receiving(p, {"0"})
    /\ fs' = [fs EXCEPT ![p] = Received(p)]
    /\ frames' = Rest(p)
    /\ NoteGap(p)
    /\ UNCHANGED <<config, ep, ticks, cuts, sent, read, allowed>>

\* A Logout is answered, unless it is itself an answer, and ends the connection.
RecvLogout(p) ==
    /\ Receiving(p, {"5"})
    /\ LET f == Received(p) IN
       \/ /\ f.base.state # "LogoutSent"
          /\ sent[p] < MaxSends[p]
          /\ frames' = Sent(Rest(p), ep[p], Payload(p, f, "5", None, FALSE))
          /\ sent' = [sent EXCEPT ![p] = @ + 1]
          /\ Cut(p, [Posted(f) EXCEPT !.base = on_logout_sent(@)])
       \/ /\ f.base.state = "LogoutSent"
          /\ frames' = Rest(p)
          /\ Cut(p, f)
          /\ UNCHANGED sent
    /\ UNCHANGED <<config, gap, ticks, cuts, read, allowed>>

\* An application message is accepted with a version or rejected with an error.
RecvApp(p) ==
    /\ Receiving(p, {"D"})
    /\ fs' = [fs EXCEPT ![p] = Received(p)]
    /\ frames' = Rest(p)
    /\ LET ver == validate_appl_ver(Received(p), config[p], Incoming(p).ver) IN
       read' = [read EXCEPT ![p] = IF ver = None THEN @
                                   ELSE [ver |-> ver, meant |-> Incoming(p).meant]]
    /\ NoteGap(p)
    /\ UNCHANGED <<config, ep, ticks, cuts, sent, allowed>>

\* The missing messages have come, by whatever means the service has.
FillGap(p) ==
    /\ State(p) = "Resending"
    /\ fs' = [fs EXCEPT ![p] = on_gap_filled(@, gap[p] + 1)]
    /\ UNCHANGED <<config, ep, frames, gap, ticks, cuts, sent, taken, read, allowed>>

-----------------------------------------------------------------------------
(* Sending                                                                 *)

\* The application sends a message, if the rate limit lets it.  Of the messages
\* refused in one window only the first is a step: the others only raise the count.
SendApp(p) ==
    /\ State(p) = "Active"
    /\ sent[p] < MaxSends[p]
    /\ LET f == check_rate_limit(fs[p]) IN
       \/ /\ Allowed(f)
          /\ \E c \in Contents[p] : Post(p, f, frames, "D", c.ver, c.big)
          /\ allowed' = [allowed EXCEPT ![p] = <<0>> \o @]
       \/ /\ ~Allowed(f) /\ Allowed(fs[p])
          /\ fs' = [fs EXCEPT ![p] = f]
          /\ UNCHANGED <<frames, sent, allowed>>
    /\ UNCHANGED <<config, ep, gap, ticks, cuts, taken, read>>

Logout(p) ==
    /\ State(p) = "Active"
    /\ sent[p] < MaxSends[p]
    /\ fs' = [fs EXCEPT ![p] = [Posted(fs[p]) EXCEPT !.base = on_logout_sent(@)]]
    /\ frames' = Sent(frames, ep[p], Payload(p, fs[p], "5", None, FALSE))
    /\ sent' = [sent EXCEPT ![p] = @ + 1]
    /\ UNCHANGED <<config, ep, gap, ticks, cuts, taken, read, allowed>>

\* The timer: check_heartbeat and what it asks for.
Timer(p) ==
    /\ LET f == [fs[p] EXCEPT !.base = check_heartbeat(@)]
           action == HeartbeatAction(fs[p].base) IN
       \/ /\ action = "Send"
          /\ sent[p] < MaxSends[p]
          /\ Post(p, f, frames, "0", None, FALSE)
          /\ UNCHANGED ep
       \/ /\ action = "Disconnect"
          /\ Cut(p, f)
          /\ UNCHANGED <<frames, sent>>
    /\ UNCHANGED <<config, gap, ticks, cuts, taken, read, allowed>>

\* An age one tick later.
GrownOlder(age) == IF age < Second THEN age + 1 ELSE age

Tick ==
    /\ ticks < MaxTicks
    /\ ticks' = ticks + 1
    /\ fs' = [p \in Services |-> FixtAged(fs[p])]
    /\ allowed' = [p \in Services |-> [i \in 1 .. Len(allowed[p]) |-> GrownOlder(allowed[p][i])]]
    /\ UNCHANGED <<config, ep, frames, gap, cuts, sent, taken, read>>

-----------------------------------------------------------------------------

Receive(p) ==
    \/ RecvTooBig(p)
    \/ RecvLogon(p)
    \/ RefuseLogon(p)
    \/ RecvHeartbeat(p)
    \/ RecvLogout(p)
    \/ RecvApp(p)

Next ==
    \/ Listen \/ Dial \/ Connect \/ ConnectFails
    \/ \E p \in Services :
          \/ Disconnect(p) \/ Reset(p)
          \/ Receive(p) \/ FillGap(p)
          \/ SendApp(p) \/ Logout(p) \/ Timer(p)
    \/ Tick

Spec == Init /\ [][Next]_vars

-----------------------------------------------------------------------------
(* Properties                                                              *)

OnTheBus(p) == {i \in 1 .. Len(frames) : frames[i].sender = ep[p].id}

\* The bus keeps its promise across cuts and new connections: what a service has
\* sent and the other has not taken is on it, each frame once, in the order sent.
\* No endpoint is handed its own frames, an old one twice, or one out of turn.
FramesOnce ==
    \A p \in Services :
        /\ taken[Other(p)] <= sent[p]
        /\ {frames[i].payload.nth : i \in OnTheBus(p)} = taken[Other(p)] .. sent[p] - 1
        /\ \A i, j \in OnTheBus(p) : i < j => frames[i].payload.nth < frames[j].payload.nth

\* A service that accepts an application message reads it in the version its
\* sender meant: the one in the message or the sender's own default, negotiated
\* on whichever connection; and a version it supports itself.  It never reads one
\* by what was negotiated on a connection that has ended.
VersionsAgree ==
    \A p \in Services :
        /\ read[p].ver = read[p].meant
        /\ read[p].ver = None \/ Acceptable(config[p], read[p].ver)
        /\ fs[p].negotiated # None => ep[p].connected

\* check_rate_limit counts in windows that start with a message, so a burst at the
\* end of one and a burst at the start of the next are let through; but never more
\* than two windows' worth in any one second, across any number of connections.
RateBounded ==
    \A p \in Services : \A i \in 1 .. Len(allowed[p]) :
        i > 2 * MaxRate => allowed[p][i] = Second
=============================================================================
