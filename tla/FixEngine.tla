----------------------------- MODULE FixEngine ------------------------------
(***************************************************************************)
(* engine.rs: an initiator and an acceptor, each running the loop of       *)
(* FixEngine::run_loop over its own Session, joined by one connection.     *)
(* The engines are separate processes and share nothing but the two byte   *)
(* streams, so one step is one stretch of the loop between two transport   *)
(* calls: start up, drive the timer, receive, dispatch one message, close  *)
(* the iteration.                                                          *)
(*                                                                         *)
(* The application's callbacks (FixApp) are the program's user: each may   *)
(* send messages numbered with next_seq_num(), call request_stop(), or     *)
(* return an error.                                                        *)
(***************************************************************************)
EXTENDS Session, Sequences

CONSTANTS
    Modes,          \* the combinations of server_mode and prompt
    MaxBatch,       \* messages one recv() can return (1 for Aeron frames)
    Fragments,      \* TRUE iff a recv() of FixServer's TCP may end inside a message
    Faults,         \* TRUE iff transport calls and callbacks may fail
    AppTypes,       \* AppTypes[server_mode][e]: types e's application sends
    MaxApp,         \* bound: messages each application sends at pace p (prompt)
    MaxSeq          \* bound: at pace p (prompt) the clock stops when a session has used
                    \* MaxSeq[p] numbers, unless one of two prompt engines has stopped

ASSUME EngineAssumption ==
    /\ Modes \subseteq [server : BOOLEAN, prompt : BOOLEAN]
    /\ Fragments \in BOOLEAN /\ Faults \in BOOLEAN
    /\ MaxBatch \in Nat \ {0}
    /\ MaxApp \in [BOOLEAN -> Nat] /\ MaxSeq \in [BOOLEAN -> Nat]

\* MsgType 35: Logon, Heartbeat, TestRequest, Logout; "D" stands for every type
\* run_loop passes to the application and "X" for a message parse() rejects.
MsgType == {"A", "0", "1", "5", "D", "X"}

Engines == {"ini", "acc"}

\* An application ends the session with request_stop(), not with a Logout of its own.
ASSUME AppAssumption ==
    AppTypes \in [BOOLEAN -> [Engines -> SUBSET (MsgType \ {"5"})]]

\* What it sends can be parsed, except what reaches FixServer's engine.
ASSUME ParsableAssumption ==
    \A m \in BOOLEAN, e \in Engines : "X" \in AppTypes[m][e] => m /\ e = "ini"

Peer(e) == IF e = "ini" THEN "acc" ELSE "ini"

VARIABLES
    server_mode,    \* TRUE: the acceptor is started by FixServer, which reads the
                    \* Logon itself; FALSE: run_acceptor() reads it from the loop
    prompt,         \* TRUE: the loops are fast compared with a clock tick
    sess,           \* each engine's Session
    pc,             \* where each engine is in its loop
    buf,            \* complete messages in recv_buf, oldest first
    partial,        \* recv_buf ends with part of the next message
    should_stop,    \* run_loop's flag
    open,           \* the engine's end of the connection is open
    wire,           \* wire[e]: what e has sent and its peer has not received
    left,           \* messages the application may still send
    logouts,        \* Logout messages the engine has put on the wire
    due,            \* engines whose timer has not been driven since the last tick
    fault           \* something is wrong: from now on any call may fail

mode == <<server_mode, prompt>>
vars == <<mode, sess, pc, buf, partial, should_stop, open, wire, left, logouts, due, fault>>

Message == [type : MsgType, seq : Nat]
Labels == {"start", "top", "recv", "batch", "done", "failed"}
Stopped(e) == pc[e] \in {"done", "failed"}

TypeOK ==
    /\ [server |-> server_mode, prompt |-> prompt] \in Modes
    /\ sess \in [Engines -> Sessions]
    /\ pc \in [Engines -> Labels]
    /\ \A e \in Engines : \A i \in 1 .. Len(buf[e]) : buf[e][i] \in Message
    /\ \A e \in Engines : \A i \in 1 .. Len(wire[e]) : wire[e][i] \in Message
    /\ partial \in [Engines -> BOOLEAN]
    /\ should_stop \in [Engines -> BOOLEAN]
    /\ open \in [Engines -> BOOLEAN]
    /\ left \in [Engines -> 0 .. MaxApp[prompt]]
    /\ logouts \in [Engines -> Nat]
    /\ due \subseteq Engines
    /\ fault \in BOOLEAN

\* The session FixClient::connect_and_run hands to the engine.
ClientSession == NewSession("Initiator")

Init ==
    /\ \E m \in Modes : server_mode = m.server /\ prompt = m.prompt
    /\ sess = [ini |-> ClientSession, acc |-> NewSession("Acceptor")]
    /\ pc = [e \in Engines |-> IF e = "ini" \/ server_mode THEN "start" ELSE "top"]
    /\ buf = [e \in Engines |-> <<>>]
    /\ partial = [e \in Engines |-> FALSE]
    /\ should_stop = [e \in Engines |-> FALSE]
    /\ open = [e \in Engines |-> TRUE]
    /\ wire = [e \in Engines |-> <<>>]
    /\ left = [e \in Engines |-> MaxApp[prompt]]
    /\ logouts = [e \in Engines |-> 0]
    /\ due = {}
    /\ fault = FALSE

-----------------------------------------------------------------------------
(* Pieces of the steps                                                     *)

Goto(e, label) == pc' = [pc EXCEPT ![e] = label]

Msg(type, s) == [type |-> type, seq |-> s.outbound]

\* What a peer that is gone does not read is dropped.
Put(e, ms) == wire' = [wire EXCEPT ![e] = IF open[Peer(e)] THEN @ \o ms ELSE @]

SendMayFail(e) == fault \/ ~open[Peer(e)]

\* send_logon, send_heartbeat and send_logout take the number first, then send.
Numbered(s) == on_message_sent(next_outbound_seq_num(s))

\* run_loop returns an error: the caller drops the engine and its transport.
Fail(e, s) ==
    /\ sess' = [sess EXCEPT ![e] = s]
    /\ Goto(e, "failed")
    /\ open' = [open EXCEPT ![e] = FALSE]
    /\ UNCHANGED <<wire, left>>

\* run_loop breaks out of its loop: transport.close() and return Ok.
Close(e) ==
    /\ Goto(e, "done")
    /\ open' = [open EXCEPT ![e] = FALSE]

\* Mutated form: the number is consumed and the number sent is the next one.
AppMessagesLate(s, n, type) == [i \in 1 .. n |-> [type |-> type, seq |-> s.outbound + i]]

\* The n messages a callback sends with ctx.send_raw, each with next_seq_num().
AppMessages(s, n, type) == [i \in 1 .. n |-> [type |-> type, seq |-> s.outbound + i - 1]]

\* EngineContext::send_raw, n times.
send_raw(s, n) ==
    IF n = 0 THEN s ELSE on_message_sent([s EXCEPT !.outbound = @ + n])

\* EngineContext::request_stop
request_stop(s) == on_logout_sent(s)

\* The engine in session s has put `before` on the wire and calls on_logon or
\* on_message: the application sends, may ask to stop, may return an error.
Callback(e, s, before) ==
    \E n \in 0 .. left[e], type \in AppTypes[server_mode][e], stop \in BOOLEAN :
        LET sent == send_raw(s, n) IN
        /\ sess' = [sess EXCEPT ![e] = IF stop THEN request_stop(sent) ELSE sent]
        /\ left' = [left EXCEPT ![e] = @ - n]
        /\ Put(e, before \o AppMessages(s, n, type))
        /\ \/ UNCHANGED <<pc, open>>
           \/ fault /\ Goto(e, "failed") /\ open' = [open EXCEPT ![e] = FALSE]

-----------------------------------------------------------------------------
(* Start                                                                   *)

\* run_initiator: on_connected, send_logon, enter the loop.
RunInitiator ==
    /\ pc["ini"] = "start"
    /\ LET s == on_connected(sess["ini"]) IN
       \/ /\ sess' = [sess EXCEPT !["ini"] = Numbered(s)]
          /\ Put("ini", <<Msg("A", s)>>)
          /\ Goto("ini", "top")
          /\ UNCHANGED <<open, left>>
       \/ /\ SendMayFail("ini")
          /\ Fail("ini", next_outbound_seq_num(s))
    /\ UNCHANGED <<buf, partial, should_stop, logouts, due, fault, mode>>

\* Mutated form: the Logon is answered without on_logon().
ServerLogonNotActive ==
    /\ pc["acc"] = "start"
    /\ wire["ini"] # <<>>
    /\ LET s == on_connected(sess["acc"]) IN
       /\ sess' = [sess EXCEPT !["acc"] = Numbered(s)]
       /\ wire' = [wire EXCEPT !["ini"] = Tail(@), !["acc"] = @ \o <<Msg("A", s)>>]
    /\ Goto("acc", "top")
    /\ UNCHANGED <<open, left, buf, partial, should_stop, logouts, due, fault, mode>>

\* FixServer's handle_connection reads up to the first message, which must be a
\* Logon; what it read after that message is dropped with its buffer.  Then
\* handle_inbound_logon: on_connected, on_logon, send_logon.
ServerLogon ==
    /\ pc["acc"] = "start"
    /\ wire["ini"] # <<>>
    /\ Head(wire["ini"]).type = "A"
    /\ LET s == on_logon(on_connected(sess["acc"])) IN
       \E k \in 1 .. Len(wire["ini"]) :
           \/ /\ sess' = [sess EXCEPT !["acc"] = Numbered(s)]
              /\ wire' = [wire EXCEPT !["ini"] = SubSeq(@, k + 1, Len(@)),
                                      !["acc"] = IF open["ini"] THEN @ \o <<Msg("A", s)>> ELSE @]
              /\ Goto("acc", "top")
              /\ UNCHANGED <<open, left>>
           \/ /\ SendMayFail("acc")
              /\ Fail("acc", next_outbound_seq_num(s))
    /\ UNCHANGED <<buf, partial, should_stop, logouts, due, fault, mode>>

\* The connection is refused before the engine exists: end of stream, a read
\* error or the 10 second read timeout.
ServerRefuse ==
    /\ pc["acc"] = "start"
    /\ \/ fault
       \/ ~open["ini"] /\ wire["ini"] = <<>>
    /\ Fail("acc", sess["acc"])
    /\ UNCHANGED <<buf, partial, should_stop, logouts, due, fault, mode>>

-----------------------------------------------------------------------------
(* One iteration of run_loop                                               *)

\* The head of the loop: leave if should_stop, else drive the heartbeat timer.
Top(e) ==
    /\ pc[e] = "top"
    /\ LET s == check_heartbeat(sess[e])
           action == HeartbeatAction(sess[e]) IN
       \/ /\ should_stop[e]
          /\ Close(e)
          /\ UNCHANGED <<sess, wire, left, should_stop>>
       \/ /\ ~should_stop[e] /\ action = "None"
          /\ Goto(e, "recv")
          /\ UNCHANGED <<sess, wire, left, open, should_stop>>
       \/ /\ ~should_stop[e] /\ action = "Send"
          /\ \/ /\ sess' = [sess EXCEPT ![e] = Numbered(s)]
                /\ Put(e, <<Msg("0", s)>>)
                /\ Goto(e, "recv")
                /\ UNCHANGED <<open, left>>
             \/ /\ SendMayFail(e)
                /\ Fail(e, next_outbound_seq_num(s))
          /\ UNCHANGED should_stop
       \/ /\ ~should_stop[e] /\ action = "Disconnect"
          /\ should_stop' = [should_stop EXCEPT ![e] = TRUE]
          /\ Close(e)
          /\ UNCHANGED <<sess, wire, left>>
    /\ due' = due \ {e}
    /\ UNCHANGED <<buf, partial, logouts, fault, mode>>

\* Mutated form: an empty recv() is retried without driving the timer.
RecvNothingRetries(e) ==
    /\ pc[e] = "recv"
    /\ UNCHANGED <<sess, pc, buf, partial, should_stop, open, wire, left, logouts, due, fault, mode>>

\* recv() returns Ok(0): a timeout, or the end of the stream.
RecvNothing(e) ==
    /\ pc[e] = "recv"
    /\ prompt => wire[Peer(e)] = <<>>
    /\ Goto(e, "top")
    /\ UNCHANGED <<sess, buf, partial, should_stop, open, wire, left, logouts, due, fault, mode>>

\* recv() returns bytes, of which the first k messages are now complete.
RecvData(e) ==
    /\ pc[e] = "recv"
    /\ \E k \in 0 .. MaxBatch :
          /\ k <= Len(wire[Peer(e)])
          /\ k = 0 => Fragments /\ server_mode /\ ~partial[e] /\ wire[Peer(e)] # <<>>
          /\ buf' = [buf EXCEPT ![e] = @ \o SubSeq(wire[Peer(e)], 1, k)]
          /\ wire' = [wire EXCEPT ![Peer(e)] = SubSeq(@, k + 1, Len(@))]
          /\ partial' = [partial EXCEPT ![e] = (k = 0)]
    /\ Goto(e, "batch")
    /\ UNCHANGED <<sess, should_stop, open, left, logouts, due, fault, mode>>

\* recv() fails with ConnectionReset, BrokenPipe or UnexpectedEof.
RecvReset(e) ==
    /\ pc[e] = "recv"
    /\ fault \/ ~open[Peer(e)]
    /\ sess' = [sess EXCEPT ![e] = on_disconnected(@)]
    /\ should_stop' = [should_stop EXCEPT ![e] = TRUE]
    /\ Close(e)
    /\ UNCHANGED <<buf, partial, wire, left, logouts, due, fault, mode>>

\* recv() fails in another way: run_loop returns the error.
RecvError(e) ==
    /\ pc[e] = "recv"
    /\ fault
    /\ Fail(e, sess[e])
    /\ UNCHANGED <<buf, partial, should_stop, logouts, due, fault, mode>>

-----------------------------------------------------------------------------
(* Dispatch of the first message in recv_buf                               *)

Dispatching(e, types) ==
    /\ pc[e] = "batch"
    /\ buf[e] # <<>>
    /\ Head(buf[e]).type \in types
    /\ buf' = [buf EXCEPT ![e] = Tail(@)]

\* What run_loop does with every message that parses, whatever its type.  A message
\* without MsgSeqNum would not be validated, and one without MsgType not dispatched:
\* everything the two engines write has both.
Received(e) == validate_inbound_seq(on_message_received(sess[e]), Head(buf[e]).seq)

\* parse() fails: the message is skipped.
DispatchGarbage(e) ==
    /\ Dispatching(e, {"X"})
    /\ UNCHANGED <<sess, pc, partial, should_stop, open, wire, left, logouts, due, fault, mode>>

\* Logon: an acceptor that is not in session answers it, an initiator that waits
\* for it becomes Active, and any other session ignores it.
DispatchLogon(e) ==
    /\ Dispatching(e, {"A"})
    /\ LET s == Received(e)
           c == on_logon(IF s.state = "Disconnected" THEN on_connected(s) ELSE s) IN
       \/ /\ s.role = "Acceptor" /\ s.state \in {"Disconnected", "Connecting"}
          /\ \/ Callback(e, Numbered(c), <<Msg("A", c)>>)
             \/ SendMayFail(e) /\ Fail(e, next_outbound_seq_num(c))
       \/ /\ s.state = "LogonSent"
          /\ Callback(e, on_logon(s), <<>>)
       \/ /\ s.state # "LogonSent"
          /\ ~(s.role = "Acceptor" /\ s.state \in {"Disconnected", "Connecting"})
          /\ sess' = [sess EXCEPT ![e] = s]
          /\ UNCHANGED <<pc, wire, left, open>>
    /\ UNCHANGED <<partial, should_stop, logouts, due, fault, mode>>

DispatchHeartbeat(e) ==
    /\ Dispatching(e, {"0"})
    /\ sess' = [sess EXCEPT ![e] = Received(e)]
    /\ UNCHANGED <<pc, partial, should_stop, open, wire, left, logouts, due, fault, mode>>

\* TestRequest: answered with a Heartbeat in any state.
DispatchTestRequest(e) ==
    /\ Dispatching(e, {"1"})
    /\ LET s == Received(e) IN
       \/ /\ sess' = [sess EXCEPT ![e] = Numbered(s)]
          /\ Put(e, <<Msg("0", s)>>)
          /\ UNCHANGED <<pc, left, open>>
       \/ SendMayFail(e) /\ Fail(e, next_outbound_seq_num(s))
    /\ UNCHANGED <<partial, should_stop, logouts, due, fault, mode>>

\* Mutated form: the Logout is answered but the loop goes on.
DispatchLogoutGoesOn(e) ==
    /\ Dispatching(e, {"5"})
    /\ LET s == Received(e) IN
       /\ sess' = [sess EXCEPT ![e] = Numbered(s)]
       /\ Put(e, <<Msg("5", s)>>)
       /\ logouts' = [logouts EXCEPT ![e] = @ + 1]
    /\ UNCHANGED <<pc, partial, should_stop, open, left, due, fault, mode>>

\* Logout: app.on_logout(), answer with a Logout unless one is under way,
\* disconnect and stop at the end of the iteration.
DispatchLogout(e) ==
    /\ Dispatching(e, {"5"})
    /\ LET s == Received(e) IN
       \/ /\ s.state # "LogoutSent"
          /\ sess' = [sess EXCEPT ![e] = on_disconnected(on_logout_sent(Numbered(s)))]
          /\ Put(e, <<Msg("5", s)>>)
          /\ logouts' = [logouts EXCEPT ![e] = @ + 1]
          /\ should_stop' = [should_stop EXCEPT ![e] = TRUE]
          /\ UNCHANGED <<pc, left, open>>
       \/ /\ s.state = "LogoutSent"
          /\ sess' = [sess EXCEPT ![e] = on_disconnected(s)]
          /\ should_stop' = [should_stop EXCEPT ![e] = TRUE]
          /\ UNCHANGED <<pc, wire, left, open, logouts>>
       \/ /\ fault                              \* app.on_logout()? fails
          /\ Fail(e, s)
          /\ UNCHANGED <<should_stop, logouts>>
       \/ /\ s.state # "LogoutSent"             \* send_logout()? fails
          /\ SendMayFail(e)
          /\ Fail(e, next_outbound_seq_num(s))
          /\ UNCHANGED <<should_stop, logouts>>
    /\ UNCHANGED <<partial, due, fault, mode>>

\* Every other type goes to app.on_message.
DispatchApp(e) ==
    /\ Dispatching(e, {"D"})
    /\ Callback(e, Received(e), <<>>)
    /\ UNCHANGED <<partial, should_stop, logouts, due, fault, mode>>

Dispatch(e) ==
    \/ DispatchGarbage(e)
    \/ DispatchLogon(e)
    \/ DispatchHeartbeat(e)
    \/ DispatchTestRequest(e)
    \/ DispatchLogout(e)
    \/ DispatchApp(e)

\* Mutated form: the Logout is sent and the session kept.
EndIterationStaysOpen(e) ==
    /\ pc[e] = "batch"
    /\ buf[e] = <<>>
    /\ LET s == sess[e] IN
       \/ /\ s.state = "LogoutSent"
          /\ sess' = [sess EXCEPT ![e] = next_outbound_seq_num(s)]
          /\ Put(e, <<Msg("5", s)>>)
          /\ logouts' = [logouts EXCEPT ![e] = @ + 1]
       \/ /\ s.state # "LogoutSent"
          /\ UNCHANGED <<sess, wire, logouts>>
    /\ Goto(e, "top")
    /\ UNCHANGED <<buf, partial, should_stop, open, left, due, fault, mode>>

\* Mutated form: the Logout is sent, the session disconnected, the flag not set.
EndIterationNoStop(e) ==
    /\ pc[e] = "batch"
    /\ buf[e] = <<>>
    /\ LET s == sess[e] IN
       \/ /\ s.state = "LogoutSent"
          /\ sess' = [sess EXCEPT ![e] = on_disconnected(next_outbound_seq_num(s))]
          /\ Put(e, <<Msg("5", s)>>)
          /\ logouts' = [logouts EXCEPT ![e] = @ + 1]
       \/ /\ s.state # "LogoutSent"
          /\ UNCHANGED <<sess, wire, logouts>>
    /\ Goto(e, "top")
    /\ UNCHANGED <<buf, partial, should_stop, open, left, due, fault, mode>>

\* The end of an iteration that received bytes: stop if the session has ended;
\* if the application called request_stop(), send the Logout, whether or not the
\* send succeeds, and stop.
EndIteration(e) ==
    /\ pc[e] = "batch"
    /\ buf[e] = <<>>
    /\ LET s == sess[e] IN
       \/ /\ s.state = "Disconnected"
          /\ should_stop' = [should_stop EXCEPT ![e] = TRUE]
          /\ UNCHANGED <<sess, wire, logouts>>
       \/ /\ s.state = "LogoutSent"
          /\ sess' = [sess EXCEPT ![e] = on_disconnected(next_outbound_seq_num(s))]
          /\ should_stop' = [should_stop EXCEPT ![e] = TRUE]
          /\ \/ /\ Put(e, <<Msg("5", s)>>)
                /\ logouts' = [logouts EXCEPT ![e] = @ + 1]
             \/ /\ SendMayFail(e)
                /\ UNCHANGED <<wire, logouts>>
       \/ /\ s.state \notin {"Disconnected", "LogoutSent"}
          /\ UNCHANGED <<sess, wire, logouts, should_stop>>
    /\ Goto(e, "top")
    /\ UNCHANGED <<buf, partial, open, left, due, fault, mode>>

-----------------------------------------------------------------------------
(* Time and scheduling                                                     *)

\* The engine has nothing to do before the clock moves.
Waiting(e) ==
    \/ Stopped(e)
    \/ pc[e] \in {"top", "recv"} /\ wire[Peer(e)] = <<>> /\ e \notin due
    \/ pc[e] = "start" /\ e = "acc" /\ wire["ini"] = <<>>

Tick ==
    /\ \E e \in Engines : ~Stopped(e)
    /\ prompt => \A e \in Engines : Waiting(e)
    /\ (prompt /\ \E e \in Engines : Stopped(e))
          \/ \A e \in Engines : ~Stopped(e) => sess[e].outbound <= MaxSeq[prompt]
    /\ sess' = [e \in Engines |-> IF Stopped(e) THEN sess[e] ELSE Aged(sess[e])]
    /\ due' = IF prompt THEN {e \in Engines : pc[e] \in {"top", "recv"}} ELSE {}
    /\ UNCHANGED <<pc, buf, partial, should_stop, open, wire, left, logouts, fault, mode>>

\* The connection, a socket option or an application breaks.
Break ==
    /\ Faults /\ ~fault
    /\ fault' = TRUE
    /\ UNCHANGED <<sess, pc, buf, partial, should_stop, open, wire, left, logouts, due, mode>>

\* A step the loop takes by itself.
LoopStep(e) ==
    \/ Top(e)
    \/ RecvNothing(e)
    \/ RecvData(e)
    \/ Dispatch(e)
    \/ EndIteration(e)

\* A failure the transport reports.
TransportFailure(e) == RecvReset(e) \/ RecvError(e)

Start == RunInitiator \/ ServerLogon \/ ServerRefuse

\* Both run() calls have returned.
AllStopped ==
    /\ \A e \in Engines : Stopped(e)
    /\ UNCHANGED vars

Next ==
    \/ Start
    \/ \E e \in Engines : LoopStep(e) \/ TransportFailure(e)
    \/ Tick
    \/ Break
    \/ AllStopped

Spec == Init /\ [][Next]_vars

\* Each process keeps running, the clock keeps moving, and data in flight is read
\* in the end.  Nothing obliges the transport to report a failure, not even when
\* the peer is gone.
FairSpec ==
    /\ Spec
    /\ WF_vars(RunInitiator)
    /\ WF_vars(ServerLogon)
    /\ \A e \in Engines : WF_vars(LoopStep(e)) /\ SF_vars(RecvData(e))
    /\ WF_vars(Tick)

-----------------------------------------------------------------------------
(* Properties                                                              *)

\* Everything on its way to e: received and not dispatched, then in flight.
Incoming(e) == buf[e] \o wire[Peer(e)]

Numbering(e) ==
    open[e] /\ open[Peer(e)] =>
        LET q == Incoming(e) IN
        /\ \A i \in 1 .. Len(q) : q[i].seq = sess[e].inbound + i - 1
        /\ ~should_stop[Peer(e)] => sess[Peer(e)].outbound = sess[e].inbound + Len(q)

\* While both ends are open every message on its way to an engine carries the
\* number the engine will expect when it gets there, and the sender's next number
\* is the one after them: no path through send_raw, the engine's own sends and
\* validate_inbound_seq ever makes or sees a gap.  The engine FixServer runs is the
\* exception, since it never counts the Logon that was read for it; what it sends
\* to its client is in step all the same.
InStep == \A e \in Engines : (server_mode /\ e = "acc") \/ Numbering(e)

\* An application message reaches on_message only in a session: after a Logon was
\* dispatched and before the Logout or the disconnection that ends the session.
CallbackInSession ==
    \A e \in Engines :
        pc[e] = "batch" /\ buf[e] # <<>> /\ Head(buf[e]).type = "D" =>
            sess[e].state \in {"Active", "Resending", "LogoutSent"}

\* A Logout is the last message an engine sends: nothing it does later, the rest
\* of the batch, the timer or a callback, puts anything behind it.
LogoutIsLast ==
    [][\A e \in Engines : logouts[e] > 0 =>
          logouts'[e] = logouts[e] /\ Len(wire'[e]) <= Len(wire[e])]_vars

\* Each engine is configured to wait longer for a message than the other waits
\* before it sends one.  The engines do not agree on an interval, and nobody checks.
CompatibleIntervals ==
    \A r, q \in SessionRole : HeartbeatInterval[r] < HeartbeatInterval[q] + Grace

\* Between two engines whose loops keep up with the clock and whose intervals are
\* compatible: until something breaks no engine ends a session before a Logout was
\* sent: heartbeats keep an idle session up and nothing else ends it.
OrderlyEnd ==
    CompatibleIntervals /\ ~server_mode /\ prompt /\ (\E e \in Engines : Stopped(e)) =>
        fault \/ \E e \in Engines : logouts[e] > 0

\* Between two engines: once an application has called request_stop() both stop.
StopPropagates ==
    prompt /\ ~server_mode /\ (\E e \in Engines : sess[e].state = "LogoutSent")
        ~> \A f \in Engines : Stopped(f)

\* A client that calls request_stop() stops the engine FixServer runs for it too,
\* unless the connection breaks.
ClientStopPropagates ==
    prompt /\ sess["ini"].state = "LogoutSent" ~> fault \/ \A f \in Engines : Stopped(f)

\* Between two engines: one that is in session notices a peer that is gone, even
\* in silence.
DeadPeerNoticed ==
    prompt /\ ~server_mode /\ (\E e \in Engines : Stopped(Peer(e)) /\ sess[e].state = "Active")
        ~> \A f \in Engines : Stopped(f)

\* A session that has detected a gap leaves Resending.
GapFilled ==
    \A e \in Engines : sess[e].state = "Resending" ~> sess[e].state # "Resending"
=============================================================================
