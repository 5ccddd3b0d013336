----------------------------- MODULE FixServer ------------------------------
(***************************************************************************)
(* server.rs: one thread per TCP connection runs handle_connection.  The   *)
(* threads share the Acceptor behind a mutex; between registering with it  *)
(* and releasing, a thread runs the FIX engine without the lock.           *)
(*                                                                         *)
(* The engine is the one of FixEngine; here only how its run ends counts.  *)
(*                                                                         *)
(* The Acceptor is public too: an application that hosts its connections   *)
(* itself calls all of its methods, in any order, with current and with    *)
(* stale ids.                                                              *)
(***************************************************************************)
EXTENDS Acceptor

CONSTANT Handlers   \* connection threads

VARIABLES
    hosted,         \* TRUE: FixServer's threads call the Acceptor; FALSE: an application
    pc,             \* where each thread is in handle_connection
    comp,           \* logon_comp_id
    conn_id,        \* the id accept_connection returned
    abandoned       \* ids whose thread ended without release_connection

hvars == <<pc, comp, conn_id, abandoned>>
vars == <<connections, next_conn_id, total_accepted, total_rejected, hosted, hvars>>

NoId == -1

Init ==
    /\ AcceptorInit
    /\ hosted \in BOOLEAN
    /\ pc = [h \in Handlers |-> "none"]
    /\ comp = [h \in Handlers |-> NoComp]
    /\ conn_id = [h \in Handlers |-> NoId]
    /\ abandoned = {}

Goto(h, label) == pc' = [pc EXCEPT ![h] = label]

\* The thread ends; its locals are gone.
End(h) ==
    /\ Goto(h, "none")
    /\ comp' = [comp EXCEPT ![h] = NoComp]
    /\ conn_id' = [conn_id EXCEPT ![h] = NoId]

\* The thread ends without release_connection.
Abandon(h) ==
    /\ abandoned' = abandoned \union {conn_id[h]}
    /\ End(h)
    /\ UNCHANGED <<avars, hosted>>

\* listener.incoming() yields a stream: a thread is spawned for it.
Incoming(h) ==
    /\ hosted
    /\ pc[h] = "none"
    /\ Goto(h, "reading")
    /\ UNCHANGED <<avars, comp, conn_id, abandoned, hosted>>

\* The bounds on the two counters leave room for one more Logon.
WithinBounds ==
    LET waiting == Cardinality({h \in Handlers : pc[h] = "register"}) IN
    /\ next_conn_id + waiting < MaxConnId
    /\ total_rejected + waiting < MaxRejected

\* The first message is a Logon from this CompID.
ReadLogon(h) ==
    /\ pc[h] = "reading"
    /\ WithinBounds
    /\ \E c \in CompIds : comp' = [comp EXCEPT ![h] = c]
    /\ Goto(h, "register")
    /\ UNCHANGED <<avars, conn_id, abandoned, hosted>>

\* End of stream, read timeout, parse error, not a Logon, no SenderCompID.
ReadFails(h) ==
    /\ pc[h] = "reading"
    /\ End(h)
    /\ UNCHANGED <<avars, abandoned, hosted>>

\* acceptor.lock().accept_connection(...) succeeds.
Register(h) ==
    /\ pc[h] = "register"
    /\ accept_connection(comp[h])
    /\ conn_id' = [conn_id EXCEPT ![h] = next_conn_id]
    /\ Goto(h, "starting")
    /\ UNCHANGED <<comp, abandoned, hosted>>

\* It is refused: the connection is dropped.
Refused(h) ==
    /\ pc[h] = "register"
    /\ reject_connection(comp[h])
    /\ End(h)
    /\ UNCHANGED <<abandoned, hosted>>

\* from_stream, then handle_inbound_logon.
StartEngine(h) ==
    /\ pc[h] = "starting"
    /\ Goto(h, "running")
    /\ UNCHANGED <<avars, comp, conn_id, abandoned, hosted>>

\* One of the two fails: `?` leaves handle_connection at once.
StartFails(h) ==
    /\ pc[h] = "starting"
    /\ Abandon(h)

\* run_acceptor returns, with Ok or with an error.
EngineReturns(h) ==
    /\ pc[h] = "running"
    /\ Goto(h, "release")
    /\ UNCHANGED <<avars, comp, conn_id, abandoned, hosted>>

\* The application's code panics: the thread unwinds out of handle_connection.
AppPanics(h) ==
    /\ pc[h] = "running"
    /\ Abandon(h)

\* Mutated form: the slot is released only when the engine returned Ok.
ReleaseSkipped(h) ==
    /\ pc[h] = "release"
    /\ End(h)
    /\ UNCHANGED <<avars, abandoned, hosted>>

\* acceptor.lock().release_connection(conn_id).
Release(h) ==
    /\ pc[h] = "release"
    /\ release_connection(conn_id[h])
    /\ End(h)
    /\ UNCHANGED <<abandoned, hosted>>

HandlerStep(h) ==
    \/ ReadLogon(h)
    \/ ReadFails(h)
    \/ Register(h)
    \/ Refused(h)
    \/ StartEngine(h)
    \/ StartFails(h)
    \/ EngineReturns(h)
    \/ AppPanics(h)
    \/ Release(h)

\* An application of its own calls a method of the Acceptor, or time passes.
Embedded ==
    /\ ~hosted
    /\ AcceptorNext
    /\ UNCHANGED <<hosted, hvars>>

Next ==
    \/ \E h \in Handlers : Incoming(h) \/ HandlerStep(h)
    \/ Embedded

Spec == Init /\ [][Next]_vars

\* A thread that is past registration and whose engine has returned goes on.
FairSpec ==
    /\ Spec
    /\ \A h \in Handlers : WF_vars(StartEngine(h) \/ StartFails(h)) /\ WF_vars(Release(h))

-----------------------------------------------------------------------------
(* Properties                                                              *)

Registered(h) == pc[h] \in {"starting", "running", "release"}

\* A registered thread has a slot of its own in the pool, under the id and the
\* CompID it registered with, until it releases it.
HandlerHasSlot ==
    \A h \in Handlers : Registered(h) =>
        \E i \in Slots :
            /\ connections[i].id = conn_id[h]
            /\ connections[i].state = "InUse"
            /\ connections[i].comp = comp[h]

\* The slots in use whose thread has ended.
Leaked ==
    {i \in Slots :
        Active(connections[i]) /\ ~\E h \in Handlers : Registered(h) /\ conn_id[h] = connections[i].id}

\* What server.rs:123-124 says happens once handle_connection has returned, with Ok or
\* with an error: "Release connection from pool".  A slot in use has a thread that is
\* still to release it.
EveryConnectionReleased == hosted => Leaked = {}

\* A client whose engine has returned can log on again: its slot comes free.
SlotComesBack ==
    \A h \in Handlers : \A c \in CompIds :
        pc[h] = "release" /\ comp[h] = c ~> find_by_comp_id(c) = {}
=============================================================================
