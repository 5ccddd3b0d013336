------------------------------ MODULE AeronBus ------------------------------
(***************************************************************************)
(* transport_aeron.rs: the in-process bus behind AeronTransport.  All the  *)
(* endpoints that open one channel and stream share one queue of frames,   *)
(* which BUS_REGISTRY keeps for the life of the process: closing an        *)
(* endpoint leaves it as it is.  Every method holds the queue's mutex      *)
(* throughout, so an operator is one atomic call.                          *)
(***************************************************************************)
EXTENDS Integers, Sequences

\* An endpoint: its number and whether the last call was an open.  The queue it
\* is joined to, once it has been opened, stays joined when it is closed.
Endpoints == [id : Nat, joined : BOOLEAN, connected : BOOLEAN]

\* AeronTransport::new, with the next number of NEXT_ENDPOINT_ID.
NewEndpoint(id) == [id |-> id, joined |-> FALSE, connected |-> FALSE]

\* connect() and bind() are the same.
Opened(ep) == [ep EXCEPT !.joined = TRUE, !.connected = TRUE]

Closed(ep) == [ep EXCEPT !.connected = FALSE]

\* send(): one frame per call, at the end of the queue.
Sent(frames, ep, payload) == Append(frames, [sender |-> ep.id, payload |-> payload])

\* Mutated form: an endpoint is handed its own frames as well.
PositionsOfAny(frames, ep) == 1 .. Len(frames)

\* The positions of the frames recv() and poll() look at: those of other senders.
Positions(frames, ep) == {i \in 1 .. Len(frames) : frames[i].sender # ep.id}

\* poll(): something to receive.
DataReceived(frames, ep) == ep.joined /\ Positions(frames, ep) # {}

\* recv(): the oldest of them,
NextFrame(frames, ep) ==
    frames[CHOOSE i \in Positions(frames, ep) :
               \A j \in Positions(frames, ep) : i <= j]

\* which leaves the queue even if the caller's buffer is too small for it.
Remaining(frames, ep) ==
    LET i == CHOOSE i \in Positions(frames, ep) :
                 \A j \in Positions(frames, ep) : i <= j
    IN SubSeq(frames, 1, i - 1) \o SubSeq(frames, i + 1, Len(frames))
=============================================================================
