---------------------------- MODULE MCFixEngine -----------------------------
(* Values of HeartbeatInterval, Modes and the bounds for the instances of  *)
(* FixEngine that TLC checks; the configurations give the other constants. *)
EXTENDS FixEngine

Direct(p) == [server |-> FALSE, prompt |-> p]
Behind == [server |-> TRUE, prompt |-> TRUE]

\* Two configurations with intervals of their own, compatible with a grace of 2.
Intervals == [r \in SessionRole |-> IF r = "Initiator" THEN 2 ELSE 3]

\* Two engines whose loops keep up with the clock, two that may not, and a client
\* of FixServer.
AllModes == {Direct(TRUE), Direct(FALSE), Behind}

BehindServer == {Behind}

Orders == [m \in BOOLEAN |-> [e \in Engines |-> {"D"}]]

\* Orders and the like and TestRequests of the application's own; FixServer's
\* client also sends a second Logon and an unparsable message.
ClientSendsAnything ==
    [m \in BOOLEAN |->
        IF m THEN [ini |-> {"D", "1", "A", "X"}, acc |-> {"D", "1"}]
             ELSE [e \in Engines |-> {"D", "1"}]]

TwoIfPrompt == [p \in BOOLEAN |-> IF p THEN 2 ELSE 1]

OneEach == [p \in BOOLEAN |-> 1]

\* The clock of loops that do not keep up runs ahead of the messages.
Numbers == [p \in BOOLEAN |-> IF p THEN 4 ELSE 2]

MoreNumbers == [p \in BOOLEAN |-> 6]
=============================================================================
