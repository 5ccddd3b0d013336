--------------------------- MODULE MCTransports ----------------------------
(***************************************************************************)
(* Constants for TLC.  For Aeron: two configurations and messages with and *)
(* without a version.  For kernel TCP: messages with numbers around the    *)
(* powers of ten, values that look like a trailer, more fields and more    *)
(* bytes than there is room for, nested groups; and three ways of not      *)
(* being a message.                                                        *)
(***************************************************************************)
EXTENDS Transports

-----------------------------------------------------------------------------
(* Aeron                                                                    *)

Intervals == [r \in SessionRole |-> 1]

\* Two services with different defaults and one attempt to reconnect; an acceptor that
\* does not support the initiator's default, and no limit on the attempts.
DefaultsDiffer ==
    [ ini |-> [default |-> "v1", listed |-> {"v2", "v3"}, max_attempts |-> 1],
      acc |-> [default |-> "v2", listed |-> {"v1"}, max_attempts |-> 0] ]

LogonRefused ==
    [ ini |-> [default |-> "v1", listed |-> {"v2", "v3"}, max_attempts |-> 0],
      acc |-> [default |-> "v3", listed |-> {}, max_attempts |-> 0] ]

\* The initiator names a version in some messages, one the acceptor supports and
\* one it does not; the acceptor sends messages recv() has no room for.
Kinds ==
    [ ini |-> {[ver |-> v, big |-> FALSE] : v \in {None, "v2", "v3"}},
      acc |-> {[ver |-> None, big |-> b] : b \in BOOLEAN} ]

Sends == [ini |-> 2, acc |-> 4]

TwoConfigs == {DefaultsDiffer, LogonRefused}

-----------------------------------------------------------------------------
(* Kernel TCP                                                               *)

x == <<120>>
LooksLikeTrailer == <<49, 48, 61, 49, 50, 51>>        \* "10=123"
Long == [i \in 1 .. 85 |-> 120]

\* Two entries, the first with a nested group of two, and a third that the count
\* does not include.
MDEntries ==
    <<Num(268, 2),
      Num(269, 0), Num(555, 2), Num(600, 7), Num(624, 1), Num(600, 8), Num(270, 10),
      Num(269, 1), Num(270, 100), Num(269, 2)>>

F(tag, n) == [tag |-> tag, value |-> write_u64(n)]

Legs == GroupDef(555, 600, {600, 624, 687}, {})
MDEntriesWithLegs == GroupDef(268, 269, {269, 270, 271, 279}, {Legs})

Book ==
    <<[fields |-> <<F(269, 0), F(270, 10)>>,
       nested |-> << <<[fields |-> <<F(600, 7), F(624, 1)>>, nested |-> <<>>],
                       [fields |-> <<F(600, 8)>>, nested |-> <<>>]>> >>],
      [fields |-> <<F(269, 1), F(270, 100)>>, nested |-> <<>>]>>

MessageShapes ==
    [ tags      |-> Message(<<49>>, 100, <<Str(112, LooksLikeTrailer), Str(100, x), Str(1000, <<>>)>>),
      order     |-> build_new_order_single(1009, x, x, x, -205, x, x),
      report    |-> build_execution_report(12030, x, x, x, 1000, 999, x),
      book      |-> Message(<<87>>, 101, MDEntries \o <<Str(58, x)>>),
      long      |-> build_test_request(7, Long) ]

ButLast(w, n) == SubSeq(w, 1, Len(w) - n)

\* A Logon without its end; a wrong checksum; a wrong length with the checksum that
\* belongs to it.
RawBytes ==
    LET other == Serialize(build_logout(6))
        good == Serialize(build_heartbeat(5))
        shorter == [SubSeq(good, 1, find_checksum_tag_start(good)) EXCEPT ![12] = @ - 1] IN
    [ cut      |-> ButLast(Serialize(build_logon(3, 10)), 9),
      badsum   |-> [other EXCEPT ![Len(other) - 1] = Digit((@ - 47) % 10)],
      badlen   |-> shorter \o Add(Str(CHECKSUM, format(compute(shorter)))) ]

BookEntries == [book |-> [entries |-> Book, after |-> 269]]
=============================================================================
