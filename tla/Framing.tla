------------------------------ MODULE Framing -------------------------------
(***************************************************************************)
(* The way of a message from serializer to application: bytes written to a *)
(* stream, received in pieces of any size into recv_buf, cut into messages *)
(* by find_message_boundary, parsed, and read field by field.              *)
(*                                                                         *)
(* What is sent are messages of the serializer and, in between, bytes an   *)
(* application passes to send_raw that are not a message.                  *)
(***************************************************************************)
EXTENDS Codec

CONSTANTS
    Shapes,         \* Shapes[n]: message n, as the calls that build it
    Noise,          \* Noise[n]: bytes that are not a message
    Group,          \* the definition of the repeating group in some messages
    Entries,        \* Entries[n]: the entries of the group in message n, and
                    \* the tag after them
    ChunkSizes,     \* numbers of bytes a recv() returns
    MaxItems        \* bound: sends

ASSUME FramingAssumption ==
    /\ DOMAIN Shapes \intersect DOMAIN Noise = {}
    /\ DOMAIN Entries \subseteq DOMAIN Shapes
    /\ ChunkSizes \subseteq Nat \ {0} /\ MaxItems \in Nat

VARIABLES
    outbox,         \* names of what has been sent
    stream,         \* bytes on their way
    recv_buf,       \* bytes received and not yet cut into messages
    pc,             \* "recv", or "scan" inside the loop over recv_buf
    delivered       \* views of the messages that were dispatched

framing_vars == <<outbox, stream, recv_buf, pc, delivered>>

Items == DOMAIN Shapes \union DOMAIN Noise

\* Bytes on the wire.
Wire == [n \in Items |-> IF n \in DOMAIN Shapes THEN Serialize(Shapes[n]) ELSE Noise[n]]

FramingInit ==
    /\ outbox = <<>>
    /\ stream = <<>>
    /\ recv_buf = <<>>
    /\ pc = "recv"
    /\ delivered = <<>>

\* transport.send of a serialised message, or send_raw of something else.
Send(n) ==
    /\ Len(outbox) < MaxItems
    /\ outbox' = Append(outbox, n)
    /\ stream' = stream \o Wire[n]
    /\ UNCHANGED <<recv_buf, pc, delivered>>

\* recv() returns k bytes, or what there is, which go behind those in recv_buf.
Recv(k) ==
    LET n == Min({k, Len(stream)}) IN
    /\ pc = "recv"
    /\ n > 0
    /\ recv_buf' = recv_buf \o SubSeq(stream, 1, n)
    /\ stream' = SubSeq(stream, n + 1, Len(stream))
    /\ pc' = "scan"
    /\ UNCHANGED <<outbox, delivered>>

\* Cut the first message out of recv_buf, compact the buffer, parse; a message
\* that does not parse is skipped.
TakeMessage ==
    LET boundary == find_message_boundary(recv_buf)
        view == parse(SubSeq(recv_buf, 1, boundary)) IN
    /\ pc = "scan"
    /\ boundary > 0
    /\ recv_buf' = SubSeq(recv_buf, boundary + 1, Len(recv_buf))
    /\ delivered' = IF view.ok THEN Append(delivered, view.fields) ELSE delivered
    /\ UNCHANGED <<outbox, stream, pc>>

\* No complete message is left: back to recv().
ScanDone ==
    /\ pc = "scan"
    /\ find_message_boundary(recv_buf) = 0
    /\ pc' = "recv"
    /\ UNCHANGED <<outbox, stream, recv_buf, delivered>>

FramingNext ==
    \/ \E n \in Items : Send(n)
    \/ \E k \in ChunkSizes : Recv(k)
    \/ TakeMessage
    \/ ScanDone

FramingSpec == FramingInit /\ [][FramingNext]_framing_vars

-----------------------------------------------------------------------------
(* Properties                                                              *)

\* The bytes of the first i items.
SentUpTo(i) == FoldLeft(LAMBDA a, n : a + Len(Wire[n]), 0, SubSeq(outbox, 1, i))
Arrived == SentUpTo(Len(outbox)) - Len(stream)

\* Bytes that end in a trailer end for the receiver too.
Terminated(n) ==
    LET w == Wire[n] IN Len(w) >= 8 /\ ChecksumTag(w, Len(w) - 7) /\ w[Len(w)] = SOH

\* The messages the receiver owes its application: received to the last byte, not
\* too long, and not behind bytes without an end, which swallow what follows.
Owed ==
    LET due(i) ==
            /\ SentUpTo(i) <= Arrived
            /\ outbox[i] \in DOMAIN Shapes
            /\ Len(Wire[outbox[i]]) <= MaxMessageSize
            /\ i = 1 \/ Terminated(outbox[i - 1])
        order == SelectSeq([i \in DOMAIN outbox |-> i], due)
    IN [i \in DOMAIN order |-> Shapes[outbox[order[i]]]]

\* However the stream is cut, and whatever bytes are in between, the messages that
\* are dispatched are the ones that were sent, once each, in order, as soon as
\* their last byte is there; what is not a message costs at most the next one.
Framed ==
    LET owed == Owed IN
    /\ pc = "recv" => Len(delivered) = Len(owed)
    /\ \A i \in DOMAIN delivered :
          /\ i <= Len(owed)
          /\ msg_type(delivered[i]) = Some(owed[i].type)
          /\ msg_seq_num(delivered[i]) = Some(owed[i].seq)

\* The message that was dispatched last, while the loop over recv_buf goes on.
Latest == IF pc = "scan" THEN {Len(delivered)} \ {0} ELSE {}

FieldKept(fields, add) ==
    IF add.kind = "int"
    THEN get_field_i64(fields, add.tag) = Some(add.val)
    ELSE get_field(fields, add.tag) = Some(add.val)

\* The first of the fields of each tag, as far as a view has room for fields.
FirstOnes(adds) ==
    LET room == 1 .. Min({Len(adds), MAX_FIELDS - 3})
    IN {j \in room : \A k \in 1 .. j - 1 : adds[k].tag # adds[j].tag}

\* What a view returns for a tag is what was first added under it, numbers as
\* numbers, as far as the view has room for fields.
FieldsKept ==
    \A i \in Latest :
        LET adds == Owed[i].adds IN
        \A j \in FirstOnes(adds) : FieldKept(delivered[i], adds[j])

\* A repeating group, nested ones included, is read back with the entries it was
\* written with, and the reader ends up behind it.
GroupsKept ==
    \A i \in Latest, n \in DOMAIN Entries :
        Owed[i] = Shapes[n] =>
            LET fields == delivered[i]
                start == Min({j \in DOMAIN fields : fields[j].tag = Group.count_tag})
                group == parse_group(fields, start, Group) IN
            /\ group.entries = Entries[n].entries
            /\ fields[group.next].tag = Entries[n].after
=============================================================================
