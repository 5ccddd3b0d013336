------------------------------- MODULE Codec --------------------------------
(***************************************************************************)
(* serializer.rs, checksum.rs, parser.rs, message.rs and groups.rs, as     *)
(* operators on sequences of bytes.  A byte is its number.                 *)
(*                                                                         *)
(* u8 arithmetic wraps, as in a release build (a debug build panics        *)
(* instead).  The numbers of the model are far below 2^63 and do not.      *)
(***************************************************************************)
EXTENDS Integers, Sequences, SequencesExt, FiniteSetsExt

CONSTANTS
    MAX_FIELDS,         \* fields a MessageView has room for
    MaxMessageSize      \* FixParser::max_message_size

ASSUME CodecAssumption == MAX_FIELDS \in Nat /\ MaxMessageSize \in Nat

SOH == 1
EQUALS == 61
Digit(d) == 48 + d
Minus == 45

BEGIN_STRING == 8
BODY_LENGTH == 9
MSG_TYPE == 35
CHECKSUM == 10
MSG_SEQ_NUM == 34

-----------------------------------------------------------------------------
(* checksum.rs                                                             *)

\* compute: four accumulators, one sum.
compute(data) ==
    LET sum[i \in 0 .. Len(data)] == IF i = 0 THEN 0 ELSE sum[i - 1] + data[i]
    IN sum[Len(data)] % 256

format(checksum) ==
    <<Digit(checksum \div 100), Digit((checksum \div 10) % 10), Digit(checksum % 10)>>

\* Where a field with tag 10 starts: an SOH, then "10=".
ChecksumTag(data, p) ==
    /\ data[p] = SOH
    /\ data[p + 1] = Digit(1) /\ data[p + 2] = Digit(0) /\ data[p + 3] = EQUALS

\* find_checksum_tag_start: the number of bytes before the last one, 0 if none.
find_checksum_tag_start(data) ==
    LET starts == {p \in 1 .. Len(data) - 4 : ChecksumTag(data, p)} IN
    IF starts = {} THEN 0 ELSE Max(starts)

\* (b - b'0') summed up in base 10.
FromDigits(bytes) == FoldLeft(LAMBDA n, b : n * 10 + ((b - 48) % 256), 0, bytes)

\* validate: the sum up to the trailer against the three characters in it, as a u8.
validate(msg) ==
    LET start == find_checksum_tag_start(msg) IN
    /\ start > 0
    /\ start + 6 <= Len(msg)
    /\ compute(SubSeq(msg, 1, start)) = FromDigits(SubSeq(msg, start + 4, start + 6)) % 256

-----------------------------------------------------------------------------
(* serializer.rs                                                           *)

DigitPair(n) == <<Digit(n \div 10), Digit(n % 10)>>

\* write_u64, and write_u32 for tags: two digits at a time from the right.
RECURSIVE write_u64(_)
write_u64(val) ==
    IF val >= 100 THEN write_u64(val \div 100) \o DigitPair(val % 100)
    ELSE IF val >= 10 THEN DigitPair(val)
    ELSE <<Digit(val)>>

write_i64(val) == IF val < 0 THEN <<Minus>> \o write_u64(-val) ELSE write_u64(val)

\* A call of add_str or of add_int / add_u64.
Str(tag, bytes) == [tag |-> tag, kind |-> "str", val |-> bytes]
Num(tag, number) == [tag |-> tag, kind |-> "int", val |-> number]

\* write_tag_value and its siblings.
Add(a) ==
    write_u64(a.tag) \o <<EQUALS>> \o
    (IF a.kind = "int" THEN write_i64(a.val) ELSE a.val) \o <<SOH>>

\* The length of the body in the six digits begin() reserved, the low ones if it
\* has more.
BodyLength(body) == [i \in 1 .. 6 |-> Digit((Len(body) \div 10 ^ (6 - i)) % 10)]

\* begin, the calls of add_*, finalize.
Serialize(m) ==
    LET body == Add(Str(MSG_TYPE, m.type)) \o FlattenSeq([i \in DOMAIN m.adds |-> Add(m.adds[i])])
        checked == Add(Str(BEGIN_STRING, m.version)) \o
                   Add(Str(BODY_LENGTH, BodyLength(body))) \o body
    IN checked \o Add(Str(CHECKSUM, format(compute(checked))))

\* What every build_* function adds first; comp ids and times are one byte.
Header(seq) ==
    <<Str(49, <<83>>), Str(56, <<84>>), Num(MSG_SEQ_NUM, seq), Str(52, <<116>>)>>

Message(type, seq, more) ==
    [version |-> <<70>>, type |-> type, seq |-> seq, adds |-> Header(seq) \o more]

build_heartbeat(seq) == Message(<<48>>, seq, <<>>)
build_logon(seq, interval) == Message(<<65>>, seq, <<Num(98, 0), Num(108, interval)>>)
build_logout(seq) == Message(<<53>>, seq, <<>>)
build_test_request(seq, id) == Message(<<49>>, seq, <<Str(112, id)>>)

build_new_order_single(seq, id, symbol, side, qty, ord_type, price) ==
    Message(<<68>>, seq,
        <<Str(11, id), Str(55, symbol), Str(54, side), Num(38, qty), Str(40, ord_type),
          Str(44, price), Str(60, <<116>>), Str(21, <<49>>)>>)

build_execution_report(seq, id, symbol, side, qty, last, px) ==
    Message(<<56>>, seq,
        <<Str(37, id), Str(17, id), Str(11, id), Str(150, <<70>>), Str(39, <<49>>),
          Str(55, symbol), Str(54, side), Num(38, qty), Num(32, last), Str(31, px),
          Num(151, qty - last), Num(14, last), Str(6, px), Str(60, <<116>>)>>)

-----------------------------------------------------------------------------
(* parser.rs                                                               *)

\* Mutated form: every tag that starts with 10 ends a message.
find_message_boundary_open(buffer) ==
    LET trailers == {p \in 1 .. Len(buffer) - 7 :
            buffer[p] = SOH /\ buffer[p + 1] = Digit(1) /\ buffer[p + 2] = Digit(0)} IN
    IF trailers = {} THEN 0 ELSE Min(trailers) + 7

\* find_message_boundary: the length of the first message, 0 for None.
find_message_boundary(buffer) ==
    LET trailers == {p \in 1 .. Len(buffer) - 7 :
            ChecksumTag(buffer, p) /\ buffer[p + 7] = SOH} IN
    IF trailers = {} THEN 0 ELSE Min(trailers) + 7

IsDigit(b) == b \in 48 .. 57

\* The field that ends at SOH `end` and starts at `from`: digits, '=', a value.  A
\* field parse() rejects has tag -1.  An empty tag is 0, which parse() takes.
Field(buffer, from, end) ==
    LET equals == {e \in from .. end : buffer[e] = EQUALS} IN
    IF equals = {} \/ \E p \in from .. Min(equals) - 1 : ~IsDigit(buffer[p])
    THEN [tag |-> -1, value |-> <<>>]
    ELSE [tag |-> FromDigits(SubSeq(buffer, from, Min(equals) - 1)),
          value |-> SubSeq(buffer, Min(equals) + 1, end - 1)]

NoMessage == [ok |-> FALSE]

\* The places of a byte, in order.
Where(buffer, byte) ==
    SelectSeq([p \in DOMAIN buffer |-> p], LAMBDA p : buffer[p] = byte)

SizeOk(buffer) == Len(buffer) >= 20 /\ Len(buffer) <= MaxMessageSize

\* MessageView::add_field for each of them: those it has no room for are dropped.
View(fields) == SubSeq(fields, 1, Min({MAX_FIELDS, Len(fields)}))

\* parse: fields up to the first with tag 10, then BodyLength and checksum.  All
\* errors are one: the engine skips the message.  Its caller hands it exactly what
\* find_message_boundary found, so bytes after the last SOH do not occur.
parse(buffer) ==
    LET ends == Where(buffer, SOH)
        fields == [j \in DOMAIN ends |->
                      Field(buffer, IF j = 1 THEN 1 ELSE ends[j - 1] + 1, ends[j])]
        last == {j \in DOMAIN ends : fields[j].tag = CHECKSUM}
        used == SubSeq(fields, 1, Min(last))
        message == SubSeq(buffer, 1, ends[Min(last)])
        start == find_checksum_tag_start(message)
    IN IF /\ SizeOk(buffer)
          /\ last # {}
          /\ \A j \in DOMAIN used : used[j].tag # -1
          /\ Len(used) >= 3
          /\ used[1].tag = BEGIN_STRING /\ used[2].tag = BODY_LENGTH /\ used[3].tag = MSG_TYPE
          /\ start > 0 => start - ends[2] = FromDigits(used[2].value)
          /\ validate(message)
       THEN [ok |-> TRUE, fields |-> View(used)]
       ELSE NoMessage

-----------------------------------------------------------------------------
(* message.rs                                                              *)

\* Option
Nothing == <<>>
Some(v) == <<v>>

\* get_field: the first field with the tag.
get_field(fields, tag) ==
    LET at == {j \in DOMAIN fields : fields[j].tag = tag} IN
    IF at = {} THEN Nothing ELSE Some(fields[Min(at)].value)

\* msg_type: add_field remembers the last field with tag 35.
msg_type(fields) ==
    LET at == {j \in DOMAIN fields : fields[j].tag = MSG_TYPE} IN
    IF at = {} THEN Nothing ELSE Some(fields[Max(at)].value)

parse_u64(bytes) ==
    IF bytes = <<>> \/ \E b \in ToSet(bytes) : ~IsDigit(b) THEN Nothing
    ELSE Some(FromDigits(bytes))

\* Mutated form: the sign is skipped and forgotten.
parse_i64_unsigned(bytes) ==
    IF bytes = <<>> THEN Nothing
    ELSE Some(FromDigits(IF bytes[1] = Minus THEN Tail(bytes) ELSE bytes))

parse_i64(bytes) ==
    IF bytes = <<>> THEN Nothing
    ELSE LET negative == bytes[1] = Minus
             digits == IF negative THEN Tail(bytes) ELSE bytes IN
         IF \E b \in ToSet(digits) : ~IsDigit(b) THEN Nothing
         ELSE Some(IF negative THEN -FromDigits(digits) ELSE FromDigits(digits))

get_field_i64(fields, tag) ==
    LET value == get_field(fields, tag) IN
    IF value = Nothing THEN Nothing ELSE parse_i64(value[1])

get_field_u64(fields, tag) ==
    LET value == get_field(fields, tag) IN
    IF value = Nothing THEN Nothing ELSE parse_u64(value[1])

msg_seq_num(fields) == get_field_u64(fields, MSG_SEQ_NUM)

-----------------------------------------------------------------------------
(* groups.rs                                                               *)

\* GroupDef, with its nested definitions.
GroupDef(count_tag, delimiter_tag, member_tags, nested_groups) ==
    [count_tag |-> count_tag, delimiter_tag |-> delimiter_tag,
     member_tags |-> member_tags, nested_groups |-> nested_groups]

NoGroup == [found |-> FALSE]

RECURSIVE parse_group(_, _, _)

\* The rest of an entry from field i on: nested groups and members, up to the next
\* delimiter or a tag of something else.
RECURSIVE EntryFrom(_, _, _, _)
EntryFrom(fields, i, def, entry) ==
    LET tag == fields[i].tag
        nested == {d \in def.nested_groups : d.count_tag = tag}
        group == parse_group(fields, i, CHOOSE d \in nested : TRUE) IN
    IF i > Len(fields) \/ tag = def.delimiter_tag THEN [entry |-> entry, next |-> i]
    ELSE IF nested # {} /\ group.found
    THEN EntryFrom(fields, group.next, def, [entry EXCEPT !.nested = Append(@, group.entries)])
    ELSE IF tag \in def.member_tags
    THEN EntryFrom(fields, i + 1, def, [entry EXCEPT !.fields = Append(@, fields[i])])
    ELSE [entry |-> entry, next |-> i]

\* At most n entries, each starting with the delimiter.
RECURSIVE EntriesFrom(_, _, _, _, _)
EntriesFrom(fields, i, def, n, entries) ==
    IF n = 0 \/ i > Len(fields) THEN [found |-> TRUE, entries |-> entries, next |-> i]
    ELSE IF fields[i].tag # def.delimiter_tag
    THEN [found |-> TRUE, entries |-> entries, next |-> i]
    ELSE LET e == EntryFrom(fields, i + 1, def, [fields |-> <<fields[i]>>, nested |-> <<>>]) IN
         EntriesFrom(fields, e.next, def, n - 1, Append(entries, e.entry))

\* Mutated form: the count is not looked at.
parse_group_uncounted(fields, start, def) ==
    IF start > Len(fields) THEN NoGroup
    ELSE IF fields[start].tag # def.count_tag THEN NoGroup
    ELSE EntriesFrom(fields, start + 1, def, 99, <<>>)

\* RepeatingGroup::parse; an empty count is 0.  A count of which
\* Vec::with_capacity(count) has no room to allocate makes the program panic or
\* abort, and is not modelled.
parse_group(fields, start, def) ==
    IF start > Len(fields) THEN NoGroup
    ELSE IF \/ fields[start].tag # def.count_tag
            \/ \E b \in ToSet(fields[start].value) : ~IsDigit(b) THEN NoGroup
    ELSE EntriesFrom(fields, start + 1, def, FromDigits(fields[start].value), <<>>)
=============================================================================
