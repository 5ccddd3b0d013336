------------------------------ MODULE Journal -------------------------------
(***************************************************************************)
(* journal.rs: a memory-mapped file used as a circular buffer of entries,  *)
(* each a 24 byte header followed by the message.  The unit of the model   *)
(* is one 8 byte word: the header is three words, the last of which holds  *)
(* the length and the CRC of the body.                                     *)
(*                                                                         *)
(* `mmap` is the mapping, which survives the death of the process; `disk`  *)
(* is what survives the loss of power.  The kernel copies dirty pages to   *)
(* the disk whenever it likes; flush() copies all of them.                 *)
(*                                                                         *)
(* A CRC is taken to identify the body it was computed from, and a session *)
(* hash the session.                                                       *)
(***************************************************************************)
EXTENDS Integers, FiniteSets

CONSTANTS
    Capacity,       \* words in the file
    PageSize,       \* words the kernel writes back at a time
    SessionHashes,  \* values of session_hash()
    Messages,       \* message bodies
    Size,           \* Size[m]: words of message m; a FIX message is never empty
    Policies,       \* the sync policies open() is called with
    MaxAppends      \* bound: calls of append()

\* Words of JournalEntryHeader: session_hash, seq_num, body_length and crc32.
HEADER_SIZE == 3

SyncPolicy == {"None", "Batch", "EveryMessage"}

ASSUME JournalAssumption ==
    /\ Capacity \in Nat /\ Capacity >= HEADER_SIZE
    /\ PageSize \in Nat \ {0}
    /\ Size \in [Messages -> Nat \ {0}]
    /\ Policies \subseteq SyncPolicy
    /\ MaxAppends \in Nat

VARIABLES
    mmap,           \* the mapped file
    disk,           \* the file on the disk
    write_offset,
    entry_count,
    sync_policy,
    pc,             \* where the process is: outside, or inside one append()
    cur,            \* the entry append() is writing
    appends,        \* calls of append(); the caller numbers its messages with it
    kept,           \* acknowledged entries no later append() has written over
    durable,        \* those of them that flush() has put on the disk
    acked,          \* the highest number acknowledged, 0 if none
    opened          \* the highest number used before the last open()

file == <<mmap, disk>>
journal == <<write_offset, entry_count, sync_policy>>
history == <<kept, durable, acked, opened>>
vars == <<mmap, disk, write_offset, entry_count, sync_policy, pc, cur, appends,
          kept, durable, acked, opened>>

Offsets == 0 .. Capacity - 1
Labels == {"closed", "idle", "header", "body"}

Word(kind, val, pos) == [kind |-> kind, val |-> val, pos |-> pos]
Zero == Word("zero", 0, 0)

Entry == [offset : Nat, hash : SessionHashes, seq : Nat, msg : Messages]
NoEntry == [offset |-> -1]

total_size(m) == HEADER_SIZE + Size[m]

\* Words of the file an entry covers.
Extent(e) == e.offset .. e.offset + total_size(e.msg) - 1

\* The i-th word of an entry, as append() writes it.
Image(e, i) ==
    IF i = 0 THEN Word("hash", e.hash, 0)
    ELSE IF i = 1 THEN Word("seq", e.seq, 0)
    ELSE IF i = 2 THEN Word("crc", e.msg, 0)
    ELSE Word("body", e.msg, i - HEADER_SIZE)

Overlaps(e, S) == Extent(e) \intersect S # {}

TypeOK ==
    /\ DOMAIN mmap = Offsets
    /\ DOMAIN disk = Offsets
    /\ write_offset \in 0 .. Capacity
    /\ entry_count \in Nat
    /\ sync_policy \in SyncPolicy
    /\ pc \in Labels
    /\ pc \in {"header", "body"} => cur \in Entry
    /\ appends \in Nat
    /\ kept \subseteq Entry
    /\ durable \subseteq kept
    /\ acked \in 0 .. appends
    /\ opened \in 0 .. appends

\* The file is created with zeros by set_len; no process has it open.
Init ==
    /\ mmap = [i \in Offsets |-> Zero]
    /\ disk = [i \in Offsets |-> Zero]
    /\ write_offset = 0
    /\ entry_count = 0
    /\ sync_policy = "None"
    /\ pc = "closed"
    /\ cur = NoEntry
    /\ appends = 0
    /\ kept = {}
    /\ durable = {}
    /\ acked = 0
    /\ opened = 0

\* The Journal value is gone; the file stays.
Closed ==
    /\ write_offset' = 0
    /\ entry_count' = 0
    /\ sync_policy' = "None"
    /\ cur' = NoEntry
    /\ pc' = "closed"

-----------------------------------------------------------------------------
\* Journal::open: an existing file keeps its contents, and writing starts at 0.
open(policy) ==
    /\ pc = "closed"
    /\ write_offset' = 0
    /\ entry_count' = 0
    /\ sync_policy' = policy
    /\ pc' = "idle"
    /\ opened' = appends
    /\ UNCHANGED <<file, cur, appends, kept, durable, acked>>

\* Mutated form: the room for the header is forgotten.
AppendOffsetBodyOnly(m) ==
    IF write_offset + Size[m] > Capacity THEN 0 ELSE write_offset

\* Where append() writes: wrap to the beginning if the entry does not fit.
AppendOffset(m) ==
    IF write_offset + total_size(m) > Capacity THEN 0 ELSE write_offset

\* append() begins: take the place and write the header.
AppendHeader(h, m) ==
    LET e == [offset |-> AppendOffset(m), hash |-> h, seq |-> appends + 1, msg |-> m] IN
    /\ pc = "idle"
    /\ appends < MaxAppends
    /\ total_size(m) <= Capacity
    /\ write_offset' = e.offset
    /\ mmap' = [i \in Offsets |->
          IF i - e.offset \in 0 .. HEADER_SIZE - 1 THEN Image(e, i - e.offset) ELSE mmap[i]]
    /\ cur' = e
    /\ appends' = appends + 1
    /\ kept' = {k \in kept : ~Overlaps(k, Extent(e))}
    /\ durable' = {k \in durable : ~Overlaps(k, Extent(e))}
    /\ pc' = "header"
    /\ UNCHANGED <<disk, entry_count, sync_policy, acked, opened>>

\* A message longer than the file: the header is written at 0, and slicing the
\* mapping for the body panics.
AppendTooLong(h, m) ==
    LET e == [offset |-> 0, hash |-> h, seq |-> appends + 1, msg |-> m] IN
    /\ pc = "idle"
    /\ appends < MaxAppends
    /\ total_size(m) > Capacity
    /\ mmap' = [i \in Offsets |-> IF i < HEADER_SIZE THEN Image(e, i) ELSE mmap[i]]
    /\ appends' = appends + 1
    /\ kept' = {k \in kept : ~Overlaps(k, 0 .. HEADER_SIZE - 1)}
    /\ durable' = {k \in durable : ~Overlaps(k, 0 .. HEADER_SIZE - 1)}
    /\ Closed
    /\ UNCHANGED <<disk, acked, opened>>

\* Mutated form: write_offset also skips a word between entries.
AppendBodyPadded ==
    /\ pc = "header"
    /\ mmap' = [i \in Offsets |->
          IF i - cur.offset \in HEADER_SIZE .. total_size(cur.msg) - 1
          THEN Image(cur, i - cur.offset) ELSE mmap[i]]
    /\ write_offset' = write_offset + total_size(cur.msg) + 1
    /\ entry_count' = entry_count + 1
    /\ pc' = "body"
    /\ UNCHANGED <<disk, sync_policy, cur, appends, history>>

\* Mutated form: write_offset is not advanced.
AppendBodyInPlace ==
    /\ pc = "header"
    /\ mmap' = [i \in Offsets |->
          IF i - cur.offset \in HEADER_SIZE .. total_size(cur.msg) - 1
          THEN Image(cur, i - cur.offset) ELSE mmap[i]]
    /\ entry_count' = entry_count + 1
    /\ pc' = "body"
    /\ UNCHANGED <<disk, write_offset, sync_policy, cur, appends, history>>

\* Write the body, advance the offset and count the entry.
AppendBody ==
    /\ pc = "header"
    /\ mmap' = [i \in Offsets |->
          IF i - cur.offset \in HEADER_SIZE .. total_size(cur.msg) - 1
          THEN Image(cur, i - cur.offset) ELSE mmap[i]]
    /\ write_offset' = write_offset + total_size(cur.msg)
    /\ entry_count' = entry_count + 1
    /\ pc' = "body"
    /\ UNCHANGED <<disk, sync_policy, cur, appends, history>>

\* Mutated form: EveryMessage does not flush either.
AppendReturnUnsynced ==
    /\ pc = "body"
    /\ kept' = kept \union {cur}
    /\ durable' = IF sync_policy = "EveryMessage" THEN kept' ELSE durable
    /\ acked' = cur.seq
    /\ pc' = "idle"
    /\ cur' = NoEntry
    /\ UNCHANGED <<file, journal, appends, opened>>

\* append() returns the offset; EveryMessage flushes first, Batch does not.
AppendReturn ==
    /\ pc = "body"
    /\ kept' = kept \union {cur}
    /\ IF sync_policy = "EveryMessage"
       THEN disk' = mmap /\ durable' = kept'
       ELSE UNCHANGED <<disk, durable>>
    /\ acked' = cur.seq
    /\ pc' = "idle"
    /\ cur' = NoEntry
    /\ UNCHANGED <<mmap, journal, appends, opened>>

\* The flush fails: append() returns an error, with the entry written.
AppendFlushFails ==
    /\ pc = "body"
    /\ sync_policy = "EveryMessage"
    /\ pc' = "idle"
    /\ cur' = NoEntry
    /\ UNCHANGED <<file, journal, appends, history>>

\* The caller's own flush().
flush ==
    /\ pc = "idle"
    /\ disk' = mmap
    /\ durable' = kept
    /\ UNCHANGED <<mmap, journal, pc, cur, appends, kept, acked, opened>>

-----------------------------------------------------------------------------
(* The kernel and the machine                                              *)

\* The kernel writes a page back.
WriteBack(p) ==
    /\ disk' = [i \in Offsets |-> IF i \div PageSize = p THEN mmap[i] ELSE disk[i]]
    /\ UNCHANGED <<mmap, journal, pc, cur, appends, history>>

\* The process ends, in an orderly way or not: the mapping stays with the kernel.
ProcessEnds ==
    /\ pc # "closed"
    /\ Closed
    /\ UNCHANGED <<file, appends, history>>

\* The machine goes down: what is not on the disk is gone.
PowerLoss ==
    /\ mmap' = disk
    /\ kept' = durable
    /\ Closed
    /\ UNCHANGED <<disk, appends, durable, acked, opened>>

Next ==
    \/ \E policy \in Policies : open(policy)
    \/ \E h \in SessionHashes, m \in Messages : AppendHeader(h, m) \/ AppendTooLong(h, m)
    \/ AppendBody
    \/ AppendReturn
    \/ AppendFlushFails
    \/ flush
    \/ \E p \in 0 .. Capacity \div PageSize : WriteBack(p)
    \/ ProcessEnds
    \/ PowerLoss

Spec == Init /\ [][Next]_vars

-----------------------------------------------------------------------------
(* Reading                                                                 *)

Nothing == [found |-> FALSE]

\* read_entry: the header is taken from whatever is at the offset; its third word
\* gives the length, and the body must fit and match the CRC.  A zero word is
\* length 0 with the CRC of an empty body.  append() puts entries at any byte offset,
\* while ptr::read asks for one that is a multiple of 8, as every word here is: what
\* a build makes of the others (x86 reads them, a debug build panics) is left out.
read_entry(file_, offset) ==
    LET len_crc == file_[offset + 2]
        header == [hash |-> file_[offset], seq |-> file_[offset + 1]] IN
    IF offset + HEADER_SIZE > Capacity THEN Nothing
    ELSE IF len_crc = Zero THEN [found |-> TRUE, header |-> header, body |-> "empty"]
    ELSE IF /\ len_crc.kind = "crc"
            /\ offset + total_size(len_crc.val) <= Capacity
            /\ \A i \in HEADER_SIZE .. total_size(len_crc.val) - 1 :
                  file_[offset + i] = Word("body", len_crc.val, i - HEADER_SIZE)
    THEN [found |-> TRUE, header |-> header, body |-> len_crc.val]
    ELSE Nothing

\* What read_entry must return for an entry append() has acknowledged.
AsRead(e) ==
    [found |-> TRUE,
     header |-> [hash |-> Word("hash", e.hash, 0), seq |-> Word("seq", e.seq, 0)],
     body |-> e.msg]

-----------------------------------------------------------------------------
(* Properties                                                              *)

\* Every entry append() has acknowledged and no later append() has written over
\* reads back whole: through wraps, through appends cut short by the end of the
\* process, through pages the kernel wrote at any moment and, if flush() or
\* EveryMessage put it on the disk, through a loss of power.
Retained == \A k \in kept : read_entry(mmap, k.offset) = AsRead(k)

\* The same of the disk alone: pages written back while a later entry is half
\* written do not touch what flush() promised.
DurableOnDisk == \A k \in durable : read_entry(disk, k.offset) = AsRead(k)

\* Three of the longest entries the file can take fit in it.
Roomy == \A m \in Messages : total_size(m) <= Capacity => 3 * total_size(m) <= Capacity

\* Since the last open() the latest acknowledged entry is never the one a wrap
\* writes over, not even while its successor is being written.
LatestSurvives ==
    /\ Roomy /\ pc # "closed"
    /\ acked > opened /\ appends <= acked + 1
    => \E k \in kept : k.seq = acked

\* At startup the journal still holds the highest number acknowledged before, for
\* a recovery scan to find.
HighestRecoverable ==
    pc = "idle" /\ appends = opened => acked \in {0} \union {k.seq : k \in kept}
=============================================================================
