--------------------------- MODULE JournalProofs ----------------------------
(***************************************************************************)
(* What the journal retains, for every file and page size, every set of    *)
(* messages and every order of appends, restarts, page writes and power    *)
(* losses.                                                                 *)
(***************************************************************************)
EXTENDS Journal, TLAPS

\* The words of entry e are all in file f.
Stored(e, f) ==
    \A i \in 0 .. total_size(e.msg) - 1 : f[e.offset + i] = Image(e, i)

\* An entry lies inside the file.
Inside(e) == e.offset + total_size(e.msg) <= Capacity

\* The entry under way has its header, and after that its body, in the mapping,
\* and writes over none of the kept ones.
Underway ==
    /\ pc \in {"header", "body"} =>
          /\ Inside(cur)
          /\ \A k \in kept : ~Overlaps(k, Extent(cur))
    /\ pc = "header" =>
          /\ write_offset = cur.offset
          /\ \A i \in 0 .. HEADER_SIZE - 1 : mmap[cur.offset + i] = Image(cur, i)
    /\ pc = "body" => Stored(cur, mmap)

\* The numbers that have been acknowledged are numbers that have been used.
Numbers == pc \in {"header", "body"} => cur.seq <= appends

JInv ==
    /\ TypeOK
    /\ \A k \in kept : Inside(k) /\ Stored(k, mmap)
    /\ \A k \in durable : Stored(k, disk)
    /\ Underway
    /\ Numbers

\* The length of an entry is a number above the header's.
LEMMA SizeIsNat ==
    ASSUME NEW m \in Messages
    PROVE  total_size(m) \in Nat /\ total_size(m) > HEADER_SIZE
BY JournalAssumption DEF total_size, HEADER_SIZE

\* read_entry finds an entry whose words are all in the file.
LEMMA StoredIsRead ==
    ASSUME NEW e \in Entry, NEW f, Inside(e), Stored(e, f)
    PROVE  read_entry(f, e.offset) = AsRead(e)
<1> DEFINE n == total_size(e.msg)
<1>1. n \in Nat /\ n > HEADER_SIZE /\ e.offset \in Nat
  BY SizeIsNat DEF Entry
<1>2. /\ f[e.offset] = Word("hash", e.hash, 0)
      /\ f[e.offset + 1] = Word("seq", e.seq, 0)
      /\ f[e.offset + 2] = Word("crc", e.msg, 0)
  <2>1. /\ f[e.offset + 0] = Image(e, 0)
        /\ f[e.offset + 1] = Image(e, 1)
        /\ f[e.offset + 2] = Image(e, 2)
    BY <1>1 DEF Stored, HEADER_SIZE
  <2>2. e.offset + 0 = e.offset
    BY <1>1
  <2> QED BY <2>1, <2>2 DEF Image
<1>3. f[e.offset + 2] # Zero /\ f[e.offset + 2].kind = "crc" /\ f[e.offset + 2].val = e.msg
  BY <1>2 DEF Word, Zero
<1>4. \A i \in HEADER_SIZE .. n - 1 : f[e.offset + i] = Word("body", e.msg, i - HEADER_SIZE)
  BY <1>1 DEF Stored, Image, HEADER_SIZE
<1>5. ~(e.offset + HEADER_SIZE > Capacity) /\ e.offset + n <= Capacity
  BY <1>1, JournalAssumption DEF Inside, HEADER_SIZE
<1> QED BY <1>1, <1>2, <1>3, <1>4, <1>5 DEF read_entry, AsRead

\* A word of an entry that an extent leaves alone is not in that extent.
LEMMA LeftAlone ==
    ASSUME NEW k \in Entry, NEW lo \in Nat, NEW hi \in Int, ~Overlaps(k, lo .. hi),
           NEW i \in 0 .. total_size(k.msg) - 1
    PROVE  k.offset + i \notin lo .. hi
<1>1. total_size(k.msg) \in Nat /\ k.offset \in Nat
  BY SizeIsNat DEF Entry
<1>2. k.offset + i \in Extent(k)
  BY <1>1 DEF Extent
<1> QED BY <1>2 DEF Overlaps

\* Writing inside an extent keeps the entries that do not overlap it.
LEMMA StoredStable ==
    ASSUME NEW k \in Entry, Inside(k), NEW f, NEW g, NEW lo \in Nat, NEW hi \in Int,
           Stored(k, f), ~Overlaps(k, lo .. hi),
           \A j \in Offsets : j \notin lo .. hi => g[j] = f[j]
    PROVE  Stored(k, g)
<1> SUFFICES ASSUME NEW i \in 0 .. total_size(k.msg) - 1
             PROVE  g[k.offset + i] = Image(k, i)
  BY DEF Stored
<1>1. total_size(k.msg) \in Nat /\ k.offset \in Nat
  BY SizeIsNat DEF Entry
<1>2. k.offset + i \notin lo .. hi
  BY LeftAlone
<1>3. k.offset + i \in Offsets
  BY <1>1, JournalAssumption DEF Inside, Offsets
<1> QED BY <1>2, <1>3 DEF Stored

\* Copying words of f over g keeps an entry that both hold.
LEMMA StoredMixed ==
    ASSUME NEW k \in Entry, Inside(k), NEW f, NEW g, NEW h,
           Stored(k, f), Stored(k, g),
           \A j \in Offsets : h[j] \in {f[j], g[j]}
    PROVE  Stored(k, h)
<1> SUFFICES ASSUME NEW i \in 0 .. total_size(k.msg) - 1
             PROVE  h[k.offset + i] = Image(k, i)
  BY DEF Stored
<1>1. total_size(k.msg) \in Nat /\ k.offset \in Nat
  BY SizeIsNat DEF Entry
<1>2. k.offset + i \in Offsets
  BY <1>1, JournalAssumption DEF Inside, Offsets
<1> QED BY <1>2 DEF Stored

LEMMA InitJInv == Init => JInv
BY JournalAssumption DEF Init, JInv, TypeOK, Underway, Numbers, Offsets, SyncPolicy,
    Labels, HEADER_SIZE

\* Every step keeps the invariant.
LEMMA StepJInv == JInv /\ [Next]_vars => JInv'
<1> SUFFICES ASSUME JInv, [Next]_vars PROVE JInv'
  OBVIOUS
<1> USE JournalAssumption
<1>t. TypeOK /\ kept \subseteq Entry /\ durable \subseteq kept /\ Capacity \in Nat
  BY DEF JInv, TypeOK
<1>1. CASE UNCHANGED vars
  BY <1>1 DEF vars, JInv, TypeOK, Underway, Numbers, Stored
<1>2. ASSUME NEW policy \in Policies, open(policy) PROVE JInv'
  BY <1>2 DEF open, JInv, TypeOK, Underway, Numbers, Stored, file, Labels
<1>3. ASSUME NEW h \in SessionHashes, NEW m \in Messages, AppendHeader(h, m) PROVE JInv'
  <2> DEFINE e == [offset |-> AppendOffset(m), hash |-> h, seq |-> appends + 1, msg |-> m]
  <2>1. total_size(m) \in Nat /\ total_size(m) > HEADER_SIZE /\ total_size(m) <= Capacity
    BY <1>3, SizeIsNat DEF AppendHeader
  <2>2. AppendOffset(m) \in Nat /\ AppendOffset(m) + total_size(m) <= Capacity
    BY <2>1, <1>t DEF AppendOffset, TypeOK
  <2>3. e \in Entry /\ cur' = e /\ Inside(e) /\ appends' = appends + 1
    BY <1>3, <2>2, <1>t DEF AppendHeader, Entry, Inside, TypeOK
  <2>4. \A j \in Offsets : j \notin Extent(e) => mmap'[j] = mmap[j]
    <3> SUFFICES ASSUME NEW j \in Offsets, j \notin Extent(e) PROVE mmap'[j] = mmap[j]
      OBVIOUS
    <3>1. j - e.offset \notin 0 .. HEADER_SIZE - 1
      BY <2>1, <2>2 DEF Extent, Offsets, HEADER_SIZE
    <3> QED BY <1>3, <3>1 DEF AppendHeader
  <2>5. kept' \subseteq kept /\ \A k \in kept' : ~Overlaps(k, Extent(e))
    BY <1>3 DEF AppendHeader
  <2>6. durable' \subseteq durable /\ durable' \subseteq kept' /\ disk' = disk
    BY <1>3, <1>t DEF AppendHeader
  <2>7. \A k \in kept' : Inside(k) /\ Stored(k, mmap')
    <3> SUFFICES ASSUME NEW k \in kept' PROVE Inside(k) /\ Stored(k, mmap')
      OBVIOUS
    <3>1. k \in Entry /\ Inside(k) /\ Stored(k, mmap) /\ ~Overlaps(k, Extent(e))
      BY <2>5, <1>t DEF JInv
    <3>2. Extent(e) = e.offset .. e.offset + total_size(m) - 1
      BY DEF Extent
    <3>3. e.offset \in Nat /\ e.offset + total_size(m) - 1 \in Int
      BY <2>1, <2>2
    <3> HIDE DEF e
    <3> QED BY <3>1, <3>2, <3>3, <2>4, StoredStable
  <2>8. \A k \in durable' : Stored(k, disk')
    BY <2>6 DEF JInv, Stored
  <2>9. \A i \in 0 .. HEADER_SIZE - 1 : mmap'[e.offset + i] = Image(e, i)
    <3> SUFFICES ASSUME NEW i \in 0 .. HEADER_SIZE - 1
                 PROVE  mmap'[e.offset + i] = Image(e, i)
      OBVIOUS
    <3>1. e.offset + i \in Offsets /\ (e.offset + i) - e.offset = i
      BY <2>1, <2>2 DEF Offsets, HEADER_SIZE
    <3> QED BY <1>3, <3>1 DEF AppendHeader
  <2>10. pc' = "header" /\ write_offset' = e.offset
    BY <1>3 DEF AppendHeader
  <2>11. Underway' /\ Numbers'
    BY <2>3, <2>5, <2>9, <2>10, <1>t DEF Underway, Numbers, Extent, Image, Inside, TypeOK
  <2>12. TypeOK'
    BY <1>3, <1>t, <2>1, <2>2, <2>3, <2>5, <2>6, <2>10
       DEF AppendHeader, TypeOK, Labels, Offsets
  <2> QED BY <2>7, <2>8, <2>11, <2>12 DEF JInv
<1>4. ASSUME NEW h \in SessionHashes, NEW m \in Messages, AppendTooLong(h, m) PROVE JInv'
  <2>1. \A j \in Offsets : j \notin 0 .. HEADER_SIZE - 1 => mmap'[j] = mmap[j]
    BY <1>4 DEF AppendTooLong, Offsets, HEADER_SIZE
  <2>2. kept' \subseteq kept /\ \A k \in kept' : ~Overlaps(k, 0 .. HEADER_SIZE - 1)
    BY <1>4 DEF AppendTooLong
  <2>3. durable' \subseteq durable /\ durable' \subseteq kept' /\ disk' = disk
    BY <1>4, <1>t DEF AppendTooLong
  <2>4. \A k \in kept' : Inside(k) /\ Stored(k, mmap')
    <3>1. 0 \in Nat /\ HEADER_SIZE - 1 \in Int
      BY DEF HEADER_SIZE
    <3> QED BY <3>1, <2>1, <2>2, <1>t, StoredStable DEF JInv
  <2>5. \A k \in durable' : Stored(k, disk')
    BY <2>3 DEF JInv, Stored
  <2>6. pc' = "closed"
    BY <1>4 DEF AppendTooLong, Closed
  <2>7. TypeOK'
    BY <1>4, <1>t, <2>2, <2>3, <2>6
       DEF AppendTooLong, Closed, TypeOK, Labels, Offsets, SyncPolicy
  <2> QED BY <2>4, <2>5, <2>6, <2>7 DEF JInv, Underway, Numbers
<1>5. CASE AppendBody
  <2> DEFINE n == total_size(cur.msg)
  <2>1. /\ cur \in Entry /\ Inside(cur) /\ write_offset = cur.offset
        /\ n \in Nat /\ n > HEADER_SIZE /\ cur.offset \in Nat
        /\ \A k \in kept : ~Overlaps(k, Extent(cur))
        /\ \A i \in 0 .. HEADER_SIZE - 1 : mmap[cur.offset + i] = Image(cur, i)
    BY <1>5, <1>t, SizeIsNat DEF AppendBody, JInv, TypeOK, Underway, Entry
  <2>2. \A j \in Offsets : j \notin Extent(cur) => mmap'[j] = mmap[j]
    <3> SUFFICES ASSUME NEW j \in Offsets, j \notin Extent(cur) PROVE mmap'[j] = mmap[j]
      OBVIOUS
    <3>1. j - cur.offset \notin HEADER_SIZE .. n - 1
      BY <2>1 DEF Extent, Offsets, HEADER_SIZE
    <3> QED BY <1>5, <3>1 DEF AppendBody
  <2>3. /\ cur' = cur /\ kept' = kept /\ durable' = durable /\ disk' = disk
        /\ appends' = appends /\ acked' = acked /\ opened' = opened /\ pc' = "body"
        /\ write_offset' = write_offset + n
    BY <1>5 DEF AppendBody, history
  <2>4. \A k \in kept' : Inside(k) /\ Stored(k, mmap')
    <3>1. cur.offset + n - 1 \in Int /\ Extent(cur) = cur.offset .. cur.offset + n - 1
      BY <2>1 DEF Extent
    <3> HIDE DEF n
    <3> QED BY <3>1, <2>1, <2>2, <2>3, <1>t, StoredStable DEF JInv
  <2>5. Stored(cur, mmap')
    <3> SUFFICES ASSUME NEW i \in 0 .. n - 1 PROVE mmap'[cur.offset + i] = Image(cur, i)
      BY DEF Stored
    <3>1. cur.offset + i \in Offsets /\ (cur.offset + i) - cur.offset = i
      BY <2>1 DEF Inside, Offsets
    <3>2. mmap'[cur.offset + i] =
            IF i \in HEADER_SIZE .. n - 1 THEN Image(cur, i) ELSE mmap[cur.offset + i]
      BY <1>5, <3>1 DEF AppendBody
    <3>3. i \notin HEADER_SIZE .. n - 1 => i \in 0 .. HEADER_SIZE - 1
      BY <2>1 DEF HEADER_SIZE
    <3> QED BY <3>2, <3>3, <2>1
  <2>6. Underway' /\ Numbers'
    BY <1>5, <2>1, <2>3, <2>5
       DEF AppendBody, JInv, Underway, Numbers, Extent, Inside, Stored, Image
  <2>7. TypeOK'
    BY <1>5, <1>t, <2>1, <2>3 DEF AppendBody, TypeOK, Labels, Offsets, Inside, history
  <2> QED BY <2>3, <2>4, <2>6, <2>7 DEF JInv, Stored
<1>6. CASE AppendReturn
  <2>1. /\ cur \in Entry /\ Inside(cur) /\ Stored(cur, mmap) /\ cur.seq <= appends
        /\ cur.seq \in Nat
    BY <1>6, <1>t DEF AppendReturn, JInv, TypeOK, Underway, Numbers, Entry
  <2>2. mmap' = mmap /\ kept' = kept \union {cur} /\ pc' = "idle"
    BY <1>6 DEF AppendReturn
  <2>3. \A k \in kept' : Inside(k) /\ Stored(k, mmap')
    BY <2>1, <2>2 DEF JInv, Stored
  <2>4. /\ durable' \subseteq kept'
        /\ \A k \in durable' : Stored(k, disk')
    <3>1. CASE sync_policy = "EveryMessage"
      BY <3>1, <1>6, <2>2, <2>3 DEF AppendReturn, Stored
    <3>2. CASE sync_policy # "EveryMessage"
      BY <3>2, <1>6, <2>2, <1>t DEF AppendReturn, JInv, Stored
    <3> QED BY <3>1, <3>2
  <2>5. TypeOK'
    <3>1. DOMAIN disk' = Offsets
      BY <1>6, <1>t DEF AppendReturn, TypeOK
    <3> QED BY <3>1, <1>6, <1>t, <2>1, <2>2, <2>4 DEF AppendReturn, TypeOK, Labels, journal
  <2> QED BY <2>2, <2>3, <2>4, <2>5 DEF JInv, Underway, Numbers
<1>7. CASE AppendFlushFails
  BY <1>7, <1>t
     DEF AppendFlushFails, JInv, TypeOK, Underway, Numbers, Stored, file, journal, history, Labels
<1>8. CASE flush
  BY <1>8, <1>t DEF flush, JInv, TypeOK, Underway, Numbers, Stored, journal
<1>9. ASSUME NEW p \in 0 .. Capacity \div PageSize, WriteBack(p) PROVE JInv'
  <2>1. \A j \in Offsets : disk'[j] \in {mmap[j], disk[j]}
    BY <1>9 DEF WriteBack
  <2>2. UNCHANGED <<mmap, write_offset, entry_count, sync_policy, pc, cur, appends,
                    kept, durable, acked, opened>>
    BY <1>9 DEF WriteBack, journal, history
  <2>3. \A k \in durable' : Stored(k, disk')
    BY <2>1, <2>2, <1>t, StoredMixed DEF JInv
  <2>4. DOMAIN disk' = Offsets
    BY <1>9 DEF WriteBack
  <2>5. TypeOK'
    BY <1>t, <2>2, <2>4 DEF TypeOK
  <2>6. Underway' /\ Numbers' /\ \A k \in kept' : Inside(k) /\ Stored(k, mmap')
    BY <2>2 DEF JInv, Underway, Numbers, Stored, Inside, Overlaps, Extent, Image
  <2> QED BY <2>3, <2>5, <2>6 DEF JInv
<1>10. CASE ProcessEnds
  BY <1>10, <1>t
     DEF ProcessEnds, Closed, JInv, TypeOK, Underway, Numbers, Stored, file, history, Labels, SyncPolicy
<1>11. CASE PowerLoss
  BY <1>11, <1>t
     DEF PowerLoss, Closed, JInv, TypeOK, Underway, Numbers, Stored, Labels, SyncPolicy
<1> QED
  BY <1>1, <1>2, <1>3, <1>4, <1>5, <1>6, <1>7, <1>8, <1>9, <1>10, <1>11 DEF Next

\* The invariant holds always.
THEOREM JournalInvariant == Spec => []JInv
<1>1. Init => JInv
  BY InitJInv
<1>2. JInv /\ [Next]_vars => JInv'
  BY StepJInv
<1> QED BY <1>1, <1>2, PTL DEF Spec

\* Type correctness of the journal: append() never writes or points outside the
\* file.
THEOREM JournalTypeCorrect == Spec => []TypeOK
<1>1. JInv => TypeOK
  BY DEF JInv
<1> QED BY <1>1, JournalInvariant, PTL

\* Acknowledged entries read back until append() writes over them, whatever the
\* process, the kernel and the machine do; after a loss of power, those that
\* flush() or EveryMessage has put on the disk.
THEOREM JournalRetains == Spec => [](Retained /\ DurableOnDisk)
<1>1. JInv => Retained /\ DurableOnDisk
  <2> SUFFICES ASSUME JInv PROVE Retained /\ DurableOnDisk
    OBVIOUS
  <2>1. kept \subseteq Entry /\ durable \subseteq kept
    BY DEF JInv, TypeOK
  <2>2. Retained
    BY <2>1, StoredIsRead DEF JInv, Retained
  <2>3. DurableOnDisk
    BY <2>1, StoredIsRead DEF JInv, DurableOnDisk
  <2> QED BY <2>2, <2>3
<1> QED BY <1>1, JournalInvariant, PTL

\* What flush() or EveryMessage has put on the disk reads back from the disk alone,
\* whatever pages of a later, half written entry the kernel adds to it.
THEOREM JournalDurable == Spec => []DurableOnDisk
BY JournalRetains, PTL

-----------------------------------------------------------------------------
(* The latest acknowledged entry.                                          *)

\* Where append() stands with respect to the last number acknowledged: the number
\* it is writing is the next one, and the offset is past what it has written.
Progress ==
    /\ pc \in {"header", "body"} => cur.seq = appends /\ acked < appends
    /\ pc = "body" => write_offset = cur.offset + total_size(cur.msg)

\* The latest acknowledged entry is kept, and until the next append() begins it
\* ends where that one will write.
LatestAt ==
    /\ Roomy /\ pc # "closed"
    /\ acked > opened /\ appends <= acked + 1
    => \E k \in kept :
          /\ k.seq = acked
          /\ pc = "idle" /\ appends = acked =>
                k.offset + total_size(k.msg) = write_offset

\* An entry just before the offset survives the next append(), wrap or not, when
\* three of the longest entries fit in the file.
LEMMA WrapMissesLatest ==
    ASSUME JInv, Roomy, NEW k \in kept, NEW m \in Messages, total_size(m) <= Capacity,
           k.offset + total_size(k.msg) = write_offset,
           NEW e \in Entry, e.offset = AppendOffset(m), e.msg = m
    PROVE  ~Overlaps(k, Extent(e))
<1> USE JournalAssumption
<1>1. k \in Entry /\ k.offset \in Nat /\ k.msg \in Messages /\ Inside(k)
  BY DEF JInv, TypeOK, Entry
<1>2. total_size(k.msg) \in Nat /\ total_size(m) \in Nat
  BY <1>1, SizeIsNat
<1>3. 3 * total_size(m) <= Capacity
  BY DEF Roomy
<1>4. 3 * total_size(k.msg) <= Capacity
  BY <1>1, <1>2 DEF Roomy, Inside
<1>5. e.offset + total_size(m) <= k.offset \/ k.offset + total_size(k.msg) <= e.offset
  BY <1>1, <1>2, <1>3, <1>4 DEF AppendOffset
<1>6. e.offset \in Nat
  BY DEF Entry
<1> QED
  BY <1>1, <1>2, <1>5, <1>6 DEF Overlaps, Extent

\* Every step keeps the latest entry.
LEMMA StepLatest ==
    ASSUME JInv, Progress, LatestAt, [Next]_vars PROVE Progress' /\ LatestAt'
<1> USE JournalAssumption
<1>t. acked \in Nat /\ appends \in Nat /\ opened \in Nat /\ acked <= appends
  BY DEF JInv, TypeOK
<1>1. CASE UNCHANGED vars
  BY <1>1 DEF vars, Progress, LatestAt, Roomy
<1>2. ASSUME NEW policy \in Policies, open(policy) PROVE Progress' /\ LatestAt'
  BY <1>2, <1>t DEF open, Progress, LatestAt
<1>3. ASSUME NEW h \in SessionHashes, NEW m \in Messages, AppendHeader(h, m)
      PROVE  Progress' /\ LatestAt'
  <2> DEFINE e == [offset |-> AppendOffset(m), hash |-> h, seq |-> appends + 1, msg |-> m]
  <2>1. /\ pc = "idle" /\ pc' = "header" /\ cur' = e /\ appends' = appends + 1
        /\ kept' = {k \in kept : ~Overlaps(k, Extent(e))}
        /\ UNCHANGED <<acked, opened>>
        /\ total_size(m) <= Capacity
    BY <1>3 DEF AppendHeader
  <2>2. e \in Entry /\ e.offset = AppendOffset(m) /\ e.msg = m
    BY <1>t DEF Entry, AppendOffset, JInv, TypeOK
  <2>3. Progress'
    BY <2>1, <1>t DEF Progress
  <2> HIDE DEF e
  <2>4. LatestAt'
    <3> SUFFICES ASSUME Roomy, acked > opened, appends + 1 <= acked + 1
                 PROVE  \E k \in kept' : k.seq = acked
      BY <2>1 DEF LatestAt, Roomy
    <3>1. PICK k \in kept : k.seq = acked /\ k.offset + total_size(k.msg) = write_offset
      BY <2>1, <1>t DEF LatestAt
    <3>2. ~Overlaps(k, Extent(e))
      BY <2>1, <2>2, <3>1, WrapMissesLatest
    <3> QED
      BY <2>1, <3>1, <3>2
  <2> QED
    BY <2>3, <2>4
<1>4. ASSUME NEW h \in SessionHashes, NEW m \in Messages, AppendTooLong(h, m)
      PROVE  Progress' /\ LatestAt'
  BY <1>4 DEF AppendTooLong, Closed, Progress, LatestAt
<1>5. CASE AppendBody
  <2>1. /\ pc = "header" /\ pc' = "body" /\ UNCHANGED <<cur, appends, kept, acked, opened>>
        /\ write_offset' = write_offset + total_size(cur.msg)
    BY <1>5 DEF AppendBody, history
  <2>2. write_offset = cur.offset
    BY <2>1 DEF JInv, Underway
  <2> QED
    BY <2>1, <2>2 DEF Progress, LatestAt, Roomy
<1>6. CASE AppendReturn
  <2>1. /\ pc = "body" /\ pc' = "idle" /\ kept' = kept \union {cur} /\ acked' = cur.seq
        /\ UNCHANGED <<write_offset, appends, opened>>
    BY <1>6 DEF AppendReturn, journal
  <2>2. cur.seq = appends /\ write_offset = cur.offset + total_size(cur.msg)
    BY <2>1 DEF Progress
  <2> QED
    BY <2>1, <2>2 DEF Progress, LatestAt
<1>7. CASE AppendFlushFails
  <2>1. /\ pc = "body" /\ pc' = "idle"
        /\ UNCHANGED <<write_offset, appends, kept, acked, opened>>
    BY <1>7 DEF AppendFlushFails, journal, history
  <2>2. acked # appends
    BY <2>1, <1>t DEF Progress
  <2> QED
    BY <2>1, <2>2 DEF Progress, LatestAt, Roomy
<1>8. CASE flush \/ \E p \in 0 .. Capacity \div PageSize : WriteBack(p)
  <2>1. UNCHANGED <<write_offset, pc, cur, appends, kept, acked, opened>>
    BY <1>8 DEF flush, WriteBack, journal, history
  <2> QED
    BY <2>1 DEF Progress, LatestAt, Roomy
<1>9. CASE ProcessEnds \/ PowerLoss
  BY <1>9 DEF ProcessEnds, PowerLoss, Closed, Progress, LatestAt
<1> QED
  BY <1>1, <1>2, <1>3, <1>4, <1>5, <1>6, <1>7, <1>8, <1>9 DEF Next

\* In a file with room for three of the longest messages the latest acknowledged
\* entry since open() is still there while its successor is being written.
THEOREM JournalKeepsLatest == Spec => []LatestSurvives
<1>1. Init => Progress /\ LatestAt
  BY DEF Init, Progress, LatestAt
<1>2. JInv /\ Progress /\ LatestAt /\ [Next]_vars => Progress' /\ LatestAt'
  BY StepLatest
<1>3. LatestAt => LatestSurvives
  BY DEF LatestAt, LatestSurvives
<1> QED
  BY <1>1, <1>2, <1>3, JournalInvariant, PTL DEF Spec
=============================================================================
