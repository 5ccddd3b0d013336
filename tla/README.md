# A verification development for the FIX engine

TLA+ models of the engine's stateful parts, TLC runs on small instances, and
TLAPS proofs for every value of the constants. Paths below are relative to the
repository; a line number names the code as it is at this commit.

## 1. The system

| part | state it keeps | operations | who calls it |
|---|---|---|---|
| `BufferPool` (pool.rs) | `free_head`, one `next` link per slot | `allocate`, `deallocate` (atomic accesses, no lock), `get`, `get_mut` | any thread holding a reference |
| `Session` (session.rs) | state, two sequence numbers, three timestamps, the pending probe | `on_*` transitions, `validate_inbound_seq`, `check_heartbeat` | the engine's loop, between transport calls |
| `FixEngine` (engine.rs) | the session, `recv_buf`, `should_stop` | `run_initiator`, `run_acceptor`, `handle_inbound_logon`, `run_loop`, the callbacks' `EngineContext` | one thread per connection; two engines share only a connection |
| `Acceptor` (acceptor.rs) | slots, `next_conn_id`, counters | `accept_connection`, `release_connection`, `drain_connection`, `record_message`, `evict_idle` | callers under a mutex |
| `FixServer` (server.rs) | the shared `Acceptor`; the locals of each connection thread | `start`, `handle_connection` | one thread per TCP connection |
| `ClusterNode` (cluster.rs) | role, term, vote, log, indices, table of session states, peers | elections, `receive_vote`, `replicate_session_state`, `apply_log_entry`, snapshots | a host that is not in the repository |
| `Journal` (journal.rs) | the mapping, `write_offset`, `entry_count`, the policy | `open`, `append`, `flush`, `read_entry` | one writer |
| transports (transport*.rs) | a socket, a bus of frames, or a stub of a NIC | `connect`, `bind`, `send`, `recv`, `close`, `poll` | the engine |
| codec (parser.rs, message.rs, checksum.rs, serializer.rs, groups.rs; simd.rs) | none, or a cursor in a buffer | scan, look up, format, check | the engine and the application |
| `FixtSession` (fixt.rs) | a `Session` and the negotiated version | `on_logon_received`, `validate_appl_ver`, and the session's methods | a service loop that is not in the repository |
| clocks (timestamp.rs) | source, calibrated frequency, offset | `HrClock::new`, `now`, `LatencyTracker`, FIX timestamps | the application |
| `EngineMetrics` (metrics.rs) | atomic counters and gauges, histograms behind mutexes | updates, `snapshot`, `render_prometheus` | any thread, and a scraper |
| `Dashboard` (dashboard.rs, bin/dashboard.rs) | sessions, health; the client being served | `update_*`, `remove_session`, `handle_request`, the server's loop | one thread, HTTP clients |
| dictionaries, other binaries | see PROJECT.json | | |

How the parts meet: `FixServer` accepts a TCP stream in a new thread, reads the
Logon itself, registers the CompID with the shared `Acceptor`, starts a
`FixEngine` on the stream and releases the slot when the engine returns. The
engine drives one `Session` and one transport, parses what it receives, and
calls the application. `ClusterNode`, `Journal`, the pool, the clocks, the metrics
and the dashboard stand alone: no code of the repository calls them from the engine.

What is hard here, and where it is in the models:

* **interleaving**: the pool's compare-exchange loops; connection threads around
  one `Acceptor`; candidates of one term; two engines that send, time out and
  stop at the same moments; threads that update metrics under a scrape; readings
  of two clocks with anything in between;
* **failure**: transport calls and callbacks that fail at any point, a peer that
  disappears without a sign, a thread that dies holding a slot, a process that
  dies inside `append()`, pages that reach the disk in any order, power loss; a
  cluster node that is restarted and has forgotten its votes;
* **ordering and loss**: messages split and batched by the stream, votes that
  arrive after their election, ids released after they were recycled;
* **stale state**: frames an Aeron stream keeps from connections that have ended;
* **time**: heartbeats of one side against the timeout of the other; a probe and
  the decision it leads to; nothing else ever ends a silent session. A system
  clock that is set while something is measured with it.

PROJECT.json lists every hazard at its line, with the properties that watch it.

## 2. Modules

| module | models | extends / instantiates |
|---|---|---|
| `PoolSpec` | what a pool promises: a set of free slots and one atomic step per operation | |
| `BufferPool` | pool.rs, one step per atomic access | `PoolSpec` (refinement) |
| `Session` | session.rs, as operators on a session record | |
| `FixEngine` | engine.rs, two engines and a connection | `Session` |
| `ConnectionRegistry` | what the acceptor promises: a set of connections, no slots | |
| `Acceptor` | acceptor.rs | `ConnectionRegistry` (refinement) |
| `FixServer` | server.rs, connection threads around an acceptor | `Acceptor` |
| `FixtSession` | fixt.rs and the methods of session.rs only it calls, as operators on a record | `Session` |
| `AeronBus` | transport_aeron.rs, as operators on the shared queue | |
| `FixtLink` | two services with a `FixtSession` each on one Aeron stream | `FixtSession`, `AeronBus` |
| `Codec` | serializer.rs, checksum.rs, parser.rs, message.rs, groups.rs, as operators on bytes | |
| `Framing` | the way of a message: serialiser, stream, `recv_buf`, parser, view | `Codec` |
| `Cluster` | cluster.rs, nodes and the external hosts that carry votes | |
| `Journal` | journal.rs, the kernel's page cache, the disk | |
| `Timestamp` | timestamp.rs, as operators: dates, formats, conversions, clocks | |
| `Metrics` | metrics.rs: updates, and a scrape reading by reading | |
| `Telemetry` | a program that calibrates a clock, measures, records and is scraped | `Timestamp`, `Metrics` |
| `Dashboard` | dashboard.rs, and the loop of bin/dashboard.rs with its clients | |
| `Transports` | `build_transport`: a service on Aeron or on kernel TCP | `FixtLink`, `Framing` |
| `Observability` | the program with metrics, or the dashboard's own program | `Telemetry`, `Dashboard` |
| `BufferPoolProofs`, `FixServerProofs`, `JournalProofs`, `ClusterProofs`, `FixEngineProofs`, `FixtLinkProofs`, `TelemetryProofs` | theorems | the module of that name |
| `SessionProofs` | lemmas: what each method of session.rs does to the fields others rely on | `Session` |
| `MC...` | constants of the runs | the module of that name |

Operators and actions keep the names of the Rust functions (`receive_vote`,
`check_heartbeat`, `accept_connection`, ...). Definitions commented "Mutated
form" are not part of any specification: each is a plausible bug of the
definition that follows it, kept to show that a property can fail.

**BufferPool.** A thread's step is one atomic load, store or compare-exchange;
what it remembers between two of them (the head it saw, the link it read) is
state of the thread. `compare_exchange_weak` may fail spuriously (`Spurious`).
The atomics of pool.rs order the accesses the algorithm needs, so the model
interleaves them. `get` and `get_mut` compute an offset and change nothing.

**Session, FixEngine.** A session is a record and each Rust method an operator
from record to record; timestamps are ages, capped where no comparison can tell
them apart any more. `HeartbeatInterval` is a function of the role: each end has
its own `SessionConfig`, writes its interval into its Logon, and nothing reads it there.
One step of an engine is one stretch of `run_loop` between
two transport calls. `pc` says where: `start`, `top` (drive the timer), `recv`,
`batch` (dispatch the first complete message of `recv_buf`, or close the
iteration), `done` (returned Ok), `failed` (returned an error). A message is its
type and its number. Type `D` stands for every application type, `X` for what
`parse()` rejects. `wire[e]` is what `e` has sent and its peer has not read. The
application sends, asks to stop or fails in its callbacks, as `\E` inputs.
`server_mode` says whether `run_acceptor()` reads the Logon from the loop or
`FixServer` before the loop; in the second case what was read after the Logon is
dropped with `handle_connection`'s buffer, as in the code.
`Break` sets `fault`: from then on any call may fail, and none has to.
What the two engines write always has a MsgType and a MsgSeqNum, so the ways of
`run_loop` around a message without them (engine.rs:263 and :268) are not there.

**Acceptor, FixServer.** Slots, ids and CompIDs as in the code, a `last_active`
age instead of milliseconds. `ReadLogon ... Release` are the points of
`handle_connection` between which the mutex is free; the engine in between is
one step, since its own behaviour is FixEngine's. The `Acceptor` is public: with
`hosted = FALSE` there are no threads and an application calls every method of it
in any order, with ids of the present and the past (`Embedded`). `Leaked` are the
slots in use that no thread will release; `abandoned` are the ids of failed starts and
panics (history). No code sets the state `Closed`, and the type invariant says so.

**FixtSession, AeronBus, FixtLink.** The engine never uses a `FixtSession`, nor the
`Session` methods for reconnection, gaps and rate limiting, so `FixtLink` supplies the
service loop that would: it treats a message in `run_loop`'s order (received, number,
type), gives every Logon to `on_logon_received`, every application message to
`validate_appl_ver`, dials while `should_reconnect()`, and asks `check_rate_limit`
before it sends. Where `max_reconnect_attempts` is 0, the default, dialling has no
limit, and `MaxDials` bounds the runs. The loop is external; what the methods and the
bus do in it is the code's. `connect()` may fail, as TCP's does, and connections end at
any moment, unnoticed by the other side, because an `AeronTransport` that is closed
leaves its frames and tells nobody. A version is a name; bytes `from_bytes` does not
know are `Junk`. `sent`, `taken`, `read` and `allowed` are history. `Transports` puts
the two transports `build_transport` can make side by side: a behaviour is all of
`FixtLink` or all of `Framing`.

**Codec, Framing.** Here the bytes are the subject, so they are modelled as bytes:
`Serialize` produces what `begin`, `add_*` and `finalize` write, digit by digit, with
BodyLength and checksum; `find_message_boundary`, `parse`, `get_field`, `parse_i64`,
`parse_group` read it back with the code's own searches and limits. The kinds of
`ParseError` are one, since the engine skips the message in any case; comp ids and times
are one byte; u8 arithmetic wraps as in a release build. A group with a stated count
that `Vec::with_capacity` cannot serve (groups.rs:101) ends the program; counts in the
runs are small. `Framing` sends messages and bytes that are not messages, lets the
stream cut them anywhere, and runs the inner loop of `run_loop` over `recv_buf`. The
codec has RECURSIVE operators (digits, nested groups) and no theorems.

**Cluster.** The methods of `ClusterNode` are the actions. Their callers are not in the
repository, so the hosts are external and do what the methods are for: a timeout starts
an election, a request is granted once in a term, answers are carried with any delay and
may be lost, entries are applied in index order. A node keeps nothing on disk, so
`restart` is `ClusterNode::new` at the same place in the network: the host knows of no
vote the old process gave (`memory`), while requests and answers of before still arrive.
`restore_snapshot` may be given data that ends anywhere. Session states are carried as
they are: `encode_session_state` truncates the length of a string of 65536 bytes or more
to 16 bits (cluster.rs:359), after which decoding may give nothing while `last_applied`
advances, and such strings are left out. `ballots`, `lost` (terms in which a vote was
forgotten), `counted`, `elected`, `restored` are history.

**Journal.** The unit is one 8 byte word, so that header and body can be torn
apart. `mmap` survives the process, `disk` survives power loss; `WriteBack`
copies any page at any time. `append()` is three steps, because a crash can come
between them: header, body with offset and count, flush and return. `kept`,
`durable`, `acked` and `opened` are history: what the caller may rely on.
A CRC identifies its body. CRC arithmetic and hash collisions are not modelled. Nor is
alignment: in words of 8 bytes every offset is aligned, while in the code an entry may begin
at any byte and `read_entry` reads a header of alignment 8 there with `ptr::read`
(journal.rs:123), which is undefined behaviour, harmless on x86 and a panic where the
build asserts the alignment.

**Timestamp, Metrics, Telemetry.** A u64 of nanoseconds is beyond TLC's integers:
where it is formatted it is given by the quotients and remainders the code takes
(day, second, fraction), where clocks compute with it, it is small and wraps at
`Modulus`. `civil_from_days` is compared with a calendar that only knows how long
a month is: `Midnight` counts days from the first of each year on. `HrClock::new`
is one step per reading (t0, tsc0, tsc1, elapsed, tsc_now, wall), and time passes
and the system clock is set between any two. In `Metrics` each atomic word is one
step, a histogram changes only while nobody holds its mutex, and a scrape is the
list of lines and summaries still to be read (`plan`), reading by reading.
A histogram is how often each value was recorded, and count, sum and
percentiles are taken from its running totals (`Totals`). The atomics are
Relaxed, so readings of *different* words have no order; the property speaks of one
histogram under its lock. An HDR histogram counts exactly here; its
rounding to three digits is left out. `snapshot()` is modelled reading by reading, too,
and no property speaks of it: the code promises nothing of figures read one by one.

**Dashboard.** The loop of `main` is one thread: accept and set the uptime, read a
request line, answer, close. Clients connect, send, hang up or say nothing. The
board changes between two clients, as the program that owns it would have it; the
binary itself only seeds it. JSON is modelled down to the characters that matter
to a reader (quotation mark, backslash, line feed, other control characters).
`Observability` lets one of the two programs run, the one with the metrics or the
dashboard's: the crate links them nowhere.

## 3. Runs

| run | instance | result |
|---|---|---|
| `pool_single` | 2 slots, 1 allocating and 2 freeing threads, strong compare-exchange | passes: no slot lost or given twice, refinement of `PoolSpec`, lock-freedom |
| `pool_aba` | 3 slots, 2 allocating threads | **refutes** `UniqueHolder` |
| `engine` | `run_acceptor()` with loops that keep up with the clock and with arbitrary delays; `FixServer` over a byte stream that splits messages, with a client application that also sends unparsable messages and a second Logon; failures; intervals of 2 and 3 ticks, a grace of 2; 2 application messages a side (1 with delays) | passes: numbering, callbacks inside the session, nothing after a Logout; with prompt loops only a Logout ends an unbroken session, a stop reaches both sides, a dead peer is noticed |
| `engine_gap` | behind `FixServer` | **refutes** `GapFilled` |
| `server` | 3 threads, 2 slots, 4 CompIDs, failed starts and panics; or an application's own calls, with stale ids, drains, evictions | passes: ids, slots and CompIDs, and refines `ConnectionRegistry` |
| `server_leak` | 2 threads, 2 slots | **refutes** `EveryConnectionReleased` |
| `transports` | Aeron: 2 configurations (different defaults and one attempt to reconnect; a Logon that is refused and no limit), 2 and 4 sends, one connection given up at any moment besides those that fail, 2 ticks, 1 message a second. TCP: 3 sends out of 5 messages and 3 pieces of noise, read 41 or 256 bytes at a time | passes: frames once and in order, versions as meant, attempts and rate within their limits; every message dispatched once, in order, fields, numbers and groups as written |
| `cluster` | 3 nodes, delayed and lost answers; 2 terms and 2 entries, 1 term with snapshot and a restart, or 2 terms and a restart | passes: one leader in each term whose votes are remembered, terms that go back in a restart only, ordered logs, table follows log |
| `journal` | 15 words, pages of 5, bodies of 1 and 2 words and one too long, 4 appends, three policies | passes: what was acknowledged can be read |
| `journal_reopen` | the same, `EveryMessage` | **refutes** `HighestRecoverable` |
| `observability` | every day of 1970 to 2554; both sources, 8 ns with a calibration of 3, one setting of the clock, to before the epoch too; 4 metrics, 2 updates under a scrape. Dashboard: 2 clients, 2 sessions with awkward texts, 6 request lines | passes: dates, latencies, what a scrape may show; true answers, every request answered unless a silent client blocks |
| `telemetry_clock` | the `System` source, one setting of the clock | **refutes** `SystemLatencyTrue` |

Why the bounds are enough. *Pool*: an ABA schedule needs two pops and one push between a
load and its exchange, hence 3 slots for the refutation; with one allocator two freeing
threads already produce every order of two pushes around a pop, and with 2 slots every
operation can find the pool empty or full; the theorem covers the rest. *Engine*: two
messages in one batch are what it takes for something to follow a Logout or a stop in
`recv_buf`; intervals of 2 and 3 ticks and a grace of 2 tell "send", "probe" and
"disconnect" apart, and make one end wait for a peer that is slower than itself;
`MaxSeq` bounds the numbers by stopping the clock, which is what produces heartbeats,
except when one engine is gone and the other has to notice. *Server*: 3 threads over 2
slots reach a full pool, a contended CompID and a leak at once. *Transports*: two Logons
of the initiator make a second connection on a stream that still holds frames of the
first; a Logon and three application messages are one more than two windows let through;
an attempt above a limit of one is the first that may not be made, and `MaxDials` = 2
goes beyond it where there is no limit. Of the TCP part, noise, the message it swallows
and the message after that are three sends; the messages have different lengths, so
chunks of 41 bytes cut them, and the trailers between them, at many different offsets;
numbers sit around powers of ten, one value looks like a trailer, one tag starts with
10, one message has more fields and one more bytes than allowed. *Cluster*: 3 nodes and
2 terms have competing candidates and answers that outlive their election, one restart
is enough to vote twice; one node replicates (`limits.replicas`) because a log is
private to its node. *Journal*: pages of 5 words against entries of 4 and 5 words make
entries share and straddle pages, and 15 words are wrapped within 4 appends, exactly at
the end and one word short. *Observability*: the days are all there are; a calibration
of 3 ns can be cut between any two readings and lose up to the whole period; 3 ticks to
a nanosecond make rounding visible; two updates put a record and a reset inside one
summary; of the dashboard's, one client blocks, the other waits; one text ends a JSON
string if it is not escaped, one escapes what follows it.

Symmetry is used in `pool_aba` and `cluster`, on sets whose elements the modules
never tell apart and in no liveness check. Deadlock is
checked except in `pool_aba`, whose threads may all hold slots, and in `cluster`
and `transports`, whose bounds (terms and entries, sends) end every behaviour.

**Fairness.** *Pool*: weak fairness of each thread's next access, since a thread
inside an operation keeps running; a thread between two operations owes nothing.
*Engine*: weak fairness of each engine's loop and of the clock; strong fairness
of `RecvData`, because `recv()` polls again and again and a transport delivers
data that is there in the end, although a poll may find nothing each time in
between. Nothing is assumed of failures: a transport that never reports a dead
peer is a fair behaviour, and `DeadPeerNoticed` rests on the timer alone.
*Server*: a thread past registration goes on, and one whose engine has returned
releases; clients owe nothing, and engines are not assumed to return. *Dashboard*:
the loop takes the step it has; clients owe nothing, and since the loop reads
without a timeout `EveryRequestAnswered` has to exclude the one that stays silent.

### What the refutations say

* `pool_aba` (pool.rs:79): `allocate()` compares only the head index, so with
  two allocating threads it can install a stale link and hand a used slot out.
* `engine_gap` (engine.rs:185): the Logon read outside the loop is not counted,
  the client's next message looks like a gap, nothing asks for a resend and
  nothing leaves `Resending`; heartbeats stop and the client disconnects.
* `server_leak` (server.rs:221): an engine that fails to start leaves
  `handle_connection` by `?`, past the only release; where `start()` says "Release
  connection from pool (best effort" there is no code. The slot and its CompID stay
  taken. A panic of the application does the same. That nothing else leaks is proved
  (`OnlyFailuresLeak`).
* `telemetry_clock` (timestamp.rs:46): a `System` clock is `SystemTime`, not the `Instant`
  timestamp.rs:17 names nor monotonic as the test at timestamp.rs:388 has it, so setting the
  system clock during a measurement makes the latency wrong.
* `journal_reopen` (journal.rs:64): a reopened journal writes over its oldest
  entries, and there is no scan.

Seen with other constants and kept as hazards instead of runs: two ends whose intervals
are as far apart as the grace or farther (30 s and 60 s, the values of
SPECIFICATION.md:408 and :425, against 5 s) drop a live session as soon as it is idle:
each end counts with its own interval, the probe goes out as a Heartbeat (engine.rs:197)
that the peer need not answer, and the next iteration disconnects. `OrderlyEnd` is
therefore about `CompatibleIntervals`, and with intervals of 1 and 2 ticks and a grace
of 1 TLC shows the drop; end of stream is `Ok(0)` to `run_loop` (engine.rs:217) and only
an Active session has a timeout, so a client whose Logon is refused never returns,
against client.rs:66; `allocate()` on a pool of capacity 0 panics (`NoPanic` needs
`Capacity > 0`); a stop asked for by the application of a server's engine can be lost,
as a consequence of `engine_gap`; `ElectionSafety` fails with five nodes and `Duplicates
= TRUE`, because `receive_vote` counts answers and not voters, and with three once a
restarted node has forgotten its vote; a service that makes a new `AeronTransport` on
the same stream gets a new endpoint id and is handed the frames it sent under the old
one (transport_aeron.rs:112); `run_acceptor()` on a byte stream stops if the first
`recv()` ends inside the Logon (engine.rs:328; the documentation at engine.rs:177 gives
it Aeron frames only); a thread that loses the processor for the whole calibration gets
a clock that stands still (timestamp.rs:221); a snapshot is not the "point-in-time"
picture metrics.rs:425 speaks of.

## 4. Proofs

Each is for every value of the constants its module allows (`...Assumption`).

* **BufferPoolProofs** (`PoolTypeCorrect`, `PoolSafety`, `PoolStaysIntact`,
  `PoolRefinement`): capacity above zero, any set of threads, one of which
  allocates; spurious failures allowed. `UniqueHolder` is not inductive: a push or
  pop is safe only because the list from `free_head` is a chain without repetition
  through exactly the free slots, and because a link read by the one allocator is
  still the link of the slot it saw at the head (`LocalsAgree`). `ChainOver` states
  the chain by positions, so that no induction over the list is needed; `ChainFits`
  counts it, which is what `PoolIntact` adds. The refinement maps the free set to the
  slots nobody holds: a successful exchange is the abstract step, everything else
  stutters.
* **FixServerProofs**, of the acceptor (`AcceptorTypeCorrect`, `AcceptorSafety`,
  `AcceptorOnePerCompId`, `AcceptorRefinement`): every pool size, whitelist and order of
  calls. Uniqueness of ids needs every id to be below `next_conn_id`; uniqueness of
  CompIDs needs free slots to name none. The refinement of `ConnectionRegistry` forgets
  the slots: the registry's connections are the contents of the slots in use, and each
  method is one step of the registry or, for a stale id, none.
* **FixServerProofs**, of the server (`ServerInvariant`, `HandlersKeepTheirSlots`,
  `OnlyFailuresLeak`, `ServerPoolSafety`, `ServerRefinement`): any set of connection
  threads around the pool. `ServerInv` adds to the acceptor's invariant that two threads
  never have the same id and that a slot in use is some thread's or that of a failed
  start or a panic, which keeps it for good (`OnlyFailuresLeak`: these and nothing
  else); the pool's own theorems and its refinement then carry over to the server.
* **JournalProofs** (`JournalTypeCorrect`, `JournalRetains`, `JournalDurable`,
  `JournalKeepsLatest`): every file, page and message size. The invariant says that
  every word of a kept entry is in the mapping, and of a durable one on the disk; and
  that the entry under way overlaps no kept one, has its header in place, then its
  body. That what is stored is what `read_entry` returns is a lemma of its own. For
  the latest entry `LatestAt` adds where it lies: until the next append begins it ends
  where that one will write, so the next one, wrapped around or not, misses it if three
  of the longest fit in the file (`WrapMissesLatest`).
* **ClusterProofs** (`ClusterElectionSafety`, `ClusterTypeCorrect`,
  `ClusterTermsMonotone`, `ClusterLogOrdered`, `ClusterTableFollowsLog`): any finite
  cluster, every order of delays, losses and restarts. `ElectionSafety` is for answers
  delivered at most once and for the terms of which no vote was forgotten: a leader has
  a majority of ballots; a granting answer in flight stands for a ballot not yet
  counted; a node remembers its vote in such a term (`Remembered`), gives no second one
  and none above its own term; two majorities meet. The others need neither condition.
  The invariant of replication (`RInv`) bounds commit and applied positions by the log
  and ties the table to the applied entries; elections leave all of it alone.
* **FixEngineProofs** (`EngineInvariant`, `EngineTypeCorrect`, `EngineInStep`,
  `EngineCallbackInSession`, `EngineLogoutIsLast`, `EngineOrderlyEnd`): every two
  heartbeat intervals, one for each end, and every grace above zero, batch size, set of
  modes and application, faults included. An application may send any type but a Logout
  (`AppAssumption`: it ends a session with `request_stop()`), and what it sends parses
  unless FixServer's engine is the receiver (`ParsableAssumption`). Whatever an engine
  does in one step is to its peer a `Turn`: some messages are taken off the front of
  what is on its way to the engine, some are put at the end of what is on its way to the
  peer. There is one lemma per action that it is a turn, and two that a turn keeps the
  numbers (`InSequence`) and the order Logon first, Logout last (`Protocol`).
  `OrderlyEnd` is not inductive even so: that a session is not dropped while the peer
  lives needs a bound on four clocks at once (`Timely`): each engine has sent less than
  an interval ago, or is about to, and with nothing on its way it has heard of the other
  no longer ago than the other last sent. From there `CompatibleIntervals` gives the
  rest: a peer that sends within its own interval is heard before the other's interval
  and grace are over.
* **FixtLinkProofs** (`LinkInvariant`, `LinkTypeCorrect`, `LinkFramesOnce`,
  `LinkVersionsAgree`, `LinkRateBounded`): any number of connections, of versions and of
  attempts to reconnect, limited or, with `max_reconnect_attempts` = 0, not. `BusOK`
  says of the shared queue that the frames of each sender stand in it in the order sent,
  from the first one not taken on (`InTurn`), and that each carries the version its
  sender means (`Honest`); `Sound` that what was negotiated belongs to the connection
  that is up. That `recv()` takes the oldest frame of the other endpoint is the choice
  of a least position, with the library's theorem on well-founded minima. `RateBounded`
  speaks of the ages of the messages let through, newest first, and is not inductive:
  `InWindows` adds that no more than the session's count are younger than its window,
  and no more than a further window's worth younger than a second.
* **TelemetryProofs**. `TimestampsAreCivil`: whatever the first year and with no last
  day. `CalendarInv` ties the day to the date by a formula (`DaysTo`); that midnight
  keeps it is a matter of month lengths, and that `civil_from_days` inverts it is shown
  division by division: the era of 400 years, the year of the era, the month counted
  from March. `LatenciesTrue`: any frequency, calibration period, delays between the
  readings and settings of the clock, while the system clock is in the first half of
  what u64 nanoseconds express (until 2262; it may be set to before the epoch, which the
  code reads as the epoch) and the counter does not wrap. It is about the counter's
  latencies alone; of the system clock's it is refuted. `ClockInv` keeps how the
  readings of the calibration lie to each other, that `start` is what the clock showed
  when the timer began, and that the wrapped offset is that of some system time
  (`CalInv`, `TrackerInv`); from there it is arithmetic of quotients. Where a clock is
  calibrated so slow that it counts the other half, too, it may wrap, and `LatencyTrue`
  says so (`Overrun`); the instance of the run never gets there. `RendersConsistently`:
  any metrics, any number of updates. `RenderInv` says of each summary that it is ahead,
  passed, or being read under its lock with the figures so far those of the histogram as
  it still is; so all six are of one histogram (`OneMoment`), and that the figures of
  one histogram agree follows from its running totals. Facts about all totals are proved
  by taking the least value at which one fails, with the theorem on well-founded minima.

Only model-checked:

* all liveness (`LockFree`, `StopPropagates`, `ClientStopPropagates`, `DeadPeerNoticed`,
  `SlotComesBack`, `EveryRequestAnswered`): the prover does not handle fairness;
* everything about Framing (`Framed`, `FieldsKept`, `GroupsKept`), whose codec is written
  with recursive operators;
* `AnswerIsTrue`, which says what a fold over the characters of a JSON text gives when it
  is read back: an induction over the text.

## 5. Not modelled, and the plan

PROJECT.json names every component and its status. Left out for good: the
demonstration and benchmark programs (callers that print), the dictionary and its
compiler (static tables, and an XML reader that prints Rust), simd.rs (computes what
the scalar scan does, and only the demo calls it), the DPDK transport (a stub that
transmits nothing). Of FixEngine, `initiate_logout` is left out, which can only be called
while the loop does not run; of the transports, the configuration builders. A stated
checksum above 255, which the serializer never writes, wraps in a release build and
panics in a debug build (checksum.rs:79): `validate` wraps in the model, and the runs
do not send one.

What is left: the codec with recursive functions in place of recursive operators, so
that lengths and checksums of what `Serialize` writes can be proved about; of the
dashboard, that an answer is of the board as it is when it is written, apart from its
text; and a run of its own for endpoints that join and leave an Aeron stream under new ids.
