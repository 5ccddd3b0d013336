------------------------------ MODULE Metrics -------------------------------
(***************************************************************************)
(* metrics.rs: counters, gauges and latency histograms that threads update *)
(* while a scraper reads them, with snapshot() or render_prometheus().     *)
(* A counter or a gauge is one atomic word; a histogram is behind a mutex, *)
(* which render() keeps for all the lines of one summary and percentile()  *)
(* takes for one value.                                                    *)
(***************************************************************************)
EXTENDS Integers, Sequences, FiniteSetsExt, SequencesExt

CONSTANTS
    Counters,       \* the counters, in the order snapshot() reads them
    Gauges,         \* the gauges, likewise
    Histograms,     \* the histograms, likewise
    RenderOrder,    \* all of them, in the order render_prometheus() writes them
    High            \* max_value_ns

\* EngineMetrics names each of its metrics once.
ASSUME MetricsAssumption ==
    /\ High \in Nat
    /\ Counters \in Seq(STRING) /\ Gauges \in Seq(STRING) /\ Histograms \in Seq(STRING)
    /\ RenderOrder \in Seq(STRING)
    /\ \A i, j \in 1 .. Len(RenderOrder) : RenderOrder[i] = RenderOrder[j] => i = j

VARIABLES
    counter,        \* the AtomicU64 of each counter
    gauge,          \* the AtomicI64 of each gauge
    hist,           \* hist[h][v]: how often h has recorded v since its reset
    locked,         \* histograms whose mutex the scraper holds
    plan,           \* what the scraper has still to read, part by part, in order
    out             \* what it has read: its snapshot or its rendered text

mvars == <<counter, gauge, hist, locked, plan, out>>

\* Counter::new, Gauge::new, LatencyHistogram::new
NewCounters == [c \in ToSet(Counters) |-> 0]
NewGauges == [g \in ToSet(Gauges) |-> 0]
Empty == [v \in 0 .. High |-> 0]

MetricsInit ==
    /\ counter = NewCounters
    /\ gauge = NewGauges
    /\ hist = [h \in ToSet(Histograms) |-> Empty]
    /\ locked = {}
    /\ plan = <<>>
    /\ out = <<>>

-----------------------------------------------------------------------------
(* The HDR histogram                                                       *)

\* The running totals of w, value by value.
Totals(w) ==
    LET total[v \in 0 .. High] == IF v = 0 THEN w[0] ELSE total[v - 1] + w[v]
    IN total

Len0(h) == Totals(h)[High]

\* The rank of quantile q, in tenths of a percent, among n values.
Rank(q, n) == Max({1, (q * n + 999) \div 1000})

\* value_at_percentile: the least value up to which as many are counted as q takes.
value_at_percentile(h, q) ==
    IF Len0(h) = 0 THEN 0
    ELSE Min({v \in 0 .. High : Totals(h)[v] >= Rank(q, Len0(h))})

\* Each recorded value as often as it was recorded.
SumOf(h) == Totals([v \in 0 .. High |-> v * h[v]])[High]

-----------------------------------------------------------------------------
(* Readings: of what, and which figure of it                               *)

\* The percentiles that are read, in tenths of a percent.
Quantile == [p50 |-> 500, p90 |-> 900, p99 |-> 990, p999 |-> 999]

Reading(of, what) == [of |-> of, what |-> what]

Load(name) == IF name \in DOMAIN counter THEN counter[name] ELSE gauge[name]

\* A figure of a histogram.
Figure(h, what) ==
    IF what = "count" THEN Len0(h)
    ELSE IF what = "sum" THEN SumOf(h)
    ELSE value_at_percentile(h, Quantile[what])

Value(r) == IF r.what = "get" THEN Load(r.of) ELSE Figure(hist[r.of], r.what)

\* get(), or render of a counter or a gauge
Line(name) == <<Reading(name, "get")>>

Lines(names) == [i \in 1 .. Len(names) |-> Line(names[i])]

\* The fields of MetricsSnapshot in the order snapshot() fills them.
SnapshotPlan ==
    Lines(Counters) \o Lines(Gauges)
        \o [i \in 1 .. Len(Histograms) |->
              <<Reading(Histograms[i], "p50"), Reading(Histograms[i], "p99")>>]

\* LatencyHistogram::render: one lock, six figures.
Summary(h) ==
    << Reading(h, "lock"), Reading(h, "p50"), Reading(h, "p90"), Reading(h, "p99"),
       Reading(h, "p999"), Reading(h, "count"), Reading(h, "sum"), Reading(h, "unlock") >>

RenderPlan ==
    [i \in 1 .. Len(RenderOrder) |->
        IF RenderOrder[i] \in ToSet(Histograms)
        THEN Summary(RenderOrder[i])
        ELSE Line(RenderOrder[i])]

-----------------------------------------------------------------------------
(* Updates.  Each atomic word changes in one step; a histogram changes     *)
(* under its lock.                                                         *)

Unlocked(h) == h \notin locked

SetCounter(c, v) ==
    /\ counter' = [counter EXCEPT ![c] = v]
    /\ UNCHANGED <<gauge, hist, locked, plan, out>>

\* inc_by(n) and inc(), which is inc_by(1).
inc_by(c, n) == SetCounter(c, counter[c] + n)

counter_reset(c) == SetCounter(c, 0)

SetGauge(g, v) ==
    /\ gauge' = [gauge EXCEPT ![g] = v]
    /\ UNCHANGED <<counter, hist, locked, plan, out>>

gauge_inc(g) == SetGauge(g, gauge[g] + 1)
gauge_dec(g) == SetGauge(g, gauge[g] - 1)
gauge_set(g, v) == SetGauge(g, v)

\* record: a value beyond the range is recorded as the largest.
record(h, value) ==
    /\ Unlocked(h)
    /\ hist' = [hist EXCEPT ![h][Min({value, High})] = @ + 1]
    /\ UNCHANGED <<counter, gauge, locked, plan, out>>

histogram_reset(h) ==
    /\ Unlocked(h)
    /\ hist' = [hist EXCEPT ![h] = Empty]
    /\ UNCHANGED <<counter, gauge, locked, plan, out>>

-----------------------------------------------------------------------------
(* The scraper                                                             *)

Begin(p) ==
    /\ plan = <<>>
    /\ plan' = p
    /\ out' = <<>>
    /\ UNCHANGED <<counter, gauge, hist, locked>>

\* What comes next, and what is left after it.
Due == Head(Head(plan))

AfterDue == IF Len(Head(plan)) = 1 THEN Tail(plan) ELSE [plan EXCEPT ![1] = Tail(@)]

snapshot == Begin(SnapshotPlan)
render_prometheus == Begin(RenderPlan)

\* Mutated form: the summary is written without keeping the lock.
TakeLockBriefly ==
    /\ plan # <<>> /\ Due.what = "lock"
    /\ plan' = AfterDue
    /\ UNCHANGED <<counter, gauge, hist, locked, out>>

TakeLock ==
    /\ plan # <<>> /\ Due.what = "lock"
    /\ locked' = locked \union {Due.of}
    /\ plan' = AfterDue
    /\ UNCHANGED <<counter, gauge, hist, out>>

ReleaseLock ==
    /\ plan # <<>> /\ Due.what = "unlock"
    /\ locked' = locked \ {Due.of}
    /\ plan' = AfterDue
    /\ UNCHANGED <<counter, gauge, hist, out>>

\* get(), percentile(), or a figure of a summary.
ReadFigure ==
    /\ plan # <<>> /\ Due.what \notin {"lock", "unlock"}
    /\ out' = Append(out, [of |-> Due, is |-> Value(Due)])
    /\ plan' = AfterDue
    /\ UNCHANGED <<counter, gauge, hist, locked>>

ScrapeStep == TakeLock \/ ReadFigure \/ ReleaseLock

-----------------------------------------------------------------------------
(* Properties                                                              *)

\* The figure `what` of histogram h that the scraper has read.
Read(h, what) == out[CHOOSE i \in 1 .. Len(out) : out[i].of = Reading(h, what)].is

Rendered(h) == \E i \in 1 .. Len(out) : out[i].of = Reading(h, "sum")

\* The lines of one histogram's summary belong together, whatever is recorded or
\* reset while render() runs: the quantiles are in order, none exceeds what was
\* recorded in all, and count values make up the sum, of which one in a thousand may
\* be greater than the largest quantile.
RenderConsistent ==
    \A h \in ToSet(Histograms) : Rendered(h) =>
        /\ Read(h, "p50") <= Read(h, "p90")
        /\ Read(h, "p90") <= Read(h, "p99")
        /\ Read(h, "p99") <= Read(h, "p999")
        /\ Read(h, "p999") <= Read(h, "sum")
        /\ Read(h, "sum") <= Read(h, "count") * Read(h, "p999")
                                + (Read(h, "count") \div 1000) * High
=============================================================================
