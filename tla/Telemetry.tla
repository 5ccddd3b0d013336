----------------------------- MODULE Telemetry ------------------------------
(***************************************************************************)
(* A program that measures itself, as the README of the repository shows:  *)
(* it makes an HrClock when it starts, times its work with LatencyTracker, *)
(* records what it measured in EngineMetrics, and is scraped.  True time   *)
(* passes between any two readings of a clock, and the system clock may be *)
(* set forwards or backwards at any moment.                                *)
(*                                                                         *)
(* Until the program starts only days pass, so that the calendar is seen   *)
(* on every day that nanos can express.                                    *)
(***************************************************************************)
EXTENDS Timestamp, Metrics

CONSTANTS
    FirstYears,     \* years whose first day is an initial state
    LastDay,        \* bound: the last day that passes
    StartDays,      \* days on which the program may start
    Times,          \* times of the day, [sec, frac], at which timestamps are formatted
    Sources,        \* timestamp sources the program may be configured with
    TscHz,          \* the counter's true frequency, in the scale of NanosPerSec
    TscStart,       \* what the counter shows when the program starts
    WallStart,      \* what the system clock shows then
    CalDuration,    \* cal_duration
    WallSteps,      \* how the system clock may be set
    MaxWallSteps,   \* bound: how often
    MaxTime,        \* bound: nanoseconds the program runs with each source
    MaxUpdates      \* bound: updates of metrics with each source

\* The ticks of the counter in t nanoseconds.
Ticks(t) == (t * TscHz) \div NanosPerSec

\* The numbers of the clocks are u64: the program ends before the counter wraps, and
\* while the system clock, however far it is set forwards, is in the first half of
\* what u64 nanoseconds can express.
ASSUME TelemetryAssumption ==
    /\ \A y \in FirstYears : y \in Nat /\ y >= 1970
    /\ Times \subseteq [sec : Nat, frac : Nat]
    /\ Sources \subseteq TimestampSource
    /\ TscHz \in Nat \ {0} /\ CalDuration \in Nat \ {0}
    /\ TscStart \in Nat /\ WallStart \in Int /\ WallSteps \subseteq Int /\ MaxWallSteps \in Nat
    /\ MaxTime \in [Sources -> Nat] /\ MaxUpdates \in [Sources -> Nat]
    /\ \A s \in Sources : TscStart + Ticks(MaxTime[s]) < Modulus
    /\ \A s \in Sources : \A w \in WallSteps \union {0} :
          WallStart + MaxWallSteps * w + MaxTime[s] < Modulus \div 2
    /\ Modulus >= 2

VARIABLES
    day, date,      \* today, counted from the epoch and as a calendar has it
    pc,             \* off, the readings of HrClock::new in turn, then up
    source,
    now,            \* nanoseconds since the program started
    moved,          \* by how much the system clock has been set since
    steps,          \* how often
    cal,            \* the readings of calibrate_tsc and HrClock::new so far
    clock,
    tracker,        \* the LatencyTracker of the work under way, and its result
    updates         \* updates of metrics so far

calendar == <<day, date>>
time == <<now, moved, steps>>
process == <<pc, source, cal, clock, tracker>>
vars == <<calendar, time, process, updates, mvars>>

-----------------------------------------------------------------------------
(* The calendar                                                            *)

IsLeap(y) == y % 4 = 0 /\ (y % 100 # 0 \/ y % 400 = 0)

DaysIn(y, m) ==
    IF m = 2 THEN (IF IsLeap(y) THEN 29 ELSE 28)
    ELSE IF m \in {4, 6, 9, 11} THEN 30 ELSE 31

\* The days before the first day of year y.
DaysBefore(y) == 365 * (y - 1970) + Cardinality({x \in 1970 .. y - 1 : IsLeap(x)})

Tomorrow(c) ==
    IF c.d < DaysIn(c.y, c.m) THEN [c EXCEPT !.d = @ + 1]
    ELSE IF c.m < 12 THEN [y |-> c.y, m |-> c.m + 1, d |-> 1]
    ELSE [y |-> c.y + 1, m |-> 1, d |-> 1]

Midnight ==
    /\ pc = "off" /\ day < LastDay
    /\ day' = day + 1
    /\ date' = Tomorrow(date)
    /\ UNCHANGED <<time, process, updates, mvars>>

-----------------------------------------------------------------------------
(* The clocks of the machine                                               *)

\* read_tsc
read_tsc == TscStart + Ticks(now)

\* SystemTime::now() since the epoch: a clock set to before it reads as the epoch.
Wall == Max({0, WallStart + now + moved})

Running == pc # "off"

Advance ==
    /\ Running /\ now < MaxTime[source]
    /\ now' = now + 1
    /\ UNCHANGED <<calendar, moved, steps, process, updates, mvars>>

SetWall(s) ==
    /\ Running /\ steps < MaxWallSteps
    /\ moved' = moved + s
    /\ steps' = steps + 1
    /\ UNCHANGED <<calendar, now, process, updates, mvars>>

-----------------------------------------------------------------------------
(* HrClock::new                                                            *)

NoTracker == [at |-> "idle", start |-> 0, began |-> 0, got |-> 0, true |-> 0]
NoClock == [source |-> "System", freq |-> 0, offset |-> 0]

\* t0 is read first: it is the start of the program's time.
NoReadings == [tsc0 |-> 0, tsc1 |-> 0, elapsed |-> 0, tsc_now |-> 0, counted |-> 0]

Init ==
    /\ \E y \in FirstYears : day = DaysBefore(y) /\ date = [y |-> y, m |-> 1, d |-> 1]
    /\ pc = "off"
    /\ source = "System"
    /\ now = 0 /\ moved = 0 /\ steps = 0
    /\ cal = NoReadings
    /\ clock = NoClock
    /\ tracker = NoTracker
    /\ updates = 0
    /\ MetricsInit

HrClock_new ==
    /\ pc = "off" /\ day \in StartDays
    /\ source' \in Sources
    /\ pc' = IF source' = "Tsc" THEN "tsc0" ELSE "up"
    /\ clock' = NewClock(source', 0, 0, 0)
    /\ UNCHANGED <<calendar, time, cal, tracker, updates, mvars>>

\* One reading and where it leads; counted is the time the ticks were counted over.
Reads(at, next, c) ==
    /\ pc = at
    /\ cal' = c
    /\ pc' = next
    /\ UNCHANGED <<calendar, time, source, clock, tracker, updates, mvars>>

ReadTsc0 == Reads("tsc0", "tsc1", [cal EXCEPT !.tsc0 = read_tsc, !.counted = now])

\* The spin loop ends once cal_duration is over, and the counter is read.
ReadTsc1 ==
    /\ now >= CalDuration
    /\ Reads("tsc1", "elapsed", [cal EXCEPT !.tsc1 = read_tsc, !.counted = now - @])

\* Mutated form: the time is taken before the counter.
ReadElapsedFirst ==
    Reads("elapsed", "tsc_now", [cal EXCEPT !.elapsed = CalDuration])

\* t0.elapsed()
ReadElapsed == Reads("elapsed", "tsc_now", [cal EXCEPT !.elapsed = now])

ReadTscNow == Reads("tsc_now", "wall", [cal EXCEPT !.tsc_now = read_tsc])

calibrate_tsc == Frequency(cal.tsc0, cal.tsc1, cal.elapsed)

ReadWall ==
    /\ pc = "wall"
    /\ clock' = NewClock(source, calibrate_tsc, cal.tsc_now, Wall)
    /\ pc' = "up"
    /\ UNCHANGED <<calendar, time, source, cal, tracker, updates, mvars>>

Calibrate == ReadTsc0 \/ ReadTsc1 \/ ReadElapsed \/ ReadTscNow \/ ReadWall

-----------------------------------------------------------------------------
(* Timed work                                                              *)

Track(t) ==
    /\ tracker' = t
    /\ UNCHANGED <<calendar, time, pc, source, cal, clock>>

\* LatencyTracker::start
StartTimer ==
    /\ pc = "up" /\ tracker.at = "idle"
    /\ Track([NoTracker EXCEPT !.at = "timing", !.start = HrClock_now(clock, read_tsc, Wall),
                               !.began = now])
    /\ UNCHANGED <<updates, mvars>>

\* LatencyTracker::stop
StopTimer ==
    /\ tracker.at = "timing"
    /\ Track([tracker EXCEPT !.at = "timed", !.true = now - tracker.began,
                             !.got = elapsed_ns(HrClock_now(clock, read_tsc, Wall), tracker.start)])
    /\ UNCHANGED <<updates, mvars>>

\* The result goes into a histogram, or nowhere.
RecordLatency ==
    /\ tracker.at = "timed" /\ updates < MaxUpdates[source]
    /\ updates' = updates + 1
    /\ \E h \in ToSet(Histograms) : record(h, tracker.got)
    /\ Track(NoTracker)

DropTimer ==
    /\ tracker.at = "timed"
    /\ Track(NoTracker)
    /\ UNCHANGED <<updates, mvars>>

-----------------------------------------------------------------------------
(* Other updates, and the scraper                                          *)

\* A thread of the program updates a metric.
Update ==
    /\ pc = "up" /\ updates < MaxUpdates[source]
    /\ updates' = updates + 1
    /\ \/ \E c \in ToSet(Counters) : (\E n \in 1 .. 2 : inc_by(c, n)) \/ counter_reset(c)
       \/ \E g \in ToSet(Gauges) : gauge_inc(g) \/ gauge_dec(g) \/ gauge_set(g, 2)
       \/ \E h \in ToSet(Histograms) : histogram_reset(h)
    /\ UNCHANGED <<calendar, time, process>>

Scrape ==
    /\ pc = "up" /\ MaxUpdates[source] > 0
    /\ snapshot \/ render_prometheus \/ ScrapeStep
    /\ UNCHANGED <<calendar, time, process, updates>>

Next ==
    \/ Midnight
    \/ Advance
    \/ \E s \in WallSteps : SetWall(s)
    \/ HrClock_new
    \/ Calibrate
    \/ StartTimer \/ StopTimer \/ RecordLatency \/ DropTimer
    \/ Update
    \/ Scrape

Spec == Init /\ [][Next]_vars

-----------------------------------------------------------------------------
(* Properties                                                              *)

\* The number written in two characters from the i-th on, and in three.
Two(s, i) == 10 * s[i] + s[i + 1]
Three(s, i) == 100 * s[i] + Two(s, i + 1)

\* A timestamp formatted today, read back, is today's date in the calendar and the
\* time of the day it was taken at, and the coarser precisions only cut digits off.
TimestampIsCivil ==
    \A t \in Times :
        LET at == [day |-> day, sec |-> t.sec, frac |-> t.frac]
            s == to_fix_timestamp_ns(at)
        IN /\ [y |-> 100 * Two(s, 1) + Two(s, 3), m |-> Two(s, 5), d |-> Two(s, 7)] = date
           /\ Two(s, 13) < 60 /\ Two(s, 16) < 60
           /\ 3600 * Two(s, 10) + 60 * Two(s, 13) + Two(s, 16) = t.sec
           /\ 1000000 * Three(s, 19) + 1000 * Three(s, 22) + Three(s, 25) = t.frac
           /\ to_fix_timestamp_us(at) = SubSeq(s, 1, 24)
           /\ to_fix_timestamp(at) = SubSeq(s, 1, 21)

\* The nanoseconds of a tick, rounded up.
Granule == (NanosPerSec + TscHz - 1) \div TscHz

\* The clock was calibrated so much too slow that by t it has counted the other half
\* of what u64 nanoseconds can express, and may have wrapped.
Overrun(t) ==
    clock.freq > 0 /\ 2 * (Ticks(t) * NanosPerSec + clock.freq) > Modulus * clock.freq

\* A latency measured with the counter falls short of the time that passed by a tick
\* at most, and exceeds it at most in the proportion of the calibration period to the
\* part of it that the ticks were counted over, but for a tick at either end and the
\* rounding of the frequency; setting the system clock has no effect.  Only a thread
\* that loses nearly all of the period while it counts may count no tick a second at
\* all, and then its clock stands still; or so few that its clock overruns.
LatencyTrue ==
    tracker.at = "timed" /\ source = "Tsc" =>
        \/ /\ tracker.got + Granule >= tracker.true
           /\ tracker.got * (cal.counted * TscHz - cal.elapsed - NanosPerSec)
                 <= cal.elapsed * ((tracker.true + 1) * TscHz + NanosPerSec)
        \/ /\ cal.counted * TscHz < cal.elapsed + NanosPerSec
           /\ tracker.got = 0
        \/ Overrun(tracker.began + tracker.true)

\* What timestamp.rs:17 says of TimestampSource::System, "System clock
\* (std::time::Instant)": no setting of the system clock reaches a latency measured
\* with it.  HrTimestamp::now reads SystemTime.
SystemLatencyTrue ==
    tracker.at = "timed" /\ source = "System" => tracker.got = tracker.true
=============================================================================
