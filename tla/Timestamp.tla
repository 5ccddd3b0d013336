----------------------------- MODULE Timestamp ------------------------------
(***************************************************************************)
(* timestamp.rs: calendar dates and FIX timestamps, the conversion of CPU  *)
(* ticks to nanoseconds, and the clocks built on it.                       *)
(*                                                                         *)
(* HrTimestamp.nanos is a u64, which TLC's integers cannot hold.  Where it *)
(* is broken into a date it is given as [day, sec, frac], the quotients    *)
(* and remainders the code takes of it; where clocks compute with it, it   *)
(* is a small number, wrapping at Modulus for 2^64.                        *)
(***************************************************************************)
EXTENDS Integers, Sequences

CONSTANTS
    NanosPerSec,    \* for the 1_000_000_000 of the tick conversions
    Modulus         \* for 2^64

ASSUME TimestampAssumption == NanosPerSec \in Nat \ {0} /\ Modulus \in Nat \ {0}

TimestampSource == {"System", "Tsc", "Hardware", "Ptp"}

-----------------------------------------------------------------------------
(* Dates                                                                   *)

\* Mutated form: the correction for the centuries that are not leap is missing.
year_without_centuries(doe) == (doe - doe \div 1460 - doe \div 146096) \div 365

\* The year of the era of 400 years, from its day.
year_of_era(doe) == (doe - doe \div 1460 + doe \div 36524 - doe \div 146096) \div 365

\* civil_from_days; days since the epoch are never negative.
civil_from_days(days) ==
    LET z == days + 719468
        era == z \div 146097
        doe == z - era * 146097
        yoe == year_of_era(doe)
        doy == doe - (365 * yoe + yoe \div 4 - yoe \div 100)
        mp == (5 * doy + 2) \div 153
        m == IF mp < 10 THEN mp + 3 ELSE mp - 9
    IN [ y |-> yoe + era * 400 + (IF m <= 2 THEN 1 ELSE 0), m |-> m,
         d |-> doy - (153 * mp + 2) \div 5 + 1 ]

to_utc_components(t) ==
    [ date |-> civil_from_days(t.day),
      h |-> t.sec \div 3600, mi |-> (t.sec % 3600) \div 60, s |-> t.sec % 60 ]

\* write_digits2 to write_digits9: the first digit takes whatever is left.
write_digits(n, val) ==
    [i \in 1 .. n |-> IF i = 1 THEN val \div 10 ^ (n - 1) ELSE (val \div 10 ^ (n - i)) % 10]

write_date(c) == write_digits(4, c.y) \o write_digits(2, c.m) \o write_digits(2, c.d)

write_time(u) ==
    write_digits(2, u.h) \o <<":">> \o write_digits(2, u.mi) \o <<":">> \o write_digits(2, u.s)

\* The part the three precisions share, up to the fraction.
Stamp(t) ==
    LET u == to_utc_components(t) IN
    write_date(u.date) \o <<"-">> \o write_time(u) \o <<".">>

to_fix_timestamp(t) == Stamp(t) \o write_digits(3, t.frac \div 1000000)
to_fix_timestamp_us(t) == Stamp(t) \o write_digits(6, t.frac \div 1000)
to_fix_timestamp_ns(t) == Stamp(t) \o write_digits(9, t.frac)

-----------------------------------------------------------------------------
(* Clocks                                                                  *)

elapsed_ns(end, since) == IF end > since THEN end - since ELSE 0

tsc_to_nanos(ticks, freq_hz) ==
    IF freq_hz = 0 THEN 0 ELSE ((ticks * NanosPerSec) \div freq_hz) % Modulus

\* The end of calibrate_tsc: ticks counted over elapsed nanoseconds, in Hz.
Frequency(tsc0, tsc1, elapsed) ==
    IF elapsed = 0 THEN NanosPerSec
    ELSE (((tsc1 - tsc0) % Modulus) * NanosPerSec) \div elapsed

\* The end of HrClock::new: the offset wraps when the counter is ahead of the wall.
NewClock(source, freq, tsc_now, wall) ==
    [ source |-> source, freq |-> freq,
      offset |-> IF source = "Tsc" THEN (wall - tsc_to_nanos(tsc_now, freq)) % Modulus ELSE 0 ]

\* HrTimestamp::now: for every source but the counter there is only the system
\* clock to ask.
HrTimestamp_now(source, tsc, wall) == IF source = "Tsc" THEN tsc ELSE wall

\* HrClock::now at a tick count and a system time.
HrClock_now(clock, tsc, wall) ==
    IF clock.source = "Tsc"
    THEN (tsc_to_nanos(tsc, clock.freq) + clock.offset) % Modulus
    ELSE HrTimestamp_now(clock.source, tsc, wall)
=============================================================================
