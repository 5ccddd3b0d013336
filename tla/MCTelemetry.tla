---------------------------- MODULE MCTelemetry -----------------------------
(* Values of the constants of Telemetry that a configuration cannot write. *)
EXTENDS Telemetry

Years == 1970 .. 2554

\* The last instant of a day, and one with zeros before and between its digits.
Instants ==
    { [sec |-> 86399, frac |-> 999999999],
      [sec |-> 36061, frac |-> 120045067] }

TwoCounters == <<"messages_parsed", "messages_sent">>
OneGauge == <<"active_sessions">>
OneHistogram == <<"parse_latency_ns">>

\* The histogram lies between two counters, as journal_write_latency_ns does.
InOrder == <<"messages_parsed", "active_sessions", "parse_latency_ns", "messages_sent">>

BackAndForth == {-3, 2}

\* Calibration takes time; with metrics, the order of updates and readings counts.
Time == [s \in Sources |-> IF s = "Tsc" THEN 8 ELSE 1]

Updates == [s \in Sources |-> IF s = "System" THEN 2 ELSE 0]
=============================================================================
