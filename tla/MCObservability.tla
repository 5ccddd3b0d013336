-------------------------- MODULE MCObservability ---------------------------
(* Values of the constants of Observability that a configuration cannot    *)
(* write.                                                                  *)
EXTENDS Observability, MCTelemetry

Flags(h, m, s) == [health |-> h, metrics |-> m, sessions |-> s]

\* Endpoints that are enabled, and one that is not.
OneOff == {Flags(TRUE, FALSE, TRUE)}

\* An ordinary name, and one that ends a JSON string if it is not escaped.
SomeIds == {<<"a">>, <<Quote, "a">>}

\* A text that escapes what follows it, and one of control characters.
SomeStates == {<<Backslash>>, <<LineFeed, Control>>}

Unhealthy == {[healthy |-> FALSE, state |-> <<Quote, Backslash>>]}

Get(path) == [method |-> "GET", path |-> path]

\* An endpoint of each kind, one of them off as if it did not exist, and lines that
\* are refused.
SomeRequests ==
    { Get("/health"), Get("/sessions"), Get("/metrics"), Get("/"),
      [method |-> "POST", path |-> "/health"], Blank }
=============================================================================
