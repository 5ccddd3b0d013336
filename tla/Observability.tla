--------------------------- MODULE Observability ----------------------------
(***************************************************************************)
(* What an operator sees of the engine: a program that times its own work  *)
(* and is scraped (Telemetry), or bin/dashboard.rs, a program of its own   *)
(* that serves health and sessions over HTTP (Dashboard).  The crate links *)
(* the two nowhere.                                                        *)
(***************************************************************************)
EXTENDS Telemetry, Dashboard

Program == {"engine", "dashboard"}

VARIABLE program    \* the one that runs

observability_vars == <<program, vars, dashboard_vars>>

\* Of the choices the program that does not run would make there is one.
ObservabilityInit ==
    /\ program \in Program
    /\ Init /\ DashboardInit
    /\ program # "dashboard" => config = CHOOSE c \in Configs : TRUE
    /\ program # "engine" => date.y = Min(FirstYears)

OnEngine ==
    /\ program = "engine"
    /\ Next
    /\ UNCHANGED <<program, dashboard_vars>>

InDashboard(A) ==
    /\ program = "dashboard"
    /\ A
    /\ UNCHANGED <<program, vars>>

ObservabilityNext == OnEngine \/ InDashboard(DashboardNext)

\* The dashboard's loop takes its next step whenever it has one to take.
ObservabilitySpec ==
    /\ ObservabilityInit
    /\ [][ObservabilityNext]_observability_vars
    /\ WF_observability_vars(InDashboard(Serve))
=============================================================================
