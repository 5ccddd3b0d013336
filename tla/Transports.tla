----------------------------- MODULE Transports -----------------------------
(***************************************************************************)
(* build_transport of transport.rs: a service is configured for Aeron,     *)
(* whose recv() hands over whole frames (FixtLink), or for kernel TCP,     *)
(* whose recv() hands over any part of a stream of bytes (Framing).  The   *)
(* other modes are errors of build_transport.                              *)
(***************************************************************************)
EXTENDS FixtLink, Framing

TransportMode == {"Aeron", "KernelTcp"}

VARIABLE mode       \* TransportConfig.mode

transport_vars == <<mode, vars, framing_vars>>

TransportsInit == mode \in TransportMode /\ Init /\ FramingInit

OnAeron ==
    /\ mode = "Aeron"
    /\ Next
    /\ UNCHANGED <<mode, framing_vars>>

OnKernelTcp ==
    /\ mode = "KernelTcp"
    /\ FramingNext
    /\ UNCHANGED <<mode, vars>>

TransportsNext == OnAeron \/ OnKernelTcp

TransportsSpec == TransportsInit /\ [][TransportsNext]_transport_vars
=============================================================================
