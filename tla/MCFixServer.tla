---------------------------- MODULE MCFixServer -----------------------------
(* Instances of FixServer for TLC: the configuration gives the constants.  *)
EXTENDS FixServer
=============================================================================
