---------------------------- MODULE MCMrmMonitor ----------------------------
(* Model-checking instance of MrmMonitor: half-second clock steps, a      *)
(* three-second horizon, two subscriber channels and one server restart.  *)
EXTENDS MrmMonitor

CONSTANTS c1, c2

MCChans == {c1, c2}
=============================================================================
