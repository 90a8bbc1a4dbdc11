------------------------- MODULE MCStopMonitor -------------------------
(* Values for the constants of StopMonitor come from the configurations. *)
EXTENDS StopMonitor
=======================================================================
