--------------------------- MODULE MCCompEnvironment ---------------------------
(***************************************************************************)
(* CompEnvironment for TLC.  A process that has returned takes no step, so *)
(* deadlock is not checked; StopEndsDispatching covers the hangs.          *)
(***************************************************************************)
EXTENDS CompEnvironment
===============================================================================
