--------------------------- MODULE MCProcessManager ---------------------------
(***************************************************************************)
(* Two processes of 2 MB each on 3 MB, so that the second reservation is   *)
(* cut short; two callers.                                                 *)
(***************************************************************************)
EXTENDS ProcessManager

CONSTANTS p1, p2, c1, c2

MCProcs == {p1, p2}
MCCallers == {c1, c2}
==============================================================================
