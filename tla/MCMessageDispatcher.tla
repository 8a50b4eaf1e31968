-------------------------- MODULE MCMessageDispatcher --------------------------
(***************************************************************************)
(* MessageDispatcher for TLC.  The dispatcher runs until it is told to     *)
(* exit and then stops for good, so the absence of deadlock is stated by   *)
(* EventuallyExits and not by TLC's deadlock check.                        *)
(***************************************************************************)
EXTENDS MessageDispatcher
===============================================================================
