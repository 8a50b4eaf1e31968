--------------------------- MODULE MCThreadsafeQueue ---------------------------
(***************************************************************************)
(* ThreadsafeQueue for TLC: two producers, two consumers that may or may   *)
(* not use a timeout, one caller of waitUntilEmpty, one owner.             *)
(***************************************************************************)
EXTENDS ThreadsafeQueue
===============================================================================
