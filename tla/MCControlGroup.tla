---------------------------- MODULE MCControlGroup ----------------------------
(* Two processes that take one unit of memory each of three. *)
EXTENDS ControlGroup

MCAssigned == [p \in 1 .. 2 |-> 1]
=============================================================================
