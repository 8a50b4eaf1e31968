---------------------------- MODULE MessageChannel ----------------------------
(***************************************************************************)
(* What a queue between two threads promises its callers: a value that was *)
(* accepted is delivered at most once, in the order of acceptance, and     *)
(* nothing is accepted or delivered once the channel has been closed.      *)
(* ThreadsafeQueue, MessageDispatcher and, for each sender,                *)
(* MessageTransport are shown to implement it.                             *)
(***************************************************************************)
EXTENDS Integers, Sequences

CONSTANT Values          \* what the channel carries

VARIABLES accepted,      \* the values accepted so far, oldest first
          delivered,     \* the values handed to a receiver so far
          closed         \* whether the channel has been closed

vars == <<accepted, delivered, closed>>

Init == accepted = <<>> /\ delivered = <<>> /\ closed = FALSE

\* A sender's value is accepted.
Accept(v) ==
    /\ ~closed
    /\ accepted' = Append(accepted, v)
    /\ UNCHANGED <<delivered, closed>>

\* A receiver is given the oldest value not yet delivered.
Deliver ==
    /\ ~closed
    /\ Len(delivered) < Len(accepted)
    /\ delivered' = Append(delivered, accepted[Len(delivered) + 1])
    /\ UNCHANGED <<accepted, closed>>

\* The channel is closed; values still in it are never delivered.
Close ==
    /\ closed' = TRUE
    /\ UNCHANGED <<accepted, delivered>>

Next == (\E v \in Values : Accept(v)) \/ Deliver \/ Close

Spec == Init /\ [][Next]_vars
===============================================================================
