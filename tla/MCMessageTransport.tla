-------------------------- MODULE MCMessageTransport --------------------------
(***************************************************************************)
(* Two senders and contents of one to five bytes with chunks of two: a     *)
(* short one, one of an unknown class, a chunked one, one whose declared   *)
(* size is wrong, one of too many chunks, one chunked and unknown, one     *)
(* whose serialize throws, one forwarded, one too long for a frame, one    *)
(* without a name.                                                         *)
(***************************************************************************)
EXTENDS MessageTransport

CONSTANTS s1, s2

MCSenders == {s1, s2}

C(declared, actual) ==
    [declared |-> declared, actual |-> actual, throws |-> FALSE, known |-> TRUE,
     opaque |-> FALSE, name |-> 1]

MCContents == {
    C(0, 1), C(3, 3), C(2, 3), C(5, 5), C(0, 6),
    [C(0, 2) EXCEPT !.known = FALSE], [C(3, 3) EXCEPT !.known = FALSE],
    [C(0, 3) EXCEPT !.throws = TRUE], [C(3, 3) EXCEPT !.throws = TRUE],
    [C(4, 2) EXCEPT !.opaque = TRUE], [C(0, 1) EXCEPT !.name = 4]}
===============================================================================
