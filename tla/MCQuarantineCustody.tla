------------------------ MODULE MCQuarantineCustody ------------------------
(***************************************************************************)
(* Small instances of QuarantineCustody: all requests meet on one message. *)
(***************************************************************************)
EXTENDS QuarantineCustody

CONSTANTS i1, d1, d2, b1, b2, r1, w1, e1

OneItem == [q \in Requests |-> i1]

\* Two copies of the message that differ, as when their Received lines do.
DifferentBytes == [d \in Deliveries |-> IF d = d1 THEN b1 ELSE b2]
=============================================================================
