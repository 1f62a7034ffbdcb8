--------------------------- MODULE MCMailGateway ---------------------------
(***************************************************************************)
(* Small instances of MailGateway: two deliveries of one message.          *)
(***************************************************************************)
EXTENDS MailGateway, TLC

CONSTANTS i1, d1, d2, d3, b1, b2, r1, e1

OneItem == [q \in Requests |-> i1]

\* Two copies of the message that differ, as when their Received lines do.
DifferentBytes == [d \in Deliveries |-> IF d = d1 THEN b1 ELSE b2]

SameBytes == [d \in Deliveries |-> b1]

\* With one copy the deliveries are alike.
DeliverySymmetry == Permutations({d1, d2})
=============================================================================
