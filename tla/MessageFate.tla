---------------------------- MODULE MessageFate ----------------------------
(***************************************************************************)
(* What the mail path promises: every delivery the mail server is answered *)
(* for gets one fate, and a delivery is kept (answered for without being   *)
(* handed on or refused) only when a copy of its message went into custody,*)
(* where it stays until the message is delivered or given up.              *)
(***************************************************************************)
CONSTANTS
    Messages,
    Deliveries,
    MessageOf   \* the message of each delivery

VARIABLES
    custody,  \* per message: "none", "stored", or "ended"
    fate      \* per delivery: "pending" until decided once

Init ==
    /\ custody = [m \in Messages |-> "none"]
    /\ fate = [d \in Deliveries |-> "pending"]

\* A copy goes into custody, or replaces the copy there.
Store(m) ==
    /\ custody' = [custody EXCEPT ![m] = "stored"]
    /\ UNCHANGED fate

\* The copy leaves custody: delivered, or given up.
End(m) ==
    /\ custody[m] = "stored"
    /\ custody' = [custody EXCEPT ![m] = "ended"]
    /\ UNCHANGED fate

\* The Worker's answer to the mail server.
Decide(d) ==
    /\ fate[d] = "pending"
    /\ \E f \in {"forwarded", "rejected", "ingested", "kept"} :
         /\ f = "kept" => custody[MessageOf[d]] # "none"
         /\ fate' = [fate EXCEPT ![d] = f]
    /\ UNCHANGED custody

Next ==
    \/ \E m \in Messages : Store(m) \/ End(m)
    \/ \E d \in Deliveries : Decide(d)

Spec == Init /\ [][Next]_<<custody, fate>>
=============================================================================
