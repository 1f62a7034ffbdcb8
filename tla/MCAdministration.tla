-------------------------- MODULE MCAdministration --------------------------
(***************************************************************************)
(* Small instances of OperationalExercises (two exercises, a request that  *)
(* recovers, a restart) and of Accounts (a request of the member, one      *)
(* erasure of each kind, a message that arrives or one that is reported).  *)
(* Both are requests to the same API, and they share no state: an          *)
(* interleaving of the two shows nothing that each does not show alone, so *)
(* one rests while the other moves.                                        *)
(***************************************************************************)
EXTENDS OperationalExercises, Accounts

CONSTANTS e1, e2, g1, r1, b1, v1, s1, a1, m1, p1, z1, z2

NoExercise == \A c \in Calls : call[c].at = "idle"

NobodyActs == made = 0 /\ \A a \in Actors : act[a].at = "idle"

\* Bound: a message is held or one is reported, not both.
OneMessage == \A a \in Mails, b \in Reports : "idle" \in {act[a].at, act[b].at}

AdministrationInit == Init /\ AccountInit

AdministrationSpec ==
    /\ AdministrationInit
    /\ [][\/ NobodyActs /\ Next /\ UNCHANGED accountVars
          \/ NoExercise /\ AccountNext /\ OneMessage' /\ UNCHANGED vars]_<<vars, accountVars>>
    /\ Fairness
=============================================================================
