----------------------------- MODULE MCCuration -----------------------------
(***************************************************************************)
(* A small instance of Curation: the first record is not accepted, the     *)
(* second has a text that a draft has too; the two other drafts repeat one *)
(* text, which is also what the page of the first record was rewritten to. *)
(***************************************************************************)
EXTENDS Curation

CONSTANTS n1, l1, v1, a1, b1

SmallRecordOf == [c \in Candidates |-> 1]

SmallTextOf ==
    [x \in Items |-> CASE x = 1 -> NoText
                       [] x \in {2, 13} -> 101
                       [] OTHER -> 102]
=============================================================================
