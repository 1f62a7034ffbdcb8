----------------------------- MODULE DnsRecords -----------------------------
(***************************************************************************)
(* What the API makes of a customer's SPF and DMARC records when it is     *)
(* told to fix them, and of the DMARC record when the customer leaves.     *)
(* An SPF record is its version and its terms in order; a DMARC record is  *)
(* its policies and the mailboxes its two reporting tags name, an empty    *)
(* set standing for a tag that is not there.                               *)
(***************************************************************************)
EXTENDS Naturals, Sequences, FiniteSets, SequencesExt

CONSTANTS
    OwnTerms,     \* SPF mechanisms of the customer
    OwnMailboxes, \* reporting mailboxes of the customer
    Sicurre       \* dmarc@sicurre.com

Alls == {"-all", "~all", "?all", "+all"}
Routing == "include:_spf.mx.cloudflare.net"
Withdrawn == {"include:spf.cloudflare.com", "include:sicurre.com"}
Terms == OwnTerms \cup Alls \cup {Routing} \cup Withdrawn
Mailboxes == OwnMailboxes \cup {Sicurre}

ASSUME RecordsAssumption ==
    /\ Sicurre \notin OwnMailboxes
    /\ OwnTerms \cap (Alls \cup {Routing} \cup Withdrawn) = {}

\* The version is "exact" for v=spf1 and "cased" for another spelling of it,
\* which the reader of the zone takes for SPF and the merge does not.
NoSpf == [version |-> "absent", terms |-> <<>>]
SpfRecords == {r \in [version : {"absent", "exact", "cased"}, terms : Seq(Terms)] :
                 r.version = "absent" => r = NoSpf}

Policies == {"absent", "none", "quarantine", "reject"}
DmarcRecords == [there : BOOLEAN, p : Policies, sp : Policies,
                 rua : SUBSET Mailboxes, ruf : SUBSET Mailboxes]
NoDmarc == [there |-> FALSE, p |-> "absent", sp |-> "absent", rua |-> {}, ruf |-> {}]

-----------------------------------------------------------------------------
\* What a sequence has at some of its indices, in order.
Place(I, i) == Cardinality({j \in I : j <= i})
Nth(I, k) == CHOOSE i \in I : Place(I, i) = k
Picked(s, I) == [k \in 1..Cardinality(I) |-> s[Nth(I, k)]]

FirstAt(s, i) == \A j \in 1..(i - 1) : s[j] # s[i]

\* Every mechanism once, in order, without those Sicurre published in the past.
KeptAt(terms) == {i \in DOMAIN terms : terms[i] \notin Alls \cup Withdrawn /\ FirstAt(terms, i)}
KeptTerms(terms) == Picked(terms, KeptAt(terms))

\* The last of the all mechanisms, or softfail.
AllOf(terms) ==
    LET at == {i \in DOMAIN terms : terms[i] \in Alls}
    IN IF at = {} THEN "~all" ELSE terms[Max(at)]

\* Mutant: the include of the mail routing is added without looking for it.
MergeSpfAgain(r) ==
    [version |-> "exact", terms |-> Append(KeptTerms(r.terms), Routing) \o <<AllOf(r.terms)>>]

MergeSpf(r) ==
    LET kept == KeptTerms(r.terms)
        routed == IF Routing \in ToSet(kept) THEN kept ELSE Append(kept, Routing)
    IN [version |-> "exact",
        terms |-> IF r.version = "exact" THEN Append(routed, AllOf(r.terms)) ELSE <<Routing, "~all">>]

\* Mutant: any policy becomes quarantine.
MergeDmarcQuarantine(r) ==
    IF ~r.there THEN [NoDmarc EXCEPT !.there = TRUE, !.p = "reject", !.rua = {Sicurre}]
    ELSE [r EXCEPT !.p = "quarantine", !.rua = @ \cup {Sicurre}]

\* The pattern p=... finds sp=... too, in both directions: 'reject' in either
\* is kept, and both are rewritten.  A record that names the mailbox
\* anywhere is not given it again, unless it has no rua at all.
MergeDmarc(r) ==
    LET policy == IF "reject" \in {r.p, r.sp} THEN "reject" ELSE "quarantine"
        Rewritten(x) == IF x = "absent" THEN "absent" ELSE policy
    IN IF ~r.there THEN [NoDmarc EXCEPT !.there = TRUE, !.p = "reject", !.rua = {Sicurre}]
       ELSE [r EXCEPT !.p = Rewritten(@), !.sp = Rewritten(@),
                      !.rua = IF @ # {} /\ Sicurre \in r.rua \cup r.ruf THEN @ ELSE @ \cup {Sicurre}]

\* Only Sicurre's mailbox goes; None in the code when there is nothing of it.
HasSicurre(r) == Sicurre \in r.rua \cup r.ruf

\* Mutant: the reporting tags that name it go with it.
WithdrawTags(r) == [r EXCEPT !.rua = {}, !.ruf = {}]

WithdrawReporting(r) == [r EXCEPT !.rua = @ \ {Sicurre}, !.ruf = @ \ {Sicurre}]

\* planned_change: what connecting would do to one record.
PlannedChange(there, current, proposed) ==
    IF ~there THEN "add" ELSE IF current # proposed THEN "modify" ELSE "keep"

-----------------------------------------------------------------------------
(* What the customer has published, whatever Sicurre adds to it.           *)

OwnAt(terms) == {i \in DOMAIN terms : terms[i] \in OwnTerms /\ FirstAt(terms, i)}
OwnPart(spf) == Picked(spf.terms, OwnAt(spf.terms))
OwnReports(r) == [rua |-> r.rua \ {Sicurre}, ruf |-> r.ruf \ {Sicurre}]

Strength(policy) ==
    CASE policy = "reject" -> 2 [] policy = "quarantine" -> 1 [] OTHER -> 0
=============================================================================
