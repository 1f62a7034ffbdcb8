--------------------------- MODULE MCDomainShield ---------------------------
(***************************************************************************)
(* A small instance of DomainShield: many SPF records beside one DMARC     *)
(* record and many DMARC records beside one SPF record, with a sync, a     *)
(* teardown, an edit and two refreshes.                                    *)
(***************************************************************************)
EXTENDS DomainShield

CONSTANTS c1, f1, f2, own1, own2, box1, sicurre

SomeTerms == {own1, own2, "-all", Routing, "include:sicurre.com"}

Exact(t) == [version |-> "exact", terms |-> t]

SomeSpf ==
    {NoSpf} \cup {Exact(t) : t \in
        {<<>>} \cup {<<own1, a>> : a \in SomeTerms} \cup {<<a, own2, own1>> : a \in SomeTerms}}

SomeDmarc ==
    {NoDmarc} \cup
    {[there |-> TRUE, p |-> p, sp |-> sp, rua |-> rua, ruf |-> ruf] :
        p \in {"none", "quarantine", "reject"}, sp \in {"absent", "reject"},
        rua \in {{}, {box1}}, ruf \in {{}, {sicurre}}}

Monitored == [NoDmarc EXCEPT !.there = TRUE, !.p = "none", !.rua = {box1}]

SomeZones ==
    {[spf |-> NoSpf, dmarc |-> NoDmarc]}
    \cup {[spf |-> r, dmarc |-> Monitored] : r \in SomeSpf}
    \cup {[spf |-> Exact(<<own1>>), dmarc |-> d] : d \in SomeDmarc}

OtherZone == {[spf |-> Exact(<<own2, "-all">>), dmarc |-> [Monitored EXCEPT !.p = "reject"]]}

SomeQuiet == {<<0, 2>>, <<2, 1>>, <<1, 1>>}
=============================================================================
