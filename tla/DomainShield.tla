---------------------------- MODULE DomainShield ----------------------------
(***************************************************************************)
(* The Domain Shield of one zone.  Syncs apply the DNS fixes the customer  *)
(* consented to, a teardown withdraws Sicurre's reporting mailbox, and the *)
(* customer edits the same records beside them; refreshes measure the      *)
(* zone, keep the history of its score (rows with is_current, closed and   *)
(* opened by two statements) and alert the customer when it falls.         *)
(* A step is a call to Cloudflare or a statement.                          *)
(***************************************************************************)
EXTENDS DnsRecords

CONSTANTS
    Syncs,       \* calls of sync_domain_shield_dns
    Refreshes,   \* refreshes: of the customer, and of the scheduled monitor
    Published,   \* the pairs of records the zone may begin with
    Edited,      \* the pairs of records the customer may change it to
    Edits,       \* bound: how often the customer edits the zone
    Day,         \* minutes of a day, 1440 in the code
    Quiet,       \* pairs of minutes: the quiet hours the customer may choose
    Listings     \* numbers of block lists the zone may be found on

ASSUME ShieldAssumption ==
    /\ Edits \in Nat /\ Day \in Nat \ {0} /\ Listings \subseteq Nat
    /\ \A q \in Quiet : q[1] \in 0..(Day - 1) /\ q[2] \in 0..(Day - 1)
    /\ \A z \in Published \cup Edited :
          /\ z.spf \in SpfRecords
          /\ z.dmarc \in DmarcRecords /\ (z.dmarc.there \/ z.dmarc = NoDmarc)

VARIABLES
    spf, dmarc,  \* the records of the zone at Cloudflare
    own,         \* history: the customer's part of them, as last edited
    clobbered,   \* history: a record was replaced that had changed since it was read
    edits,       \* edits so far
    sync,        \* sync[c]: where the sync is, and the records it read
    leave,       \* the withdrawal of a teardown, likewise
    refresh,     \* refresh[f]: where it is, what it measured, what it read
    rows,        \* app_domain_shield_history: the row of each refresh
    alerts,      \* refreshes that wrote an alert
    mails        \* refreshes that mailed, with the minute and the quiet hours

vars == <<spf, dmarc, own, clobbered, edits, sync, leave, refresh, rows, alerts, mails>>
zone == <<spf, dmarc, own, clobbered, edits, sync, leave>>
shield == <<refresh, rows, alerts, mails>>

NoRow == [there |-> FALSE, current |-> FALSE, score |-> 0, spf |-> FALSE, dmarc |-> FALSE]
Measured == [score : 30..100, spf : BOOLEAN, dmarc : BOOLEAN]
RefreshSteps == {"idle", "look", "alert", "mail", "close", "open", "done"}

ShieldTypeOK ==
    /\ spf \in SpfRecords
    /\ dmarc \in DmarcRecords
    /\ clobbered \in BOOLEAN /\ edits \in 0..Edits
    /\ \A c \in Syncs : sync[c].at \in {"idle", "spf", "dmarc", "done"}
    /\ leave.at \in {"idle", "write", "done"}
    /\ \A f \in Refreshes : refresh[f].at \in RefreshSteps
    /\ \A f \in Refreshes : refresh[f].at # "idle" => refresh[f].got \in Measured
    /\ \A f \in Refreshes : rows[f].there \in BOOLEAN /\ rows[f].current \in BOOLEAN
    /\ alerts \subseteq Refreshes
    /\ mails \subseteq [by : Refreshes, at : 0..(Day - 1), quiet : Quiet]

OwnNow == [spf |-> OwnPart(spf), dmarc |-> OwnReports(dmarc)]

Init ==
    /\ \E z \in Published : spf = z.spf /\ dmarc = z.dmarc
    /\ own = OwnNow
    /\ clobbered = FALSE /\ edits = 0
    /\ sync = [c \in Syncs |-> [at |-> "idle", spf |-> NoSpf, dmarc |-> NoDmarc]]
    /\ leave = [at |-> "idle", dmarc |-> NoDmarc]
    /\ refresh = [f \in Refreshes |-> [at |-> "idle", got |-> NoRow, last |-> NoRow]]
    /\ rows = [f \in Refreshes |-> NoRow]
    /\ alerts = {} /\ mails = {}

-----------------------------------------------------------------------------
(* The zone                                                                *)

\* The customer replaces a record in Cloudflare's dashboard.
Edit ==
    /\ edits < Edits /\ edits' = edits + 1
    /\ \E z \in Edited : spf' = z.spf /\ dmarc' = z.dmarc
    /\ own' = [spf |-> OwnPart(spf'), dmarc |-> OwnReports(dmarc')]
    /\ UNCHANGED <<clobbered, sync, leave, shield>>

\* get_dns_records and read_dns_state: all records, read once.
SyncRead(c) ==
    /\ sync[c].at = "idle"
    /\ sync' = [sync EXCEPT ![c] = [at |-> "spf", spf |-> spf, dmarc |-> dmarc]]
    /\ UNCHANGED <<spf, dmarc, own, clobbered, edits, leave, shield>>

\* deploy_dns_record finds the record anew and writes what was made of the
\* record read before; without consent nothing is written.
SyncSpf(c) ==
    /\ sync[c].at = "spf"
    /\ \/ UNCHANGED <<spf, clobbered>>
       \/ spf' = MergeSpf(sync[c].spf) /\ clobbered' = (clobbered \/ spf # sync[c].spf)
    /\ sync' = [sync EXCEPT ![c].at = "dmarc"]
    /\ UNCHANGED <<dmarc, own, edits, leave, shield>>

\* Mutant: the policy is set to quarantine, which is what most zones need.
SyncDmarcQuarantine(c) ==
    /\ sync[c].at = "dmarc"
    /\ \/ UNCHANGED <<dmarc, clobbered>>
       \/ /\ dmarc' = MergeDmarcQuarantine(sync[c].dmarc)
          /\ clobbered' = (clobbered \/ dmarc # sync[c].dmarc)
    /\ sync' = [sync EXCEPT ![c].at = "done"]
    /\ UNCHANGED <<spf, own, edits, leave, shield>>

\* The DMARC record, and the upsert of the status row after it.
SyncDmarc(c) ==
    /\ sync[c].at = "dmarc"
    /\ \/ UNCHANGED <<dmarc, clobbered>>
       \/ /\ dmarc' = MergeDmarc(sync[c].dmarc)
          /\ clobbered' = (clobbered \/ dmarc # sync[c].dmarc)
    /\ sync' = [sync EXCEPT ![c].at = "done"]
    /\ UNCHANGED <<spf, own, edits, leave, shield>>

\* Nothing is withdrawn where Sicurre's mailbox is not asked for reports, in the
\* zone that hosts that mailbox, and when the records cannot be read.
LeaveRead ==
    /\ leave.at = "idle"
    /\ \E at \in {"done"} \cup (IF HasSicurre(dmarc) THEN {"write"} ELSE {}) :
         leave' = [at |-> at, dmarc |-> dmarc]
    /\ UNCHANGED <<spf, dmarc, own, clobbered, edits, sync, shield>>

LeaveWrite ==
    /\ leave.at = "write"
    /\ dmarc' = WithdrawReporting(leave.dmarc)
    /\ clobbered' = (clobbered \/ dmarc # leave.dmarc)
    /\ leave' = [leave EXCEPT !.at = "done"]
    /\ UNCHANGED <<spf, own, edits, sync, shield>>

-----------------------------------------------------------------------------
(* Refreshes                                                               *)

\* check_domain_shield_status: what is lost of 100 for each check that fails,
\* never below 30.  Without SPF it is lost only on a bare apex, where the
\* lookup raises; a policy is looked for in p= and sp= alike.  DKIM and the
\* certificate are in order.
Score(bare, record, listed) ==
    LET lost == (IF bare THEN 20 ELSE 0)
              + (IF ~record.there THEN 25
                 ELSE (IF Strength(record.p) + Strength(record.sp) > 0 THEN 0 ELSE 10)
                    + (IF HasSicurre(record) THEN 0 ELSE 10))
              + 30 * listed
    IN IF lost > 70 THEN 30 ELSE 100 - lost

\* Resolve SPF, DKIM, DMARC, look the zone up in the block lists.
RefreshMeasure(f) ==
    /\ refresh[f].at = "idle"
    /\ \E listed \in Listings, bare \in IF spf.version = "absent" THEN BOOLEAN ELSE {FALSE} :
         refresh' = [refresh EXCEPT
            ![f].at = "look",
            ![f].got = [score |-> Score(bare, dmarc, listed),
                        spf |-> spf.version = "exact", dmarc |-> dmarc.there]]
    /\ UNCHANGED <<zone, rows, alerts, mails>>

CurrentRows == {g \in Refreshes : rows[g].current}

\* The three parts of a row that decide whether anything has changed.
Same(got, last) ==
    last.there /\ got.score = last.score /\ got.spf = last.spf /\ got.dmarc = last.dmarc

\* SELECT ... AND is_current = 1 LIMIT 1.
RefreshLook(f) ==
    /\ refresh[f].at = "look"
    /\ \E last \in IF CurrentRows = {} THEN {NoRow} ELSE {rows[g] : g \in CurrentRows} :
         refresh' = [refresh EXCEPT
            ![f].last = last,
            ![f].at = IF last.there /\ refresh[f].got.score < last.score THEN "alert"
                      ELSE IF Same(refresh[f].got, last) THEN "done" ELSE "close"]
    /\ UNCHANGED <<zone, rows, alerts, mails>>

RefreshAlert(f) ==
    /\ refresh[f].at = "alert"
    /\ alerts' = alerts \cup {f}
    /\ refresh' = [refresh EXCEPT ![f].at = "mail"]
    /\ UNCHANGED <<zone, rows, mails>>

\* Mutant: hours that span midnight are taken for hours of one day.
InsideOneDay(start, end, now) == start <= now /\ now < end

\* notification_is_allowed, its quiet hours.
Inside(start, end, now) ==
    IF start <= end THEN start <= now /\ now < end ELSE now >= start \/ now < end

RefreshMail(f) ==
    /\ refresh[f].at = "mail"
    /\ \E now \in 0..(Day - 1), q \in Quiet :
         mails' = IF Inside(q[1], q[2], now) THEN mails
                  ELSE mails \cup {[by |-> f, at |-> now, quiet |-> q]}
    /\ refresh' = [refresh EXCEPT ![f].at = "close"]
    /\ UNCHANGED <<zone, rows, alerts>>

\* Mutant: the new row first, then all current rows are closed.
RefreshCloseLate(f) ==
    /\ refresh[f].at = "close"
    /\ rows' = [g \in Refreshes |->
                  IF g = f THEN [there |-> TRUE, current |-> FALSE, score |-> refresh[f].got.score,
                                 spf |-> refresh[f].got.spf, dmarc |-> refresh[f].got.dmarc]
                  ELSE [rows[g] EXCEPT !.current = FALSE]]
    /\ refresh' = [refresh EXCEPT ![f].at = "done"]
    /\ UNCHANGED <<zone, alerts, mails>>

\* UPDATE ... SET is_current = 0 of every current row.
RefreshClose(f) ==
    /\ refresh[f].at = "close"
    /\ rows' = [g \in Refreshes |-> [rows[g] EXCEPT !.current = FALSE]]
    /\ refresh' = [refresh EXCEPT ![f].at = "open"]
    /\ UNCHANGED <<zone, alerts, mails>>

\* INSERT of the new current row, and the upsert of the status row.
RefreshOpen(f) ==
    /\ refresh[f].at = "open"
    /\ rows' = [rows EXCEPT ![f] = [there |-> TRUE, current |-> TRUE, score |-> refresh[f].got.score,
                                    spf |-> refresh[f].got.spf, dmarc |-> refresh[f].got.dmarc]]
    /\ refresh' = [refresh EXCEPT ![f].at = "done"]
    /\ UNCHANGED <<zone, alerts, mails>>

Refresh(f) ==
    \/ RefreshMeasure(f) \/ RefreshLook(f) \/ RefreshAlert(f) \/ RefreshMail(f)
    \/ RefreshClose(f) \/ RefreshOpen(f)

Next ==
    \/ Edit \/ LeaveRead \/ LeaveWrite
    \/ \E c \in Syncs : SyncRead(c) \/ SyncSpf(c) \/ SyncDmarc(c)
    \/ \E f \in Refreshes : Refresh(f)

Spec == Init /\ [][Next]_vars

-----------------------------------------------------------------------------
(* What the Domain Shield promises.                                        *)

\* As long as no record was written over a change its writer had not read,
\* the customer's SPF mechanisms and reporting mailboxes are the ones the
\* customer published, whatever syncs and withdrawals did, and in whichever
\* order.  (An SPF record spelled V=SPF1 is taken for none and replaced.)
OwnRecordsKept ==
    ~clobbered /\ (\A z \in Published \cup Edited : z.spf.version # "cased") => own = OwnNow

\* No step of Sicurre's weakens the DMARC policy of the zone or of its
\* subdomains, unless it writes over an edit.
PolicyNeverWeakened ==
    [][own' = own /\ ~clobbered' /\ edits' = edits =>
         /\ Strength(dmarc'.p) >= Strength(dmarc.p)
         /\ Strength(dmarc'.sp) >= Strength(dmarc.sp)]_vars

\* A zone that was fixed needs no other fix: the plan shown before a second
\* connection says "keep" for what the first one wrote.
FixedIsKept ==
    \A c \in Syncs : sync[c].at # "idle" =>
        LET s == MergeSpf(sync[c].spf)
            d == MergeDmarc(sync[c].dmarc)
        IN /\ PlannedChange(TRUE, s, MergeSpf(s)) = "keep"
           /\ PlannedChange(TRUE, d, MergeDmarc(d)) = "keep"

\* Once a zone has a history it has a current row, however the refreshes of
\* the customer and the monitor fall together, except between the two
\* statements of one of them: the next refresh has a score to compare with.
AlwaysCurrent ==
    /\ \E f \in Refreshes : rows[f].there
    /\ \A f \in Refreshes : refresh[f].at # "open"
    => CurrentRows # {}

\* No mail in the quiet hours, which run from their first minute to their
\* last over midnight if need be, and are empty when the two are the same.
QuietHoursKept ==
    \A m \in mails :
        \A k \in 0..(Day - 1) :
            k < (m.quiet[2] + Day - m.quiet[1]) % Day => m.at # (m.quiet[1] + k) % Day
=============================================================================
