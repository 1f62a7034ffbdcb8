-------------------------- MODULE ReportIngestion --------------------------
(***************************************************************************)
(* The two endpoints behind the reporting addresses: messages a customer   *)
(* forwards as evidence, and the aggregate DMARC reports of mail           *)
(* providers.  MailGateway lets a report have any outcome; here the Worker *)
(* has the outcome its request was answered with, while requests of equal  *)
(* reports run side by side, go on after their Worker has given up, and    *)
(* die between two statements.                                             *)
(***************************************************************************)
EXTENDS MailGateway

CONSTANT Records  \* the records of an aggregate report, in their order 1..Records

NoReport == "none"

ASSUME RecordsAssumption == Records \in Nat /\ NoReport \notin Reports

VARIABLES
    kind,      \* kind[d]: which of the two addresses the report was sent to
    ingest,    \* ingest[d]: step of the request, or its answer
    evidence,  \* the reports whose sanitized object was written
    reported,  \* reported[i]: the report app_reported_email has for i's content
    feedback,  \* the reports that are a false negative in app_feedback
    imported,  \* imported[i]: records of i in app_dmarc_report_summary
    cursor     \* cursor[d]: how many records the request has been through

reports == <<kind, ingest, evidence, reported, feedback, imported, cursor>>
IngestSteps == {"idle", "look", "write", "row", "note", "import"}
IngestAnswers == {"accepted", "ignored", "rejected", "failed"}

ReportsTypeOK ==
    /\ kind \in [Reports -> {"forwarded", "aggregate"}]
    /\ ingest \in [Reports -> IngestSteps \cup IngestAnswers]
    /\ evidence \subseteq Reports /\ feedback \subseteq Reports
    /\ reported \in [Items -> Reports \cup {NoReport}]
    /\ imported \in [Items -> SUBSET (1..Records)]
    /\ cursor \in [Reports -> 0..Records]

ReportsInit ==
    /\ GatewayInit
    /\ kind \in [Reports -> {"forwarded", "aggregate"}]
    /\ ingest = [d \in Reports |-> "idle"]
    /\ evidence = {} /\ feedback = {}
    /\ reported = [i \in Items |-> NoReport]
    /\ imported = [i \in Items |-> {}]
    /\ cursor = [d \in Reports |-> 0]

IngestGoto(d, step) == ingest' = [ingest EXCEPT ![d] = step]

\* The checks before anything is looked up: 400 or 404 for what is no report
\* or has no member, an error for the key, the size and the limiter.
IngestStart(d) ==
    /\ worker[d] = "arrived" /\ ingest[d] = "idle"
    /\ \E step \in {"look", "rejected", "failed"} : IngestGoto(d, step)
    /\ UNCHANGED <<kind, evidence, reported, feedback, imported, cursor>>

\* SELECT id FROM app_reported_email: a report that is there was accepted.
ReportLook(d) ==
    /\ kind[d] = "forwarded" /\ ingest[d] = "look"
    /\ IngestGoto(d, IF reported[ItemOf[d]] = NoReport THEN "write" ELSE "accepted")
    /\ UNCHANGED <<kind, evidence, reported, feedback, imported, cursor>>

ReportWrite(d) ==
    /\ ingest[d] = "write"
    /\ evidence' = evidence \cup {d}
    /\ IngestGoto(d, "row")
    /\ UNCHANGED <<kind, reported, feedback, imported, cursor>>

\* INSERT INTO app_reported_email.  The unique key of workspace and content
\* refuses the second report, whose object no row will point to.
ReportRow(d) ==
    /\ ingest[d] = "row"
    /\ IF reported[ItemOf[d]] = NoReport
         THEN reported' = [reported EXCEPT ![ItemOf[d]] = d] /\ IngestGoto(d, "note")
         ELSE UNCHANGED reported /\ IngestGoto(d, "accepted")
    /\ UNCHANGED <<kind, evidence, feedback, imported, cursor>>

\* INSERT INTO app_feedback, a statement of its own.
ReportNote(d) ==
    /\ ingest[d] = "note"
    /\ feedback' = feedback \cup {d}
    /\ IngestGoto(d, "accepted")
    /\ UNCHANGED <<kind, evidence, reported, imported, cursor>>

\* The reports are of the connected domain.  It has no active integration until
\* some scan has activated it, and until then its reports are ignored.
AggregateLook(d) ==
    /\ kind[d] = "aggregate" /\ ingest[d] = "look"
    /\ IngestGoto(d, IF pending THEN "ignored" ELSE "import")
    /\ UNCHANGED <<kind, evidence, reported, feedback, imported, cursor>>

\* Mutant: a record that is there already ends the import.
AggregateRecordOrEnd(d) ==
    /\ ingest[d] = "import"
    /\ LET next == cursor[d] + 1 IN
         IF cursor[d] = Records \/ next \in imported[ItemOf[d]]
           THEN IngestGoto(d, "accepted") /\ UNCHANGED <<imported, cursor>>
           ELSE /\ imported' = [imported EXCEPT ![ItemOf[d]] = @ \cup {next}]
                /\ cursor' = [cursor EXCEPT ![d] = next]
                /\ UNCHANGED ingest
    /\ UNCHANGED <<kind, evidence, reported, feedback>>

\* INSERT ... ON CONFLICT(workspace_id, report_fingerprint) DO NOTHING, one
\* statement for each record; the answer after the last.
AggregateRecord(d) ==
    /\ ingest[d] = "import"
    /\ IF cursor[d] = Records
         THEN IngestGoto(d, "accepted") /\ UNCHANGED <<imported, cursor>>
         ELSE /\ imported' = [imported EXCEPT ![ItemOf[d]] = @ \cup {cursor[d] + 1}]
              /\ cursor' = [cursor EXCEPT ![d] = @ + 1]
              /\ UNCHANGED ingest
    /\ UNCHANGED <<kind, evidence, reported, feedback>>

\* A statement or the bucket fails, or the process dies: an error.
IngestFail(d) ==
    /\ ingest[d] \in IngestSteps \ {"idle"}
    /\ IngestGoto(d, "failed")
    /\ UNCHANGED <<kind, evidence, reported, feedback, imported, cursor>>

IngestStep(d) ==
    \/ IngestStart(d) \/ ReportLook(d) \/ ReportWrite(d) \/ ReportRow(d) \/ ReportNote(d)
    \/ AggregateLook(d) \/ AggregateRecord(d)

\* What the Worker makes of the answer.  Without one (no key, an error, the
\* fifteen seconds, a lost connection) it forwards; without readable bytes it
\* never asks, and the message is ordinary mail.
WorkerOutcome(d) ==
    worker[d] = "arrived" /\ worker'[d] # "arrived" =>
        \/ worker'[d] = "forwarded"
        \/ worker'[d] = "gate" /\ ingest[d] \in {"idle", "rejected"}
        \/ worker'[d] = "ingested" /\ ingest[d] \in {"accepted", "ignored"}

\* The scan of another message sets the integration 'active'.
Activated ==
    /\ pending
    /\ pending' = FALSE
    /\ UNCHANGED <<vars, worker, scan, seen, verdict, event, alerts, mailed, known>>

ReportsNext ==
    \/ GatewayNext /\ (\A d \in Reports : WorkerOutcome(d)) /\ UNCHANGED reports
    \/ Activated /\ UNCHANGED reports
    \/ \E d \in Reports : (IngestStep(d) \/ IngestFail(d)) /\ UNCHANGED gatewayVars

ReportsSpec == ReportsInit /\ [][ReportsNext]_<<gatewayVars, reports>>

\* The Worker goes on, as in GatewayFairness; no request of a report need ever
\* end, for the Worker stops waiting for it.
ReportsFairSpec ==
    /\ ReportsSpec
    /\ \A d \in Deliveries :
         /\ WF_<<gatewayVars, reports>>(
                Worker(d) /\ (d \in Reports => WorkerOutcome(d)) /\ UNCHANGED reports)
         /\ WF_<<gatewayVars, reports>>(Scan(d) /\ UNCHANGED reports)
         /\ WF_<<gatewayVars, reports>>(Custody(d) /\ UNCHANGED reports)

-----------------------------------------------------------------------------
\* A report the Worker swallows is not lost: evidence has a row and the object
\* the row points to, every record of an aggregate report is in the table.
\* Only reports of a domain that is not connected are dropped.  The request
\* that stored it may have been another one, and may have died since.
IngestedIsPersisted ==
    \A d \in Reports :
        worker[d] = "ingested" =>
            \/ kind[d] = "forwarded" /\ reported[ItemOf[d]] \in evidence
            \/ kind[d] = "aggregate" /\ imported[ItemOf[d]] = 1..Records
            \/ kind[d] = "aggregate" /\ ingest[d] = "ignored"
=============================================================================
