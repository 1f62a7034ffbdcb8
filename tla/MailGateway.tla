---------------------------- MODULE MailGateway ----------------------------
(***************************************************************************)
(* The path of an incoming message: the Email Worker at Cloudflare asks    *)
(* the API to scan it, and by the answer forwards it, refuses it, or has   *)
(* the API keep its raw MIME.  The Worker stops waiting after a timeout,   *)
(* the request it left behind goes on, and the mail server may deliver one *)
(* message several times: every delivery has a Worker, a scan and an       *)
(* upload of its own, and those of one message meet on its quarantine row, *)
(* its journal row and its raw object.                                     *)
(*                                                                         *)
(* QuarantineCustody has the row and the object, with uploads, releases,   *)
(* deletions and purges; this module adds the Worker and scan_email.  A    *)
(* step of a scan is one statement or one call, as there.                  *)
(***************************************************************************)
EXTENDS QuarantineCustody

CONSTANTS
    Reports,   \* deliveries to dmarc@ and report+<token>@sicurre.com
    Platform,  \* deliveries to a Worker with SICURRE_SCAN_DISABLED
    Foreign    \* deliveries to another zone, and Sicurre's own notifications

ASSUME KindsAssumption ==
    Reports \subseteq Deliveries /\ Platform \subseteq Deliveries /\ Foreign \subseteq Deliveries

VARIABLES
    worker,    \* worker[d]: where the Worker is, or what it did in the end
    scan,      \* scan[d]: step of the scan request
    seen,      \* seen[d]: what the concurrent lookups of the scan returned
    verdict,   \* verdict[d]: verdict_safety of the scan, "none" before
    event,     \* event[i]: app_inference_event.safety_verdict, "none": no row
    alerts,    \* alerts[i]: the deliveries whose scan wrote an alert row
    mailed,    \* mailed[i]: the deliveries whose scan mailed the customer
    pending,   \* is the integration 'pending_verification'?
    known      \* history: message held or journalled phishing as the scan began

gateway == <<worker, scan, seen, verdict, event, alerts, mailed, pending, known>>
gatewayVars == <<vars, gateway>>

Final == {"forwarded", "bounced", "unstored", "kept", "ingested"}
WorkerSteps == {"arrived", "gate", "scanning", "storing"} \cup Final
ScanSteps == {"idle", "look", "hold", "alert", "notify", "journal", "activate",
              "answered", "failed"}
Verdicts == {"none", "safe", "phishing", "quarantine"}
Lookups == [item : {"unread", "none", "there"}, event : Verdicts \cup {"unread"},
            pending : BOOLEAN]
Unread == [item |-> "unread", event |-> "unread", pending |-> FALSE]

GatewayTypeOK ==
    /\ TypeOK
    /\ worker \in [Deliveries -> WorkerSteps]
    /\ scan \in [Deliveries -> ScanSteps]
    /\ seen \in [Deliveries -> Lookups]
    /\ verdict \in [Deliveries -> Verdicts]
    /\ event \in [Items -> Verdicts]
    /\ alerts \in [Items -> SUBSET Deliveries]
    /\ mailed \in [Items -> SUBSET Deliveries]
    /\ pending \in BOOLEAN
    /\ known \in [Deliveries -> BOOLEAN]

GatewayInit ==
    /\ Init
    /\ worker = [d \in Deliveries |-> "arrived"]
    /\ scan = [d \in Deliveries |-> "idle"]
    /\ seen = [d \in Deliveries |-> Unread]
    /\ verdict = [d \in Deliveries |-> "none"]
    /\ event = [i \in Items |-> "none"]
    /\ alerts = [i \in Items |-> {}]
    /\ mailed = [i \in Items |-> {}]
    /\ pending = TRUE
    /\ known = [d \in Deliveries |-> FALSE]

-----------------------------------------------------------------------------
(* email_gateway_worker.js                                                 *)

WorkerGoto(d, step) == worker' = [worker EXCEPT ![d] = step]

\* A reporting address: the API stores the report, finds none in the message
\* (ordinary mail), or is not available (forward, do not classify).  Without
\* readable bytes, and for any other address, there is nothing to ingest.
WorkerIngest(d) ==
    /\ worker[d] = "arrived"
    /\ \/ WorkerGoto(d, "gate")
       \/ d \in Reports /\ (WorkerGoto(d, "ingested") \/ WorkerGoto(d, "forwarded"))
    /\ UNCHANGED <<scan, seen, verdict, event, alerts, mailed, pending, known>>

\* A platform gateway forwards; any other asks for a scan, which the API
\* starts with the lookup of the integration.
WorkerAsk(d) ==
    /\ worker[d] = "gate"
    /\ IF d \in Platform
         THEN WorkerGoto(d, "forwarded") /\ UNCHANGED <<scan, known, seen>>
         ELSE /\ WorkerGoto(d, "scanning")
              /\ scan' = [scan EXCEPT ![d] = "look"]
              /\ seen' = [seen EXCEPT ![d].pending = pending]
              /\ known' = [known EXCEPT ![d] =
                    status[ItemOf[d]] # "absent" \/ event[ItemOf[d]] \in {"phishing", "quarantine"}]
    /\ UNCHANGED <<verdict, event, alerts, mailed, pending>>

\* The answer carries a quarantine id that the Worker can use: the id of the
\* row the scan found, or of the one it inserted itself.
NamesItem(d) == seen[d].item = "there" \/ d \in alerts[ItemOf[d]]

\* An error status leaves the verdict at 'safe': forward.  A quarantine
\* without id, or of a message whose bytes could not be read, is refused.
WorkerAnswer(d) ==
    /\ worker[d] = "scanning"
    /\ \/ scan[d] = "failed" /\ WorkerGoto(d, "forwarded")
       \/ /\ scan[d] = "answered"
          /\ \/ verdict[d] = "safe" /\ WorkerGoto(d, "forwarded")
             \/ verdict[d] # "safe" /\ WorkerGoto(d, "bounced")
             \/ verdict[d] = "quarantine" /\ NamesItem(d) /\ WorkerGoto(d, "storing")
    /\ UNCHANGED <<scan, seen, verdict, event, alerts, mailed, pending, known>>

\* fetch throws: ten seconds are over, or the answer was lost.  Forward.
WorkerScanTimeout(d) ==
    /\ worker[d] = "scanning"
    /\ WorkerGoto(d, "forwarded")
    /\ UNCHANGED <<scan, seen, verdict, event, alerts, mailed, pending, known>>

\* Mutant: any answer of the upload is taken for success.
WorkerStoredUnchecked(d) ==
    /\ worker[d] = "storing"
    /\ \/ upload[d] \in {"stored", "failed"} /\ WorkerGoto(d, "kept")
       \/ WorkerGoto(d, "unstored")
    /\ UNCHANGED <<scan, seen, verdict, event, alerts, mailed, pending, known>>

\* Mutant: the Worker waits until the upload succeeds.
WorkerStoredPatient(d) ==
    /\ worker[d] = "storing"
    /\ upload[d] = "stored" /\ WorkerGoto(d, "kept")
    /\ UNCHANGED <<scan, seen, verdict, event, alerts, mailed, pending, known>>

\* The upload was answered, or fifteen seconds are over.
WorkerStored(d) ==
    /\ worker[d] = "storing"
    /\ (upload[d] = "stored" /\ WorkerGoto(d, "kept")) \/ WorkerGoto(d, "unstored")
    /\ UNCHANGED <<scan, seen, verdict, event, alerts, mailed, pending, known>>

Worker(d) ==
    /\ \/ WorkerIngest(d) \/ WorkerAsk(d) \/ WorkerAnswer(d)
       \/ WorkerScanTimeout(d) \/ WorkerStored(d)
    /\ UNCHANGED vars

-----------------------------------------------------------------------------
(* scan_email                                                              *)

ScanGoto(d, step) == scan' = [scan EXCEPT ![d] = step]

Answer(d, v) == verdict' = [verdict EXCEPT ![d] = v] /\ ScanGoto(d, "answered")

\* Mutant: only an item that is still held counts.
ScanLookHeld(d) ==
    /\ scan[d] = "look" /\ d \notin Foreign /\ seen[d].item = "unread"
    /\ seen' = [seen EXCEPT ![d].item = IF status[ItemOf[d]] = "held" THEN "there" ELSE "none"]
    /\ UNCHANGED <<vars, worker, scan, verdict, event, alerts, mailed, pending, known>>

\* asyncio.gather: the lookups are statements of their own, in any order.
ScanLookItem(d) ==
    /\ scan[d] = "look" /\ d \notin Foreign /\ seen[d].item = "unread"
    /\ seen' = [seen EXCEPT ![d].item = IF status[ItemOf[d]] = "absent" THEN "none" ELSE "there"]
    /\ UNCHANGED <<vars, worker, scan, verdict, event, alerts, mailed, pending, known>>

ScanLookEvent(d) ==
    /\ scan[d] = "look" /\ d \notin Foreign /\ seen[d].event = "unread"
    /\ seen' = [seen EXCEPT ![d].event = event[ItemOf[d]]]
    /\ UNCHANGED <<vars, worker, scan, verdict, event, alerts, mailed, pending, known>>

\* Mail that is not this customer's is answered at once, and nothing is stored.
\* Otherwise the item first, whatever has become of it, then the journal; a
\* message of neither is classified, by the blocklist or by the inference service.
ScanDecide(d) ==
    /\ scan[d] = "look"
    /\ d \in Foreign \/ (seen[d].item # "unread" /\ seen[d].event # "unread")
    /\ IF d \in Foreign THEN Answer(d, "safe")
       ELSE IF seen[d].item = "there" THEN Answer(d, "quarantine")
       ELSE IF seen[d].event # "none" THEN Answer(d, seen[d].event)
       ELSE \/ verdict' = [verdict EXCEPT ![d] = "phishing"] /\ ScanGoto(d, "hold")
            \/ verdict' = [verdict EXCEPT ![d] = "safe"] /\ ScanGoto(d, "journal")
    /\ UNCHANGED <<vars, worker, seen, event, alerts, mailed, pending, known>>

\* 401 for the secret, 429 from the limiter, 503 for the inference service.
ScanFail(d) ==
    /\ scan[d] = "look"
    /\ ScanGoto(d, "failed")
    /\ UNCHANGED <<vars, worker, seen, verdict, event, alerts, mailed, pending, known>>

\* Mutant: ON CONFLICT DO NOTHING, and the scan goes on as if it had inserted.
ScanHoldSilently(d) ==
    /\ scan[d] = "hold"
    /\ \/ Hold(ItemOf[d]) /\ UNCHANGED requests
       \/ status[ItemOf[d]] # "absent" /\ UNCHANGED vars
    /\ ScanGoto(d, "alert")
    /\ UNCHANGED <<worker, seen, verdict, event, alerts, mailed, pending, known>>

\* INSERT INTO app_quarantine_item; when it raises (another scan of the
\* message was faster) the verdict stays 'phishing' and nothing is alerted.
ScanHold(d) ==
    /\ scan[d] = "hold"
    /\ \/ Hold(ItemOf[d]) /\ UNCHANGED requests /\ ScanGoto(d, "alert")
       \/ (status[ItemOf[d]] # "absent" \/ Crashes) /\ UNCHANGED vars /\ ScanGoto(d, "journal")
    /\ UNCHANGED <<worker, seen, verdict, event, alerts, mailed, pending, known>>

\* The alert row, and with it the verdict 'quarantine'.
ScanAlert(d) ==
    /\ scan[d] = "alert"
    /\ \/ /\ alerts' = [alerts EXCEPT ![ItemOf[d]] = @ \cup {d}]
          /\ verdict' = [verdict EXCEPT ![d] = "quarantine"]
          /\ ScanGoto(d, "notify")
       \/ Crashes /\ UNCHANGED <<alerts, verdict>> /\ ScanGoto(d, "journal")
    /\ UNCHANGED <<vars, worker, seen, event, mailed, pending, known>>

\* The mail to the customer: not in quiet hours, not when Loops fails.
ScanNotify(d) ==
    /\ scan[d] = "notify"
    /\ UNCHANGED mailed \/ mailed' = [mailed EXCEPT ![ItemOf[d]] = @ \cup {d}]
    /\ ScanGoto(d, "journal")
    /\ UNCHANGED <<vars, worker, seen, verdict, event, alerts, pending, known>>

\* Mutant: the label is journalled for the verdict.
ScanJournalLabel(d) ==
    /\ scan[d] = "journal"
    /\ event' = [event EXCEPT ![ItemOf[d]] =
                   IF @ # "none" THEN @ ELSE IF verdict[d] = "safe" THEN "legitimate" ELSE "phishing"]
    /\ ScanGoto(d, "answered")
    /\ UNCHANGED <<vars, worker, seen, verdict, alerts, mailed, pending, known>>

\* Mutant: the upsert is not conditional.
ScanJournalAlways(d) ==
    /\ scan[d] = "journal"
    /\ event' = [event EXCEPT ![ItemOf[d]] = verdict[d]]
    /\ ScanGoto(d, IF seen[d].pending THEN "activate" ELSE "answered")
    /\ UNCHANGED <<vars, worker, seen, verdict, alerts, mailed, pending, known>>

\* INSERT ... ON CONFLICT(id) DO UPDATE ... WHERE safety_verdict NOT IN
\* ('phishing', 'quarantine'); an exception is swallowed.
ScanJournal(d) ==
    /\ scan[d] = "journal"
    /\ \/ /\ event' = [event EXCEPT ![ItemOf[d]] =
                         IF @ \in {"phishing", "quarantine"} THEN @ ELSE verdict[d]]
          /\ ScanGoto(d, IF seen[d].pending THEN "activate" ELSE "answered")
       \/ Crashes /\ UNCHANGED event /\ ScanGoto(d, "answered")
    /\ UNCHANGED <<vars, worker, seen, verdict, alerts, mailed, pending, known>>

\* UPDATE cloudflare_integration SET status = 'active'
ScanActivate(d) ==
    /\ scan[d] = "activate"
    /\ pending' = FALSE \/ (Crashes /\ UNCHANGED pending)
    /\ ScanGoto(d, "answered")
    /\ UNCHANGED <<vars, worker, seen, verdict, event, alerts, mailed, known>>

\* The API process dies: the Worker is answered with an error.
ScanCrash(d) ==
    /\ Crashes /\ scan[d] \notin {"idle", "look", "answered", "failed"}
    /\ ScanGoto(d, "failed")
    /\ UNCHANGED <<vars, worker, seen, verdict, event, alerts, mailed, pending, known>>

Scan(d) ==
    \/ ScanLookItem(d) \/ ScanLookEvent(d) \/ ScanDecide(d)
    \/ ScanHold(d) \/ ScanAlert(d) \/ ScanNotify(d) \/ ScanJournal(d) \/ ScanActivate(d)

\* The upload the Worker asked for, which goes on when it waits no more.
Custody(d) ==
    /\ worker[d] \in {"storing", "unstored", "kept"}
    /\ Upload(d)
    /\ UNCHANGED gateway

GatewayNext ==
    \/ CustodyNext /\ UNCHANGED gateway
    \/ \E d \in Deliveries :
         \/ Worker(d) \/ Scan(d) \/ ScanFail(d) \/ ScanCrash(d) \/ Custody(d)
         \/ UploadCrash(d) /\ UNCHANGED <<release, delete, purge, rebuild, gateway>>

GatewaySpec == GatewayInit /\ [][GatewayNext]_gatewayVars

\* The Worker always goes on: every fetch has a timeout.  So does the API.
GatewayFairness ==
    \A d \in Deliveries :
        WF_gatewayVars(Worker(d)) /\ WF_gatewayVars(Scan(d)) /\ WF_gatewayVars(Custody(d))

GatewayFairSpec == GatewaySpec /\ GatewayFairness

-----------------------------------------------------------------------------
(* What the mail path promises.                                            *)

\* A message the Worker answered for by keeping it is there: its raw copy is
\* in the bucket, unless it was delivered or given up; and while it is held
\* and nobody asked to delete it, its row points to the copy, so that it can
\* be released.
KeptIsInCustody ==
    \A d \in Deliveries :
        LET i == ItemOf[d]
            wanted == \A e \in Deletes : ItemOf[e] = i => delete[e] = "lookup"
        IN worker[d] = "kept" /\ acked[i] = {} /\ ~discarded[i] =>
             /\ object[i] # NoBytes
             /\ wanted /\ status[i] \in {"held", "releasing"} => raw[i] # NoBytes

\* A scan that begins after the message was held, or journalled as phishing,
\* never answers that it is safe, whatever the classifier would say now and
\* whatever became of the item.
HeldStaysSuspect ==
    \A d \in Deliveries \ Foreign : known[d] => verdict[d] # "safe"

\* However often a message is delivered, the customer gets one alert and one
\* mail about it at most, and only for a message that has an item.
AlertedOnce ==
    \A i \in Items :
        /\ \A d, e \in alerts[i] : d = e
        /\ mailed[i] \subseteq alerts[i]
        /\ alerts[i] # {} => status[i] # "absent"

\* Once no scan of a held message is under way the journal calls the message
\* phishing or quarantined, although a milder scan may have run beside.
\* (A scan that dies, or whose upsert raises, leaves no journal row.)
JournalAgrees ==
    \A i \in Items :
        /\ status[i] # "absent"
        /\ \A d \in Deliveries :
              ItemOf[d] = i => scan[d] \notin {"hold", "alert", "notify", "journal"}
        => event[i] \in {"phishing", "quarantine"}

\* All deliveries are answered for in the end, whatever the API does.
EveryDeliveryDecided == <>(\A d \in Deliveries : worker[d] \in Final)

\* The mail path does what MessageFate says.
CustodyOf ==
    [i \in Items |-> IF object[i] # NoBytes THEN "stored"
                     ELSE IF acked[i] # {} \/ discarded[i] THEN "ended" ELSE "none"]
FateOf ==
    [d \in Deliveries |->
        IF worker[d] \in {"bounced", "unstored"} THEN "rejected"
        ELSE IF worker[d] \in {"forwarded", "kept", "ingested"} THEN worker[d] ELSE "pending"]

Fate == INSTANCE MessageFate WITH
    Messages <- Items, MessageOf <- [d \in Deliveries |-> ItemOf[d]],
    custody <- CustodyOf, fate <- FateOf

ImplementsFate == Fate!Spec

-----------------------------------------------------------------------------
(* What the documents say and the code does not keep.                      *)

\* docs/adr/0007-cloudflare-worker-idempotency.md:13
SameMessageSameAnswer ==
    \A d, e \in Deliveries :
        /\ ItemOf[d] = ItemOf[e]
        /\ scan[d] = "answered" /\ scan[e] = "answered"
        /\ verdict[d] # "safe" /\ verdict[e] # "safe"
        => verdict[d] = verdict[e]

\* email_scan.py:412: the alert says the message was intercepted.
AlertedIsIntercepted ==
    \A d \in Deliveries : d \in alerts[ItemOf[d]] => worker[d] # "forwarded"
=============================================================================
