------------------------ MODULE CloudflareIntegration ------------------------
(***************************************************************************)
(* Connecting a zone to Sicurre and disconnecting it again: the rows of    *)
(* cloudflare_integration and app_cloudflare_config of one workspace, and  *)
(* what the API changes at Cloudflare for them, which is the Email Worker  *)
(* of the zone and the Email Routing rules of the protected address.       *)
(*                                                                         *)
(* The callers are setup_cloudflare, with the background task it leaves    *)
(* behind, teardown_cloudflare, erase_account, the deletion of the token,  *)
(* and the scans of mail that arrives meanwhile.  A step is one statement  *)
(* or one call to Cloudflare; what a caller read before is in its record.  *)
(* A row is named by the setup that inserted it, a Worker secret by the    *)
(* setup that made it, a routing rule by the row it was created for.       *)
(***************************************************************************)
EXTENDS Naturals, FiniteSets

CONSTANTS
    Setups,      \* calls of setup_cloudflare
    Removers,    \* removals: teardown_cloudflare, erase_account, deletion of the token
    Scans,       \* scans of mail that reaches the Worker
    Owned,       \* setups by the owner of the protected address, forwarded elsewhere
    Faults,      \* which of "refused", "lost" and "crash" happen
    None, Forward   \* no secret or row; the customer's own forward rule

ASSUME CallersAssumption ==
    /\ None \notin Setups /\ Forward \notin Setups /\ Forward # None
    /\ Owned \subseteq Setups
    /\ Faults \subseteq {"refused", "lost", "crash"}

VARIABLES
    row,      \* row[s]: the integration row inserted by setup s
    config,   \* is there a token in app_cloudflare_config?
    worker,   \* the secret of the deployed Worker, None: no Worker
    rules,    \* the routing rules of the protected address
    setup,    \* setup[s]: where the call is and what it read
    remover,  \* remover[t]: where the removal is and what it read
    scan,     \* scan[x]: step of the scan, the row it is about
    trouble,  \* history: did a call to Cloudflare fail, did the API crash?
    reached,  \* history: rows whose provisioning changed the zone
    orphans,  \* history: rows deleted while they were being provisioned
    unsure,   \* history: no answer came when a Worker in use was last deployed again
    crossed   \* history: two setups, or two removals, were being answered at once

histories == <<reached, orphans, unsure, crossed>>
vars == <<row, config, worker, rules, setup, remover, scan, trouble, histories>>

Statuses == {"absent", "provisioning", "pending_verification", "active", "error", "gone"}
Live == {"pending_verification", "active"}
Secrets == Setups \cup {None}
Rules == Setups \cup {Forward}
Rows == {s \in Setups : row[s].status \notin {"absent", "gone"}}

SetupSteps == {"idle", "token", "forget", "resync", "deploy", "rotate", "store", "insert",
               "keep", "dns", "gateway", "script", "rules", "clear", "route", "record",
               "alert", "fail", "raised", "done"}
Background == {"gateway", "script", "rules", "clear", "route", "record", "alert", "fail"}
RemoverSteps == {"idle", "choose", "look", "share", "unroute", "unscript", "restore",
                 "forward", "delete", "remain", "forget", "rows", "dropped", "removed", "refused"}
RowRecords == [status : Statuses, ids : BOOLEAN, hash : Secrets]
SetupRecords == [at : SetupSteps, of : Secrets, status : Statuses, ids : BOOLEAN, found : SUBSET Rules]
RemoverRecords == [at : RemoverSteps, of : Secrets, local : BOOLEAN, keep : BOOLEAN,
                   erases : BOOLEAN, todo : SUBSET Setups]

IntegrationTypeOK ==
    /\ row \in [Setups -> RowRecords]
    /\ config \in BOOLEAN /\ trouble \subseteq {"cloudflare", "crash"}
    /\ worker \in Secrets /\ rules \subseteq Rules
    /\ reached \subseteq Setups /\ orphans \subseteq Setups
    /\ unsure \in BOOLEAN /\ crossed \in BOOLEAN
    /\ setup \in [Setups -> SetupRecords]
    /\ remover \in [Removers -> RemoverRecords]
    /\ scan \in [Scans -> [at : {"idle", "activate", "done"}, of : Secrets]]

\* What the rows, and what a caller read of them, have to do with each other.
NotYetInserted ==
    \A s \in Setups :
        setup[s].at \in {"idle", "token", "forget", "insert"} => row[s].status = "absent"
FailedIsOver ==
    \A s \in Setups : row[s].status = "error" /\ ~row[s].ids => setup[s].at = "done"
LiveIsRecorded == \A s \in Setups : row[s].status \in Live => row[s].ids
ForgetsFailed ==
    \A s \in Setups :
        /\ setup[s].at \in {"idle", "token", "forget"} /\ setup[s].of # None
        /\ setup[s].status = "error" /\ ~setup[s].ids
        => LET r == row[setup[s].of] IN r.status = "gone" \/ (r.status = "error" /\ ~r.ids)
RemovesSettled ==
    \A t \in Removers :
        remover[t].at \in {"share", "unroute", "unscript", "restore", "forward", "delete"}
        => remover[t].of # None /\ row[remover[t].of].status \notin {"absent", "provisioning"}
ScanIsOfRecorded ==
    \A x \in Scans : scan[x].at = "activate" => scan[x].of # None /\ row[scan[x].of].ids

IntegrationInv ==
    /\ IntegrationTypeOK /\ NotYetInserted /\ FailedIsOver /\ LiveIsRecorded
    /\ ForgetsFailed /\ RemovesSettled /\ ScanIsOfRecorded

\* The zone is on Cloudflare, its address forwarded by a rule of the customer.
Init ==
    /\ row = [s \in Setups |-> [status |-> "absent", ids |-> FALSE, hash |-> None]]
    /\ config = FALSE /\ trouble = {}
    /\ worker = None /\ rules = {Forward} /\ reached = {} /\ orphans = {}
    /\ unsure = FALSE /\ crossed = FALSE
    /\ setup = [s \in Setups |-> [at |-> "idle", of |-> None, status |-> "absent",
                                  ids |-> FALSE, found |-> {}]]
    /\ remover = [t \in Removers |-> [at |-> "idle", of |-> None, local |-> FALSE,
                                      keep |-> FALSE, erases |-> FALSE, todo |-> {}]]
    /\ scan = [x \in Scans |-> [at |-> "idle", of |-> None]]

-----------------------------------------------------------------------------
Goto(s, step) == setup' = [setup EXCEPT ![s].at = step]

\* Cloudflare answers with an error, and has changed nothing.
Refuses == "refused" \in Faults /\ trouble' = trouble \cup {"cloudflare"}
Grants == UNCHANGED trouble

\* No usable answer comes (a timeout, a broken connection): Cloudflare may or
\* may not have made the change it was asked for.
Loses == "lost" \in Faults /\ trouble' = trouble \cup {"cloudflare"}

\* The API process dies, or the database refuses a statement.
Dies == "crash" \in Faults /\ trouble' = trouble \cup {"crash"}

\* UPDATE cloudflare_integration SET ... WHERE id = r, of a row that may be gone.
Update(r, new) == row' = IF r \in Rows THEN [row EXCEPT ![r] = new] ELSE row

SetupUnderWay(s) == setup[s].at \notin {"idle", "raised", "done"}
BeingAnswered(s) == SetupUnderWay(s) /\ setup[s].at \notin Background

others == <<remover, scan, histories>>

(* setup_cloudflare                                                        *)

\* SELECT ... WHERE workspace_id = ? AND zone_name = ? LIMIT 1
SetupLook(s) ==
    /\ setup[s].at = "idle"
    /\ crossed' = (crossed \/ \E q \in Setups : BeingAnswered(q))
    /\ \/ /\ Rows = {}
          /\ setup' = [setup EXCEPT ![s].at = "token"]
       \/ \E r \in Rows :
            setup' = [setup EXCEPT ![s] = [@ EXCEPT !.at = "token", !.of = r,
                         !.status = row[r].status, !.ids = row[r].ids]]
    /\ UNCHANGED <<row, config, worker, rules, trouble, remover, scan, reached, orphans, unsure>>

\* The token of the request, else the stored one, else 400.
SetupToken(s) ==
    /\ setup[s].at = "token"
    /\ Goto(s, "forget") \/ (~config /\ Goto(s, "done"))
    /\ UNCHANGED <<row, config, worker, rules, trouble, others>>

\* DELETE of a failed attempt without Cloudflare ids; any other row found is
\* synchronised again, but answered 409 while it is being provisioned.
SetupForget(s) ==
    /\ setup[s].at = "forget"
    /\ LET r == setup[s].of IN
       \/ /\ r = None
          /\ Goto(s, "insert") /\ UNCHANGED row
       \/ /\ r # None /\ setup[s].status = "error" /\ ~setup[s].ids
          /\ Update(r, [row[r] EXCEPT !.status = "gone"])
          /\ Goto(s, "insert")
       \/ /\ r # None /\ ~(setup[s].status = "error" /\ ~setup[s].ids)
          /\ Goto(s, IF setup[s].status = "provisioning" THEN "done" ELSE "resync")
          /\ UNCHANGED row
    /\ UNCHANGED <<config, worker, rules, trouble, others>>

\* The consented DNS fixes; Cloudflare's refusal is stored and answered 502,
\* a call without an answer is a 500.
ResyncDns(s) ==
    /\ setup[s].at = "resync"
    /\ \/ Grants /\ Goto(s, IF setup[s].ids THEN "deploy" ELSE "store")
       \/ (Refuses \/ Loses) /\ Goto(s, "done")
    /\ UNCHANGED <<row, config, worker, rules, others>>

\* Mutant: the new hash is stored before the Worker is deployed.
ResyncDeployLate(s) ==
    /\ setup[s].at = "deploy"
    /\ LET r == setup[s].of IN Update(r, [row[r] EXCEPT !.hash = s])
    /\ \/ Grants /\ worker' = s /\ Goto(s, "store")
       \/ Refuses /\ UNCHANGED worker /\ Goto(s, "done")
    /\ UNCHANGED <<config, rules, others>>

\* deploy_email_worker with a new secret.  Only Cloudflare's own error is
\* caught: without an answer the request ends, and the secret of the Worker
\* may be the new one.
ResyncDeploy(s) ==
    /\ setup[s].at = "deploy"
    /\ \/ Grants /\ worker' = s /\ unsure' = FALSE /\ Goto(s, "rotate")
       \/ Refuses /\ UNCHANGED <<worker, unsure>> /\ Goto(s, "done")
       \/ Loses /\ worker' \in {worker, s} /\ unsure' = TRUE /\ Goto(s, "done")
    /\ UNCHANGED <<row, config, rules, remover, scan, reached, orphans, crossed>>

\* The hash of the secret the Worker was just given.
ResyncRotate(s) ==
    /\ setup[s].at = "rotate"
    /\ LET r == setup[s].of IN Update(r, [row[r] EXCEPT !.hash = s])
    /\ Goto(s, "store")
    /\ UNCHANGED <<config, worker, rules, trouble, others>>

\* _store_workspace_token, and the alert after it.
ResyncStore(s) ==
    /\ setup[s].at = "store"
    /\ config' = TRUE
    /\ Goto(s, "done")
    /\ UNCHANGED <<row, worker, rules, trouble, others>>

\* INSERT INTO cloudflare_integration, with no ids and no hash yet.
StartInsert(s) ==
    /\ setup[s].at = "insert"
    /\ row' = [row EXCEPT ![s].status = "provisioning"]
    /\ Goto(s, "keep")
    /\ UNCHANGED <<config, worker, rules, trouble, others>>

StartToken(s) ==
    /\ setup[s].at = "keep"
    /\ config' = TRUE
    /\ Goto(s, "dns")
    /\ UNCHANGED <<row, worker, rules, trouble, others>>

\* Mutant: 502 without a word in the row.
StartDnsSilently(s) ==
    /\ setup[s].at = "dns"
    /\ \/ Grants /\ Goto(s, "gateway")
       \/ Refuses /\ Goto(s, "done")
       \/ Loses /\ Goto(s, "raised")
    /\ UNCHANGED <<row, config, worker, rules, others>>

\* A refusal of the DNS fixes fails the attempt; else the gateway is
\* provisioned after the answer.  An exception of the HTTP client is not
\* caught: the request ends before the task is added, the row as it is.
StartDns(s) ==
    /\ setup[s].at = "dns"
    /\ \/ Grants /\ Goto(s, "gateway")
       \/ Refuses /\ Goto(s, "fail")
       \/ Loses /\ (Goto(s, "fail") \/ Goto(s, "raised"))
    /\ UNCHANGED <<row, config, worker, rules, others>>

-----------------------------------------------------------------------------
(* provision_connected_domain and CloudflareProvisioner.provision          *)

\* Whatever raises here fails the attempt.
Raises(s) == (Refuses \/ Loses) /\ Goto(s, "fail")

\* The zone, Email Routing (refused for a zone with another mail provider),
\* the destination address.
ProvisionGateway(s) ==
    /\ setup[s].at = "gateway"
    /\ (Grants /\ Goto(s, "script")) \/ Raises(s)
    /\ UNCHANGED <<row, config, worker, rules, others>>

\* The Worker is named after the zone: it replaces the one that is there.
ProvisionScript(s) ==
    /\ setup[s].at = "script"
    /\ \/ /\ worker' = s /\ reached' = reached \cup {s}
          /\ \/ Grants /\ unsure' = FALSE /\ Goto(s, "rules")
             \/ Loses /\ UNCHANGED unsure /\ Goto(s, "fail")
       \/ Raises(s) /\ UNCHANGED <<worker, reached, unsure>>
    /\ UNCHANGED <<row, config, rules, remover, scan, orphans, crossed>>

\* create_email_routing_rule: the rules of the address, each of them deleted
\* (deleting one that is gone is an error), then the rule to the Worker.
ProvisionRules(s) ==
    /\ setup[s].at = "rules"
    /\ \/ Grants /\ setup' = [setup EXCEPT ![s].at = "clear", ![s].found = rules]
       \/ Raises(s)
    /\ UNCHANGED <<row, config, worker, rules, others>>

ProvisionClear(s) ==
    /\ setup[s].at = "clear" /\ setup[s].found # {}
    /\ \E q \in setup[s].found :
         \/ /\ Grants /\ q \in rules
            /\ rules' = rules \ {q}
            /\ setup' = [setup EXCEPT ![s].found = @ \ {q}]
         \/ (Refuses \/ (Grants /\ q \notin rules)) /\ UNCHANGED rules /\ Goto(s, "fail")
         \/ Loses /\ rules' \in {rules, rules \ {q}} /\ Goto(s, "fail")
    /\ UNCHANGED <<row, config, worker, others>>

\* Mutant: a refused rule is noted in the row, and the provisioning goes on.
ProvisionRouteNoted(s) ==
    /\ setup[s].at = "clear" /\ setup[s].found = {}
    /\ \/ Grants /\ rules' = rules \cup {s} /\ UNCHANGED row
       \/ Refuses /\ UNCHANGED rules /\ Update(s, [row[s] EXCEPT !.status = "error"])
    /\ Goto(s, "record")
    /\ UNCHANGED <<config, worker, others>>

ProvisionRoute(s) ==
    /\ setup[s].at = "clear" /\ setup[s].found = {}
    /\ \/ Grants /\ rules' = rules \cup {s} /\ Goto(s, "record")
       \/ Refuses /\ UNCHANGED rules /\ Goto(s, "fail")
       \/ Loses /\ rules' \in {rules, rules \cup {s}} /\ Goto(s, "fail")
    /\ UNCHANGED <<row, config, worker, others>>

\* UPDATE ... SET zone_id, ..., shared_secret_hash, status; the destination
\* address is verified, or is not yet.
ProvisionRecord(s) ==
    /\ setup[s].at = "record"
    /\ \E st \in Live : Update(s, [status |-> st, ids |-> TRUE, hash |-> s])
    /\ Goto(s, "alert")
    /\ UNCHANGED <<config, worker, rules, trouble, others>>

\* The DNS fixes once more, whose failure is logged, and the alert row.
ProvisionAlert(s) ==
    /\ setup[s].at = "alert"
    /\ (Grants /\ Goto(s, "done")) \/ (Dies /\ Goto(s, "fail"))
    /\ UNCHANGED <<row, config, worker, rules, others>>

\* UPDATE ... SET status = 'error', whatever raised.
SetupFail(s) ==
    /\ setup[s].at = "fail"
    /\ Update(s, [row[s] EXCEPT !.status = "error"])
    /\ Goto(s, "done")
    /\ UNCHANGED <<config, worker, rules, trouble, others>>

\* The API process dies; nobody takes the background task up again.
SetupCrash(s) ==
    /\ SetupUnderWay(s) /\ Dies
    /\ Goto(s, "done")
    /\ UNCHANGED <<row, config, worker, rules, others>>

Setup(s) ==
    \/ SetupToken(s) \/ SetupForget(s) \/ ResyncDns(s) \/ ResyncDeploy(s) \/ ResyncRotate(s)
    \/ ResyncStore(s) \/ StartInsert(s) \/ StartToken(s) \/ StartDns(s)
    \/ ProvisionGateway(s) \/ ProvisionScript(s) \/ ProvisionRules(s) \/ ProvisionClear(s)
    \/ ProvisionRoute(s) \/ ProvisionRecord(s) \/ ProvisionAlert(s) \/ SetupFail(s)

-----------------------------------------------------------------------------
(* teardown_cloudflare, and erase_account around it                        *)

RemoverGoto(t, step) == remover' = [remover EXCEPT ![t].at = step]

RemoverUnderWay(t) == remover[t].at \notin {"idle", "removed", "refused"}

RemoverIdle(t) ==
    /\ remover[t].at = "idle"
    /\ crossed' = (crossed \/ \E q \in Removers : RemoverUnderWay(q))

\* The customer removes one connected domain; 404 without any.
TeardownBegin(t) ==
    /\ RemoverIdle(t)
    /\ \/ Rows = {} /\ RemoverGoto(t, "refused")
       \/ \E r \in Rows : remover' = [remover EXCEPT ![t].at = "look", ![t].of = r]

\* erase_account: refused while any domain of the workspace is provisioning.
EraseBegin(t) ==
    /\ RemoverIdle(t)
    /\ IF \E r \in Rows : row[r].status = "provisioning"
         THEN RemoverGoto(t, "refused")
         ELSE remover' = [remover EXCEPT ![t].at = "choose", ![t].erases = TRUE, ![t].todo = Rows]

EraseChoose(t) ==
    /\ remover[t].at = "choose" /\ remover[t].todo # {}
    /\ \E r \in remover[t].todo :
         remover' = [remover EXCEPT ![t].at = "look", ![t].of = r, ![t].todo = @ \ {r}]

\* Mutant: a domain that is being provisioned may be removed.
TeardownLookAny(t) ==
    /\ remover[t].at = "look"
    /\ LET r == remover[t].of IN
       IF r \notin Rows THEN RemoverGoto(t, "refused")
       ELSE remover' = [remover EXCEPT
              ![t].at = IF row[r].ids THEN "share" ELSE "delete",
              ![t].local = row[r].status = "error" /\ ~row[r].ids]

\* SELECT of the row: 404 without, 409 while it is being provisioned.
TeardownLook(t) ==
    /\ remover[t].at = "look"
    /\ LET r == remover[t].of IN
       IF r \notin Rows \/ row[r].status = "provisioning" THEN RemoverGoto(t, "refused")
       ELSE remover' = [remover EXCEPT
              ![t].at = IF row[r].ids THEN "share" ELSE "delete",
              ![t].local = row[r].status = "error" /\ ~row[r].ids]

\* SELECT of other integrations with the name of this Worker; one that the
\* settings protect is kept as well.
TeardownShare(t) ==
    /\ remover[t].at = "share"
    /\ \E keep \in BOOLEAN :
         /\ (\E q \in Rows \ {remover[t].of} : row[q].ids) => keep
         /\ remover' = [remover EXCEPT ![t].at = "unroute", ![t].keep = keep]

RemoverReads(t) ==
    /\ EraseChoose(t) \/ TeardownLook(t) \/ TeardownShare(t)
    /\ UNCHANGED <<row, config, worker, rules, setup, scan, trouble, histories>>

outside == <<row, config, setup, scan, histories>>

\* delete_email_rule; Cloudflare's error is logged and the teardown goes on,
\* an exception of the HTTP client is answered 500.
TeardownUnroute(t) ==
    /\ remover[t].at = "unroute"
    /\ LET next == IF remover[t].keep THEN "restore" ELSE "unscript"
           without == rules \ {remover[t].of}
       IN \/ Grants /\ rules' = without /\ RemoverGoto(t, next)
          \/ Refuses /\ UNCHANGED rules /\ RemoverGoto(t, next)
          \/ /\ Loses /\ rules' \in {rules, without}
             /\ RemoverGoto(t, next) \/ RemoverGoto(t, "refused")
    /\ UNCHANGED <<worker, outside>>

\* The Worker is kept when the catch-all rule sends mail to it, or cannot be
\* read; a failing deletion ends the request.
TeardownUnscript(t) ==
    /\ remover[t].at = "unscript"
    /\ \/ Grants /\ worker' = None /\ RemoverGoto(t, "restore")
       \/ (Grants \/ Refuses \/ Loses) /\ UNCHANGED worker /\ RemoverGoto(t, "restore")
       \/ Refuses /\ UNCHANGED worker /\ RemoverGoto(t, "refused")
       \/ Loses /\ worker' \in {worker, None} /\ RemoverGoto(t, "refused")
    /\ UNCHANGED <<rules, outside>>

\* _forwarding_to_restore: the address of the account that connected the zone
\* is given its forward back, unless it is not one of the zone or receives
\* the mail itself.  restore_forwarding has nothing to do while the address
\* has any rule.
TeardownRestore(t) ==
    /\ remover[t].at = "restore"
    /\ \/ Grants /\ RemoverGoto(t, IF remover[t].of \in Owned /\ rules = {} THEN "forward" ELSE "delete")
       \/ (Refuses \/ Loses) /\ RemoverGoto(t, "delete")
    /\ UNCHANGED <<rules, worker, outside>>

\* Mutant: connecting replaced the forward rule, and nothing gives it back.
TeardownForwardNot(t) ==
    /\ remover[t].at = "forward"
    /\ Grants /\ UNCHANGED rules
    /\ RemoverGoto(t, "delete")
    /\ UNCHANGED <<worker, outside>>

\* Whatever raises is logged, and the teardown goes on.
TeardownForward(t) ==
    /\ remover[t].at = "forward"
    /\ LET with == rules \cup {Forward} IN
       \/ Grants /\ rules' = with
       \/ Refuses /\ UNCHANGED rules
       \/ Loses /\ rules' \in {rules, with}
    /\ RemoverGoto(t, "delete")
    /\ UNCHANGED <<worker, outside>>

\* DELETE FROM cloudflare_integration WHERE id = ?
TeardownDelete(t) ==
    /\ remover[t].at = "delete"
    /\ LET r == remover[t].of IN Update(r, [row[r] EXCEPT !.status = "gone"])
    /\ RemoverGoto(t, "remain")
    /\ UNCHANGED <<config, worker, rules, setup, scan, trouble, histories>>

\* An erasure goes on with the next domain.
Removed(t) == IF remover[t].erases THEN "choose" ELSE "removed"

TeardownRemain(t) ==
    /\ remover[t].at = "remain"
    /\ RemoverGoto(t, IF Rows = {} /\ ~remover[t].local THEN "forget" ELSE Removed(t))
    /\ UNCHANGED <<row, config, worker, rules, setup, scan, trouble, histories>>

\* The last domain takes the token, and the cached shield status, with it.
TeardownForget(t) ==
    /\ remover[t].at = "forget"
    /\ config' = FALSE
    /\ RemoverGoto(t, Removed(t))
    /\ UNCHANGED <<row, worker, rules, setup, scan, trouble, histories>>

\* WORKSPACE_TABLES: the token, then whatever integrations there are.
EraseToken(t) ==
    /\ remover[t].at = "choose" /\ remover[t].todo = {}
    /\ config' = FALSE
    /\ RemoverGoto(t, "rows")
    /\ UNCHANGED <<row, worker, rules, setup, scan, trouble, histories>>

\* DELETE FROM cloudflare_integration WHERE workspace_id = ?
DeleteRows ==
    /\ row' = [s \in Setups |-> IF s \in Rows THEN [row[s] EXCEPT !.status = "gone"] ELSE row[s]]
    /\ orphans' = orphans \cup {s \in Rows : row[s].status = "provisioning" /\ SetupUnderWay(s)}

EraseRows(t) ==
    /\ remover[t].at = "rows"
    /\ DeleteRows
    /\ RemoverGoto(t, "removed")
    /\ UNCHANGED <<config, worker, rules, setup, scan, trouble, reached, unsure, crossed>>

\* The API dies, or a statement raises: the call ends where it is.
RemoverCrash(t) ==
    /\ RemoverUnderWay(t) /\ Dies
    /\ RemoverGoto(t, "refused")
    /\ UNCHANGED <<worker, rules, outside>>

Remover(t) ==
    \/ RemoverReads(t) \/ TeardownUnroute(t) \/ TeardownUnscript(t) \/ TeardownRestore(t)
    \/ TeardownForward(t) \/ TeardownDelete(t) \/ TeardownRemain(t) \/ TeardownForget(t)
    \/ EraseToken(t) \/ EraseRows(t)

-----------------------------------------------------------------------------
(* delete_workspace_cloudflare_token, and the scans of arriving mail       *)

DropToken(t) ==
    /\ RemoverIdle(t)
    /\ config' = FALSE /\ RemoverGoto(t, "dropped")
    /\ UNCHANGED <<row, worker, rules, setup, scan, trouble, reached, orphans, unsure>>

\* The integrations go without a call to Cloudflare.
DropRows(t) ==
    /\ remover[t].at = "dropped"
    /\ DeleteRows /\ RemoverGoto(t, "removed")
    /\ UNCHANGED <<config, worker, rules, setup, scan, trouble, reached, unsure, crossed>>

\* The lookup by the hash of the Worker's secret, among the rows in use.
ScanLook(x) ==
    /\ scan[x].at = "idle" /\ worker # None
    /\ LET known == {r \in Rows : row[r].hash = worker /\ row[r].status \in Live} IN
       \/ known = {} /\ scan' = [scan EXCEPT ![x].at = "done"]
       \/ \E r \in known :
            scan' = [scan EXCEPT ![x] = [at |-> IF row[r].status = "active" THEN "done" ELSE "activate",
                                         of |-> r]]
    /\ UNCHANGED <<row, config, worker, rules, setup, remover, trouble, histories>>

\* UPDATE cloudflare_integration SET status = 'active' WHERE id = ?
ScanActivate(x) ==
    /\ scan[x].at = "activate"
    /\ LET r == scan[x].of IN Update(r, [row[r] EXCEPT !.status = "active"])
    /\ scan' = [scan EXCEPT ![x].at = "done"]
    /\ UNCHANGED <<config, worker, rules, setup, remover, trouble, histories>>

RemoverBegin(t) ==
    \/ DropToken(t)
    \/ /\ TeardownBegin(t) \/ EraseBegin(t)
       /\ UNCHANGED <<row, config, worker, rules, setup, scan, trouble, reached, orphans, unsure>>

Next ==
    \/ \E s \in Setups : SetupLook(s) \/ Setup(s) \/ SetupCrash(s)
    \/ \E t \in Removers :
         RemoverBegin(t) \/ Remover(t) \/ DropRows(t) \/ RemoverCrash(t)
    \/ \E x \in Scans : ScanLook(x) \/ ScanActivate(x)

Spec == Init /\ [][Next]_vars

\* Every call to Cloudflare has a timeout: a setup that began, and the task it
\* leaves behind, go on.
Fairness == \A s \in Setups : WF_vars(Setup(s))
FairSpec == Spec /\ Fairness

-----------------------------------------------------------------------------
(* What connecting and disconnecting promise.                              *)

\* Between two calls that change the Worker, the secret it was deployed with
\* is the one every live integration of the zone knows: its scans are not
\* answered 401, which would deliver the zone's mail unscanned, whatever
\* Cloudflare refuses and whichever other calls get no answer.  It holds as
\* long as an answer came when the Worker was last deployed, no row was
\* deleted under the task that provisions it, no process died between the two
\* halves, and setups and removals were answered one at a time.
WorkerIsTrusted ==
    /\ worker # None /\ ~unsure /\ ~crossed /\ orphans = {} /\ "crash" \notin trouble
    /\ \A s \in Setups : setup[s].at \notin {"rotate", "rules", "clear", "record"}
    => \A r \in Rows : row[r].status \in Live => row[r].hash = worker

AtRest ==
    /\ trouble = {} /\ orphans = {} /\ ~crossed
    /\ \A s \in Setups : setup[s].at \notin Background
    /\ \A t \in Removers : ~RemoverUnderWay(t)

\* When nothing is under way, Cloudflare granted everything and calls did not
\* cross, mail of the protected address has a rule, and one to a Worker only
\* if it is deployed.  It is without a rule only where an integration was
\* removed that the owner of the address had not made.
MailHasRoute ==
    AtRest =>
        /\ rules = {} => \E r \in Setups \ Owned : row[r].status = "gone"
        /\ rules \subseteq {Forward} \/ worker # None

\* A domain that is being provisioned is removed by no teardown and no
\* repeated setup: only the deletion of all rows of a workspace does that.
ProvisioningIsNotTornDown ==
    [][\A s \in Setups :
         row[s].status = "provisioning" /\ SetupUnderWay(s) /\ row'[s].status = "gone"
           => s \in orphans']_vars

\* An attempt that failed before its gateway was recorded stays failed: no
\* late task and no late scan makes its row a live one.
FailedStaysFailed ==
    [][\A s \in Setups :
         row[s].status = "error" /\ ~row[s].ids => row'[s].status \in {"error", "gone"}]_vars

\* Unless the API dies, or the HTTP client raised before the task was added,
\* a provisioning comes to an end the customer can see.
ProvisioningEnds ==
    \A s \in Setups :
        row[s].status = "provisioning"
          ~> row[s].status # "provisioning" \/ setup[s].at = "raised" \/ "crash" \in trouble

-----------------------------------------------------------------------------
(* What comments and answers say and the code does not keep.               *)

\* integrations.py:159: a row 'error' without ids "never reached Cloudflare".
FailedNeverReached ==
    \A s \in Setups : row[s].status = "error" /\ ~row[s].ids => s \notin reached

\* integrations.py:567-569: connecting "replaced the protected address's own
\* forward with the Worker rule.  Give it back so its mail keeps arriving".
ForwardIsGivenBack == AtRest => rules # {}

\* integrations.py:194, the 409 about a row 'provisioning': the configuration
\* "is already running in the background.  Please wait."
ProvisioningIsRunning ==
    \A s \in Setups :
        row[s].status = "provisioning" /\ "crash" \notin trouble => SetupUnderWay(s)
=============================================================================
