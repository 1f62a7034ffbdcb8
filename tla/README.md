# Sicurre: TLA+ models, checks and proofs

Sicurre protects the mail of small organisations. Their domain's mail arrives at a
Cloudflare Email Worker, which asks the Sicurre API whether a message is phishing,
and forwards it, refuses it, or has the API keep it in quarantine, where a user
releases or deletes it. Around that path the API connects a customer's Cloudflare
zone, watches the domain's DNS records, takes in DMARC reports and forwarded
messages; a data platform collects and curates the training data of the classifier.

This directory holds TLA+ modules of that code, the TLC configurations that check
them, and proofs for TLAPS. `PROJECT.json` lists every run, mutant, mapped
definition, hazard and theorem. Paths below are relative to the repository.

    tlc -workers 2 -config CustodyRaces.cfg MCQuarantineCustody.tla
    tlapm MailGateway_proofs.tla

## 1. The system: inventory

| Component | Code | State it keeps | Operations | What makes it correct |
|---|---|---|---|---|
| Email Worker | `src/data_platform/services/assets/email_gateway_worker.js` | none; one invocation per delivery | ingest a report, ask for a scan (10 s), forward, refuse, upload the raw MIME (15 s) | every delivery gets one fate; nothing is swallowed that is not in custody |
| Email scan | `src/data_platform/api/routers/email_scan.py` `scan_email` | `app_quarantine_item`, `app_inference_event`, `app_alert_history`, integration status | look up what is known of the message, classify, hold, alert, notify, journal, activate | one item, one alert per message; a held message is never called safe later |
| Custody upload | same file, `upload_quarantine_content` | raw object, `raw_storage_uri`, `raw_content_hash`, `body_text` | check, write, record, rebuild the preview | a recorded copy exists |
| Release, whitelist, delete | `src/data_platform/api/routers/quarantine.py`, `services/quarantine_delivery.py` | item status, mailbox, corrections, sender rules | claim, read, send, settle, correct, drop; delete object, scrub row | one release at a time; "released" means delivered; a deletion is final |
| Retention | `services/quarantine_retention.py`, `cron_schedulers/app/run_quarantine_purge.py`, `cli/app/provision_quarantine_lifecycle.py` | item status, raw object | purge by cron and by every listing; the bucket's lifecycle rule | nothing outlives the retention |
| Preview rebuild | `cli/app/rebuild_quarantine_previews.py` | `body_text` | re-decode held items | never writes into a deleted row |
| Cloudflare integration | `api/routers/integrations.py`, `cloudflare_account.py`, `services/cloudflare_provisioner.py`, `cloudflare_onboarding.py` | `cloudflare_integration`, provisioning records, the zone's Worker, secret, routing rule | setup, resync, disconnect, rotate the secret | the Worker's secret and the stored hash agree; mail always has a route |
| Accounts | `services/account_erasure.py`, `api/auth.py`, `api/routers/session.py`, `admin.py`, `src/core/security.py` | workspaces, memberships | bootstrap, erase | nothing outlives an erased account; nobody is shut out of one |
| Domain shield | `api/routers/domain_shield.py`, `services/domain_shield_sync.py`, `dns_records.py` | current status, history rows with validity intervals | refresh, monitor, merge DNS records | one open history row per domain; merging keeps what others published |
| Reports | `api/routers/dmarc_reports.py`, `reported_email.py`, `services/reported_email.py` | reports by fingerprint, reporting addresses | import, ingest | each report counted once |
| Alerts, threats, notifications | `api/routers/alerts.py`, `threats.py`, `services/notification_policy.py` | preferences, dismissals | list, dismiss, decide on quiet hours | quiet hours over midnight |
| Operations | `api/routers/admin.py`, `operational_exercises.py`, `src/core/operational_exercises.py`, `services/runtime_probes.py` | exercises | start, end, probe | one exercise at a time |
| Provenance and datasets | `services/model_provenance.py`, `dataset_publish.py`, `evaluation_set_asset.py` | lineage records, published assets | register, publish | repeated callbacks change nothing |
| Ingestion | `cron_schedulers/`, `cli/maintenance/cron_orchestrator.py`, `services/shared/watermark.py`, `snapshot_storage.py` | watermarks, runs, raw snapshots | ingest, resume | nothing skipped or counted twice |
| Curation | `services/shared/normalization_pipeline.py`, `review_persistence.py`, `stage_two_*.py`, `adaptation.py` | messages, samples, annotations | normalise, generate, promote, accept, annotate | a text once; no release refused for it |

Outside the models for good: `auth-service` (a configuration of a library that keeps
its own state), the React application, metrics, logs and rate limiting, text
decoding, deployment, `src/poc`, migrations.

**How they interact.** The Worker calls the API over HTTP with a shared secret; the
API and the crons share one database and one bucket; Cloudflare sends the released
copies. There is no lock and no transaction beyond a statement:
`execute_runtime_query` (`src/db/runtime.py`) opens and commits one per call. All
coordination is by unique keys and by conditions in the UPDATEs, and the hard
behaviour is what happens between two awaits of a request while the others run,
when a call's answer is lost or late, and when a process dies halfway.

## 2. What is modelled

### `QuarantineCustody`: one message between three stores

The row of `app_quarantine_item` (`status`, `raw`, `preview`, `expired`), the raw
object in the bucket (`object`) and the outcome outside (`delivered`, `acked`,
`corrected`, `rules`), for every item. Each request is a process and its variable
says where it stands; an action is one statement or one outside call with the code
up to the next await.

| Variables | In the code |
|---|---|
| `status` | the column; "absent" before the INSERT |
| `raw` | `raw_content_hash` while `raw_storage_uri` is set. The URI is a function of the item, so it carries no more than being set |
| `preview` | whether sender, subject and body still hold mail content |
| `expired` | whether `expires_at` has passed |
| `object` | the bytes under the item's key |
| `delivered`, `acked` | the copies Cloudflare accepted; those the API learnt of |
| `upload`, `release`, `delete`, `purge`, `rebuild` | where each request stands |
| `discarded` | history only: a person or the retention removed the raw copy |

| Actions | In the code |
|---|---|
| `UploadCheck`, `UploadWrite`, `UploadRecord`, `UploadPreview` | `upload_quarantine_content` |
| `WhitelistPrecheck`, `FindRule`, `AddRule` | `release_and_whitelist_item` around `_release_quarantine_item` |
| `ReleaseLookup` to `ReleaseForget` | `_release_quarantine_item`, `send_raw_email`, `_record_release_feedback` |
| `DeleteLookup`, `DeleteObject`, `DeleteScrub` | `delete_quarantine_item` |
| `PurgeSelect`, `PurgeObject`, `PurgeSkip`, `PurgeScrub` | `purge_expired_quarantine` |
| `RebuildSelect`, `RebuildRead`, `RebuildWrite` | `rebuild_previews` |
| `LifecycleExpire` | the rule `provision_lifecycle` installs, applied by the bucket |
| `Hold` | the INSERT of `scan_email` |
| `...Crash` | a statement raises or the process dies; only when `Crashes` is TRUE |

Failures the code handles (the bucket or Cloudflare refuses, the answer of a delivery
is lost) are always possible; the constant `Crashes` adds the others. In all modules a
database statement that raises has changed nothing: that a commit goes through and its
acknowledgement is lost is not modelled.
The conditions the code leaves out are left out: the UPDATEs that end a release, the
one of a deletion and those of an upload do not look at the status, and neither do
`ReleaseEnd`, `DeleteScrub`, `UploadRecord`, `UploadPreview`.

Abstractions: bytes are model values (a hash identifies them); the destination
address, the token and the integration's state are a nondeterministic refusal; the
release's claim and the lookup of a sender's rule are per item, so a rule shared by
two items of one sender is not.

### `MailGateway`: Worker, scan and journal on top of it

Extends `QuarantineCustody`. Each delivery has a Worker (`worker`), a scan (`scan`,
`seen`, `verdict`) and the upload of the module below; deliveries of one message meet
on its item, its journal row (`event`) and its alerts. The three concurrent lookups of
`asyncio.gather` are separate steps in any order (the rules' one enters through the
verdict, which is nondeterministic: blocklist or inference). The Worker may stop
waiting at any time, and the scan or upload it left behind goes on. `Reports`,
`Platform` and `Foreign` say which deliveries take the Worker's and the scan's early
exits. `known` is a history variable.

### `MessageFate`: what the path promises

The abstract specification: a delivery is decided once, and is *kept* only when its
message went into custody, which ends by delivery or by being given up. `MailGateway`
instantiates it with a refinement mapping (`Fate`, by `CustodyOf` and `FateOf`);
`ImplementsFate` is checked as a property and proved.

### `ReportIngestion`: the reporting addresses

Extends `MailGateway`, which lets a report have any outcome: here the Worker has the
outcome its request was answered with (`WorkerOutcome`). `kind` says to which of the two
addresses a delivery goes; `ingest` is the step of `ingest_reported_email` (look up by
fingerprint, write the object, insert the row, insert the feedback) or of
`persist_dmarc_report` (one `INSERT ... ON CONFLICT` per record, `cursor`); `evidence`,
`reported`, `feedback` and `imported` are the bucket and the three tables. Requests die
between statements and go on after their Worker gave up. `Activated` stands for the scan of
any other message, which activates the integration.

Not promised, and visible in the model: a crash between the two INSERTs leaves a report
without its feedback, and the retry is answered as accepted; the loser of two equal reports
leaves an object no row points to.

### `CloudflareIntegration`: one zone, connected and disconnected

| Variables | In the code |
|---|---|
| `row[s]` | the `cloudflare_integration` row that setup `s` inserted: status, whether it has Cloudflare ids, the hash of its secret |
| `config` | a token in `app_cloudflare_config` |
| `worker`, `rules` | Cloudflare: the secret the Worker was deployed with, the routing rules of the address |
| `setup[s]`, `remover[t]`, `scan[x]` | where a call is, and what it read before |
| `trouble` | history: whether a call to Cloudflare failed, whether a process died |
| `reached`, `orphans` | history: rows whose provisioning changed the zone; rows deleted under their provisioning |
| `unsure` | history: no answer came when a Worker in use was last deployed again |
| `crossed` | history: two setups, or two removals, were being answered at once |

`Setup...` and `Start...` are `setup_cloudflare`, `Resync...` its branch for a live row with
the rotation of the secret, `Provision...` the background task `provision_connected_domain` with
the provisioner's `provision`; `Teardown...` is `teardown_cloudflare` with the provisioner's `teardown`,
`Erase...` the part of `erase_account` that disconnects every domain, `Drop...` the deletion
of the token. A step is one call to Cloudflare or one statement.

A row is named by its setup, a secret by the setup that made it.

A call to Cloudflare is granted, refused (`Refuses`: an error answer, nothing changed) or gets no
answer (`Loses`: the HTTP client times out or the connection breaks, and Cloudflare may or may not
have done what it was asked). The code tells the last two apart: `CloudflareAPIError` is caught
almost everywhere, an exception of the HTTP client only by the background task and by the
restoration of the forward. Elsewhere it ends the request:

- when the Worker of a live row is deployed again (`ResyncDeploy`), it may leave the new secret at
  Cloudflare and the old hash in the row, so that every scan of the zone is a 401 until the next
  setup. `WorkerIsTrusted` excludes this case by `unsure`, and no other;
- in the DNS update of a new setup (`StartDns`), it leaves the row 'provisioning' and the task
  not added (step "raised");
- in a teardown it ends the request where it is, and the row stays.

A teardown gives a forward back (`TeardownRestore`) only to the account that connected the zone,
and only if its address is one of the zone and is not itself the destination; the rules that
connecting removed are those of the protected address. `Owned` are the setups where the two are
the same address and the forward can be restored.

There is no lock: two setups of one zone may both find no row and insert two, and two removals may
go for one row. The model has all of that; what it leads to (two rows with one Worker, whose
secret only one of them knows) is left out of `WorkerIsTrusted` and `MailHasRoute` by `crossed`.

### `DnsRecords`, `DomainShield`: the customer's DNS

`DnsRecords` has the pure part: `MergeSpf`, `MergeDmarc`, `WithdrawReporting`,
`PlannedChange` of `dns_records.py`, an SPF record being its version and its terms in order
and a DMARC record its two policies and the mailboxes of its two reporting tags. The loop of
`merge_spf` is said without a loop: what it keeps are the terms at the indices `KeptAt` (neither
an "all", nor withdrawn, nor seen before), in their order (`Picked`), and the last "all".
`DomainShield` runs them: `Sync...` is `sync_domain_shield_dns` (records read once, written one
by one to what is there by then), `Leave...` the withdrawal of a teardown (which withdraws nothing
from the platform's own zone, or where the records cannot be read), `Edit` the customer
in Cloudflare's dashboard, `Refresh...` the refresh and the monitor (`Score`, the comparison
with the current row, alert, mail unless in quiet hours, closing of the current rows, opening
of the new one). `own` and `clobbered` are history variables.

Kept as the code has it: a record spelled `V=SPF1` is read as SPF and replaced by the merge;
`sp=reject` alone makes the fix set `p=reject`; a write may go over an edit made since the
read (`clobbered`), and two refreshes may leave two current rows.

### `OperationalExercises`

`active` and `timers` are the manager's memory, `row` the table, `call` the requests, each of
which first reconciles rows and signal (`Sync...`). `Restart` empties the memory. Where
`operational_tests_enabled` is set (`enabled`, chosen anew by each restart) the start of the API
then reconciles, which restores signal and timers, unless the database refuses (`SyncFails`): the
code logs that and leaves the rows to the next request of an administrator. The UPDATE of the
row's timer may be refused as well, and is not tried again. `forgotten` records the exercises
whose end was given up in one of these ways, until a reconciliation takes them up. `manual` and
`auto` are the log, `early` the exercises that were recovered while their row was being inserted,
for which the code promises nothing (the recovery updates no row, the INSERT then leaves an active
one that a later reconciliation closes).

### `Accounts`: a member, the workspace and its erasure

| Variables | In the code |
|---|---|
| `identity` | the member's rows in the tables of the auth service |
| `workspace`, `member`, `made` | `app_workspace` and `app_workspace_membership` of the member: one each, by their unique keys; identifiers are fresh |
| `legacy` | the workspace of the rows that were recorded for the address before there was one |
| `domain[z]`, `items[w]`, `copies`, `rows` | connected domains, a quarantined message and its raw copy, the other tables |
| `evidence` | the bucket objects of emails that the member reported |
| `act[a]`, `crossed` | where a request is, and what it read; history: something met an erasure that deletes |

`Authenticate` to `Adopt` is what every request of a member does first (`get_current_user`), and
`Work` stands for what any of them writes then; `Mail...` is a message that is held, and its upload,
`Report...` a reported email, whose sanitized object is in the bucket before its row is inserted;
`Erase...` is `erase_account`, begun by the member or (`Admin...`) by a platform administrator. The
teardown of a domain is one step here; `CloudflareIntegration` has all of it.

An erasure is a row of statements, and so is the creation of a workspace: `Fails` may end either in
between. If it ends between membership and workspace, no request of the member can go on (the
workspace is not found, and a second one breaks the unique key): `MemberCanReturn` says that
nothing but a failure leads there.

An erasure deletes the row of a reported email and not its object, so that the object is left by
every erasure of an account that has one. `OnlyEvidenceOutlives` says that this is all that an
erasure leaves which nothing crossed.

### `IngestionRuns`, `CommonCrawl`: collection

`IngestionRuns` is what the ingestion services of all sources have in common: a job
reads where its source was left off, opens a run, fetches, drops what is recorded, stores a
snapshot, commits object and records, completes the run. `Feeds` know what is new by the
latest submission among their records, `Clocked` by a stored time that is set after the run,
`Whole` fetch everything, `Crawled` ingest what the crawl flushed. `JobCrash` may happen between
any two steps, `ResetRuns` is the orchestrator's `_reset_scheduled_runs`. `CommonCrawl` adds the extractor: the
indices its checkpoint does not call complete, newest first, with a time limit; the flush of
each; the checkpoint; then one run per flushed snapshot.

Assumed: one job at a time (the crontab, `deploy/hetzner/sicurre-crontab.example`, starts them
at different times and the orchestrator is sequential), a source that does not publish between
a job's query and its clock, a feed in the order of submission. A failure of the index server
is swallowed by the code, so that an index may be complete without pages; a snapshot flushed
before a crash is never ingested; a reset keeps marks and checkpoint. None of these is a
promise of the code, and no property states one.

### `Curation`: the writers of the curated messages

A text enters `data_normalized_message` once (`text_sha256` is unique) by one of four ways: a
batch of raw records (`Normalize...`, `run_batch`), a generation lane that stages its drafts and
promotes the usable ones in one transaction (`Lane...`,
`persist_generation_bundle_with_gated_promotion`), a person who promotes selected drafts
(`Review...`), and the acceptance of rewritten Common Crawl pages (`Accept...`). Each looks which
texts are there and inserts later; one that another has inserted meanwhile refuses the whole
batch (`Refuse`). `Annotate...` is the backfill, `Reset` the orchestrator's deletion of scheduled
records, `DeleteMessage` the API's. `TextOf` stands for extraction, routing and drafting, which
are functions of the content; lanes and their seeds are fixed, so that a lane has the same
drafts in every run. `ever` and `overtaken` are history: texts once curated, jobs during whose
run another one inserted.

`OnlyOvertakenCollide` leaves out promotion by a person, which does not look for repetitions
among the drafts. Kept as the code has it: without `--all-pending` (the Makefile has it) a batch
takes the oldest records without a message, and those rejected before are among them, so that
enough of them keep every later record out; a record whose message was deleted comes back with
the next batch; a record keeps its `rejection_reason` when a rewritten page of it is accepted; a
release that promotes nothing still records its samples.

### `DatasetRelease`, `ModelLineage`: from messages to a model in production

`DatasetRelease`: normalisation, annotation and relabelling of messages, the backfill of
annotations, the repository's `build` with its 80/10/10 split per label (`SplitCounts`), the freeze, and
the publication to Kaggle and GitHub (`PublishPush`, `PublishRecord`, `PublishDispatch`, each of
which may die). `ModelLineage` has the callbacks of `services/model_provenance.py`: evaluation sets
and their approval, candidates, evaluations, deployments. `decisions` and `calls` are callbacks of
evaluations and of deployments that have read and not yet committed, `Overlap` of both kinds
together at a time; one that read an earlier stage of a model writes over a later one, and one
whose run has been recorded meanwhile meets a unique key (`EvaluateAbort`, `DeployAbort`).

The three queries of the export are one step. A callback that repeats an earlier one changes
nothing and is no step; that the exact replay of a deployment which has since retired is
answered 409, although `docs/architecture/ml-provenance-contract.md:148` says 200, is left out
with it. Kept as the code has it: a rejected candidate may be deployed on an earlier passed
evaluation; a redeployment leaves several deployments active; `rolled_back` is only recorded;
annotations do not change `current_label`, which is what is exported, and a PATCH changes what
a frozen version exports; a candidate's dataset need not be frozen; two deployments handled at
once may leave two models in production, and an evaluation that failed may take the model out of
production that was deployed meanwhile; a message that is annotated cannot be deleted (the
annotation's key to it may not be null, and the deletion is refused).

## 3. What is checked

TLC runs (each with its constants in the `.cfg` of its name; two workers, none above four
minutes on two cores):

| Run | Instance | Shows |
|---|---|---|
| `CustodyRaces` | 1 item, 2 uploads of different copies, a release, a whitelist call, 1 deletion, 1 purge runner, rebuild, lifecycle rule, crashes; 4.2 M states | one release at a time; nothing marked delivered that was not, and no sender rule from it; a recorded copy is there; an acknowledged delivery is final; a deletion no older request can overwrite is final |
| `CustodyLiveness` | 1 item, 1 upload, a release and a whitelist call, 1 deletion, 1 purge runner, no crashes; 70 K states | claims end; the retention is applied to every expired item, and to every raw copy |
| `GatewayDuplicates` | 1 message delivered twice with different bytes, crashes, a deletion; 2.0 M states | implements `MessageFate`; a message once held is never answered "safe"; one alert and mail at most |
| `GatewayCustody` | 1 message delivered twice, a release, a deletion, no crashes; 2.8 M states | what the Worker kept is in the bucket and can be released; the journal agrees with the quarantine |
| `ReportIngestion` | 2 deliveries of one report, of either kind, one to another's domain, 2 records, a delivery to the platform; 620 K states | a report the Worker swallows is stored; every delivery is decided |
| `Curation` | a job of each kind, two at a time, 2 records, 3 drafts, 1 candidate, 2 texts, a deletion, reset or death; 120 K states | no job is refused for what it could see; what a run released is curated; every acceptable record is curated |
| `IntegrationLifecycle` | 2 setups, one of them by the owner of the address, 1 removal, 1 scan, refusals, lost answers and crashes; 1.2 M states | every live integration's secret is the Worker's; mail has a route; a provisioning is not torn down, and ends; a failed attempt stays failed |
| `ShieldZone` | 38 zones with many SPF or DMARC records, a sync, a withdrawal, an edit, 2 refreshes, a day of 3 minutes; 1.9 M states | the customer's records survive; a fix never weakens a policy and is not repeated; a zone with a history has a current row; no mail in quiet hours |
| `Administration` | exercises: 2 starts, a recovery, a restart, all timers; accounts: a member, new or with 2 domains and a message in quarantine, a request, an erasure of each kind, a message that arrives or is reported, a failure; 570 K states | one exercise at a time; a manual recovery is not logged as automatic; every row ends that is not forgotten; nothing outlives an account but evidence objects and what crossed the erasure; a member is not shut out |
| `Intake` | one source of each scheduled kind, 2 publications, 2 runs; 8.1 M states | no record twice, nothing skipped, records traceable, complete indices flushed |
| `Release` | 1 message, 1 version, 2 models with 2 evaluations and 2 deployments, two callbacks at a time; 2.2 M states | a model in production is evaluated; a training is traceable; splits are fair |
| `TimedOutForgotten` | the crawl alone, 2 indices | the divergence of the next section |

**Bounds.** All interaction in the mail path is through one item: no statement touches two.
So one item with two requests of each racing kind covers what pairs can do to each other, and
the proofs of section 4 show the same for any number. Two copies (`b1`, `b2`) are enough to
tell "the same" from "another". `CloudflareIntegration` needs two setups and one removal for
"connected, disconnected, connected again", `Intake` two publications for "skipped" (one job's
mark against another job's records), `MaxRuns = 2` for a run after a failed one, `Lookback = 2`
for a newer index beside an older one. `Release` has one message because two are beyond five
minutes; what depends on the number of messages, the split, is checked by `PartedFairly` for
every choice among the first `MaxSplit` = 11 messages of a label.
A day of 3 minutes has hours that span midnight,
that do not, and that are empty. `Curation` has a text that comes by two ways, one repeated within a batch, a record that
is not accepted and one behind it; two jobs at a time (`Parallel`) are every pair of writers.
`MaxPublished`, `MaxRuns`, `MaxPushes`, `Edits`, `MaxFaults` cap counters.
`Accounts` needs two domains for "one is gone, the other refused", `MaxWorkspaces = 4` for the one
workspace each request may create, and one failure; of the two messages one moves (`OneMessage`).
`Overlap = 2` is the least at which one callback writes over what another has read. In `Administration` one of the two modules
rests while the other moves: they share no variable, so that nothing is lost, and the product is
spared.
The type invariants, `CustodyInv` and `IntegrationInv` have no run: they are proved (section 4).
Symmetry is used in runs without liveness only.

**Fairness.** A request that is being served goes on (`WF` of each request): the event loop runs
it and every outside call has a timeout. The purge is selected again and again (cron and
listings), a purge pass that can delete an object does so in the end although the bucket may
refuse at first (`SF` of `PurgeObject`), and the bucket applies its lifecycle rule. The Worker
goes on because each fetch has an `AbortSignal.timeout`. In `CloudflareIntegration` a setup and
its background task go on (their HTTP client has a timeout, and the task catches every
exception; a setup that raised before it added the task has ended, and `ProvisioningEnds` says so);
in `OperationalExercises` time passes, due timers fire and the reconciliation of a start goes on. In `Curation` a job that began goes on, and normalisation and the
backfill are run again and again, as `make process` does before every release (`SF`, since the
bound `Parallel` may keep them out for a while). No fairness is assumed
of users, of scans of new messages or of crashes. `FairSpec` of the custody is used with
`Crashes` FALSE: after a crash a claimed item stays claimed.

**Deadlock.** Checked in the runs of the mail path, in `Curation` and in `Release`, where the clock of an item,
the purge, a lane, a relabelling or another report can always go on. Off where finitely many requests
end and nothing is left to do: `IntegrationLifecycle`, `ShieldZone`, `Administration`, and, for
its bounded publications and runs, `Intake` and `TimedOutForgotten`.

**Mutants.** For every property of a passing run `PROJECT.json` names a mutant: a definition
with a plausible bug (in the modules, marked *Mutant*), under which TLC finds the property
violated.

### Where the code does not keep what is written

`TimedOutForgotten` finds a counterexample of `docs/architecture/data-platform-cadence.md:82`
("the index is recorded under `timed_out_indices` and retried by a later cron") and of line 86
("failures are recorded under `failed_indices`, not treated as complete"): every read of the
checkpoint takes `last_completed_index` for a checkpoint of the old format and calls every
older index complete (`incremental_cc_extractor.py:416`), so that an index that timed out is
forgotten as soon as a newer one completes. (Indices are processed newest first: it takes two
runs, or a new crawl.)

The modules also state, without a run of their own, other sentences that the models refute.
Given to TLC as an INVARIANT (`DeletionIsIrreversible`: as a PROPERTY) of an instance like the
one named, each ends in a counterexample:

| Formula | The sentence | What happens |
|---|---|---|
| `DeletionIsIrreversible` (`CustodyRaces`) | "Deletion of a quarantined item is immediate and irreversible." (`docs/data-platform/rgpd-register.md:41`) | a release that held the claim sets the deleted row to held or released |
| `DeletedIsScrubbed` (`CustodyRaces`) | the purge "scrubs sender, subject, body, hash, size, and storage location" (`deploy/DEPLOYMENT_BLOCKERS.md:102`) | an upload under way writes location, hash and body back |
| `DeliveredAtMostOnce` (`CustodyRaces`) | "reaches the configured destination exactly once" (`deploy/DEPLOYMENT_BLOCKERS.md:99`) | an accepted delivery whose answer is lost is repeated by the next release |
| `ReleasingIsInProgress` (`CustodyRaces`) | "Message release is already in progress" (`quarantine.py:108`) | said of an item no call works on, after a crash between claim and end |
| `StoredBytesAgree` (`CustodyRaces`) | "custody is idempotent for the same bytes and refuses different ones" (`tests/unit/app/test_email_scan_routes.py:322`) | two concurrent uploads of different bytes are both stored |
| `SameMessageSameAnswer` (`GatewayDuplicates`) | "must make scan persistence and follow-up actions idempotent" (`docs/adr/0007-cloudflare-worker-idempotency.md:13`) | the scan whose INSERT loses answers "phishing" for a message in quarantine |
| `AlertedIsIntercepted` (`GatewayDuplicates`) | "Un email suspect a été intercepté" (`email_scan.py:412`) | the Worker's timeout has forwarded the message before |
| `NoMessageOutlivesAccount` (`Administration`) | "so no message outlives the account" (`account_erasure.py:35`) | an upload under way writes its copy after the others were listed, or dies before its row names it |
| `NoEvidenceOutlivesAccount` (`Administration`) | the erasure deletes "reported emails" among others "in one pass", and "What outlives the account: the operational exercise log keeps the initiating admin's address as an operations record, and Grafana metrics carry no per-member label." (`docs/data-platform/rgpd-register.md:48-52`) | an erasure with nothing beside it deletes the rows of `app_reported_email` (`account_erasure.py:82-85`) and leaves the sanitized objects (`reported_email.py:177`), to which no row points any more |
| `NothingHalfDeleted` (`Administration`) | "when Cloudflare refuses; nothing is half deleted" (`tests/unit/app/test_account_erasure.py:127`) | of two domains, one is removed, with its row, before the other is refused |
| `ProvisioningIsRunning` (`IntegrationLifecycle`) | the configuration "is already running in the background. Please wait." (`integrations.py:194`) | an exception of the HTTP client in the DNS update (only `CloudflareAPIError` is caught, line 362) ends the setup before the task is added: the row stays 'provisioning', a repeated setup and a teardown are both 409 |
| `ForwardIsGivenBack` (`IntegrationLifecycle`) | "Connecting replaced the protected address's own forward with the Worker rule. Give it back so its mail keeps arriving once Sicurre is gone." (`integrations.py:567-569`) | the forward is given to the account that connected the zone, which need not be the protected address, and to nobody if that account's address is not one of the zone |
| `FailedNeverReached` (`IntegrationLifecycle`) | a row 'error' without ids "never reached Cloudflare" (`integrations.py:159`) | the provisioning failed between its first change of the zone and the record of the ids |

## 4. What is proved

Every theorem is for every value of the constants that the modules' assumptions allow: any
number of messages, deliveries, requests, setups, models or indices. The assumptions say what a
request names, which constants are numbers, and that names are told apart (that the jobs of
`Curation` are of one kind each, that a mechanism of the customer is none of Sicurre's); one
theorem, `JournalAgreement`, adds one of its own. Each proof is an inductive invariant, checked by TLC
first, one lemma per kind of step, and for each property the conjunct it follows from. Of the
properties the runs check, all that are not liveness are proved.

**`QuarantineCustody_proofs`.** `TypeCorrect`, `CustodyInvariant`, `OneRelease`,
`MarkedDelivered`, `StoredUntilDelivery`, `AcknowledgedFinal`, `SettledDeletionFinal`.
`OneReleaseAtATime` needs that the row of a claimed item is 'releasing', or 'deleted' when a
deletion overwrote it (`ClaimedStatus`): otherwise the conditional UPDATE could let a second
call through. `MarkedDeliveredIsDelivered` needs that a call past its send was acknowledged
(`PastSend`), and `AcknowledgedIsFinal` that after an acknowledgement no call holds a claim it
could send under or give back (`AckedStatus`). `StoredUntilDelivered` needs that between the
write of an object and its UPDATE the object is there unless somebody removed it
(`WrittenBeforeRecorded`). `CustodyInv` is their conjunction.

**`MailGateway_proofs`.** Every step of the mail path is a step of `QuarantineCustody` or leaves
it alone (`GatewaySteps`), which carries `CustodyInv` over. On top: a copy that a request has
seen is *accounted for* from then on (there, or delivered, or given up: `SeenIsAccounted`,
stable because only those two remove an object), so `KeptInCustody`; the row part needs that a
purge deletes only rows no release has claimed (`PurgedStaysPurged`, `StoredIsRecorded`).
`SuspectStays` needs what the two lookups will find given what was there when the scan began
(`KnownIsSeen`), `OneAlert` that one scan can insert the row and that it alone is between INSERT
and alert (`AlertIsForItem`). `JournalAgreement` assumes `~Crashes`: of a held message some scan
has journalled, or is on its way there (`HeldIsJournalled`). `FateImplemented` is the
refinement: a change of a copy is `Store`, `End` or a stutter of `MessageFate` (`CopyFate`), a
step of a Worker `Decide` or a stutter, and "kept" is decided only for a message accounted for
(`WorkerFate`). `KeptIsInCustody` is checked by TLC without crashes and proved with them.

`SwallowedIsStored` is of `ReportIngestion`, in the same module. The object is written before
its row (`EvidenceFirst`); an answer "accepted" stands for a row that any request may have
inserted, or for a cursor that has been through all records, whoever inserted them
(`RequestsInv`).

**`CloudflareIntegration_proofs`.** `Integration`, `NoTeardownOfProvisioning`, `FailedIsFinal`,
with any number of setups, removals and scans, overlapping or not. The invariant
`IntegrationInv` says that what a caller read stays good enough until it acts on it: a row it
believed failed, or not being provisioned, is still so or gone.

`TrustedWorker` and `RoutedMail` (`WorkerIsTrusted`, `MailHasRoute`) assume nothing more: the
histories stand in the properties. `SerialInv` adds to `IntegrationInv`: while no calls crossed
there is one row at most, and the call that is being answered knows it (`OneByOne`); while, besides,
no row was deleted under its provisioning and no process died (`Calm`), a secret that is deployed,
rotated or recorded is the one of that row, at every step between the PUT of the Worker and the
UPDATE of the row, unless the answer to the last PUT is missing (`Matched`); and while Cloudflare
grants everything too (`Quiet`), the rules of the address are what the step of the task or the
teardown has made of them so far (`Served`).

**`DomainShield_proofs`.** `OwnKeptThroughout`, `PlansAgree`, `PolicyKept`, `HistoryHasCurrent`,
`QuietIsQuiet`; `MailboxesKept` and `FixedDmarcIsKept` are the DMARC halves of the first two,
the former without the condition on spelling. What a call has read is a record, and a write over
the record that was read keeps the customer's part of it (`ZoneInv`, from `MergeKeepsOwn` and
`OwnReportsKept`). What stands at some indices of a sequence, in order, is reached by a
bijection from 1..n to the indices (`PlacesTaken`, `NthIs`), and two sequences have the same
terms picked when an increasing map leads from the indices of the one to those of the other
(`SamePicked`): so nothing of the customer's is lost, repeated or moved by a merge, and a merged
record is a fixed point of it (`FixedStays`). `AlwaysCurrent` is inductive; the quiet hours are
arithmetic modulo the length of the day (`InsideIsRight`). `TypeCorrect` bounds what is stored,
the score by 30 and 100 (`ScoreType`).

**`Administration_proofs`** (over `OperationalExercises` and `Accounts`). `TypeCorrect`,
`OneExercise`, `ManualStaysManual`: the invariant says which request may still restore or insert
which exercise, given signal, timers and rows, also between a restart and the reconciliation
after it, when a row runs without its signal.

`AccountTypes`, `ComesBack`, `OnlyEvidenceIsLeft`. For the first two (`Steady`): a workspace without
its membership is at the statement between the two, of the request that is making it or of the
erasure that is deleting it (`Repairable`), unless one of them failed there. For the third
(`Undisturbed`, as long as nothing crossed an erasure): while an erasure deletes, only erasures
of the same workspace are at work (`Alone`), what a request or a mail holds belongs to the
workspace it read, every stored copy is named by a row or by the upload that wrote it, and each
step of an erasure has the deletions before it behind it (`Progress`).

**`CommonCrawl_proofs`** (over `IngestionRuns` and the crawl). `TypeCorrect`, `RecordedOnce`,
`Traceable`, `NoneSkipped`, `FlushedBeforeComplete`. `CrawlInv` says that run ids differ and the
open run is the job's (`RunsInv`), that a batch stays new until it is committed (`BatchIsNew`),
that there is no gap below what a job asks from (`NoGap`, `JobLeavesNoGap`), and that pages are
in memory only for indices under way (`IndexUnderWay`).

**`ModelLineage_proofs`.** `TypeCorrect`, `EvaluatedInProduction`, `Traceable`, `FairSplits`, for
any `Overlap`. What a callback read stays true until it commits, because evaluations and approvals
are never undone, save the stages of models, which callbacks write over each other: so the
invariant does not follow stages, and says that a model in production has an active deployment
(`ProductionIsActive`), which was made on a passed evaluation (`ActiveIsPassed`). That the splits are fair for any number of messages rests on the
places of a label's messages being a bijection to 1..n, so that a stretch of places holds as
many messages as it is long (`StretchSize`), and on the arithmetic of the rounding, one case per
remainder modulo ten (`Tenths`, `CountsAreFair`).

**`Curation_proofs`.** `TypeCorrect`, `Curating`, `ReleasedWhole`, `CollisionsAreRaces`.
`CurationInv` says of each kind of job, as a predicate of its record, what it has read and will
insert: unless another batch committed since (`overtaken`), no text it will insert is curated,
no two of its items have one text, and what it leaves out is covered by what it inserts or by
what was curated at some time. That a batch keeps one item of each text is the least element of
a set of numbers (`LeastOf`).

**Out of the prover's reach**, and left to TLC: liveness (`ReleaseSettles`, `RetentionApplied`,
`RawCopyExpires`, `EveryDeliveryDecided`, `ProvisioningEnds`, `RowEnds`, `AcceptableIsCurated`),
which needs `ENABLED`; and what a fold or a recursion computes. No proof needs the latter:
sequences are taken apart by their indices, and the only induction is the least element above.

## 5. Plan

Done: the mail path with its refinement, the integration, the Domain Shield, exercises,
accounts, reports, collection, curation and release. Next, in this order:

1. `IngestionRuns` with two jobs at once, for a schedule that lets them overlap.
2. `Curation` composed with `DatasetRelease`, which has its own, coarser `Normalize`.
3. That `CloudflareIntegration` implements the one-step teardown of `Accounts`, as a refinement.

## 6. Not modelled, and why

Contents: subjects, bodies, MIME, scores, explanations and trace headers; no property is about
them. The classifier and Cloudflare are nondeterministic answers. Rate limits appear as
failures. Legacy event ids (a second key for messages scanned by older releases) are not
modelled. `workspace_id` and `domain` conditions are the identity of the item. Time is a flag per
item or exercise; the Worker's timeouts may fire at any moment.

Of the modelled components: saving a Cloudflare token (a plain upsert) and the zone listings;
subdomain candidates, onboarding preview and certificate probe; the reading of reports and
alerts; load audits and the parsing of sources; how texts are extracted, routed, rewritten and drafted
(`stage_two_*.py`, `adaptation.py`: contents), and the drafts under review, which are files a
person moves on; the creation of single messages through the API.

Not modelled at all: the authentication service
(a configuration of a library that keeps its own state), the web application, metrics and rate
limits, text decoding, deployment, `src/poc`. One hazard has no property: two setups of one zone
at once, which the model has and records in `crossed`.
