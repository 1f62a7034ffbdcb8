--------------------------- MODULE IngestionRuns ---------------------------
(***************************************************************************)
(* The scheduled collection of training data.  A job reads where its       *)
(* source was left off, opens an ingestion run, fetches what is new, drops *)
(* what is recorded already, stores a snapshot, and commits the raw object *)
(* with its raw records.  The services of all sources have this shape;     *)
(* they differ in how they know what is new:                               *)
(*                                                                         *)
(*   Feeds    the latest submission among the records (PhishTank)          *)
(*   Clocked  a stored time, set after the run (the historical database)   *)
(*   Whole    everything, every time (SAP Labs, SEKOIA)                    *)
(*   Crawled  snapshots that an extractor flushed (module CommonCrawl)     *)
(*                                                                         *)
(* The schedule starts the jobs at different times and the orchestrator    *)
(* runs them one after the other: one job runs at a time.  It may die      *)
(* between any two steps.  A publication of a source is a time (or, for    *)
(* the crawl, an index) with one part, or several; <<n, p>> is the key of  *)
(* part p of publication n.  A key occurs once in what a job fetches.      *)
(***************************************************************************)
EXTENDS Integers, FiniteSets, FiniteSetsExt, Sequences

CONSTANTS
    Feeds, Clocked, Whole, Crawled,  \* the source systems by their kind
    Parts,          \* the parts of a publication of Crawled, 1..Parts
    MaxPublished,   \* bound: publications of a source
    MaxRuns         \* bound: ingestion runs

Sources == Feeds \cup Clocked \cup Whole \cup Crawled
Modes == {"scheduled", "manual"}
Keys == (1..MaxPublished) \X (1..Parts)

ASSUME IntakeAssumption ==
    /\ MaxPublished \in Nat /\ MaxRuns \in Nat /\ Parts \in Nat \ {0}
    /\ Sources # {} /\ (Feeds \cup Clocked) \cap Crawled = {}

VARIABLES
    published,  \* published[s]: how much the source has published
    runs,       \* data_ingestion_run: [id, source, mode, status]
    created,    \* number of runs ever created; the ids are 1..created
    objects,    \* data_raw_object: the runs that have one
    snapshots,  \* the runs whose snapshot is in the store
    records,    \* data_raw_record: [run, source, key]
    normalized, \* the records that have a normalised message
    mark,       \* mark[s]: the stored time of a Clocked source
    ever,       \* history: ever[s]: the keys that had a record at some time
    at,         \* step of the job
    job         \* [source, mode, since, run, batch] of the job

intake == <<published, runs, created, objects, snapshots, records, normalized,
            mark, ever, at, job>>

Steps == {"idle", "generate", "create", "fetch", "snapshot", "commit",
          "recorded", "crawl", "pages", "flushed"}
Jobs == [source : Sources, mode : Modes, since : 0..MaxPublished,
         run : 0..MaxRuns, batch : SUBSET Keys]

IntakeTypeOK ==
    /\ published \in [Sources -> 0..MaxPublished]
    /\ created \in 0..MaxRuns
    /\ runs \subseteq [id : 1..created, source : Sources, mode : Modes,
                       status : {"RUNNING", "COMPLETED", "FAILED"}]
    /\ objects \subseteq 1..created /\ snapshots \subseteq 1..created
    /\ records \subseteq [run : 1..created, source : Sources, key : Keys]
    /\ normalized \subseteq records
    /\ mark \in [Clocked -> 0..MaxPublished]
    /\ ever \in [Sources -> SUBSET Keys]
    /\ at \in Steps /\ job \in Jobs

NoJob == [source |-> CHOOSE s \in Sources : TRUE, mode |-> "manual", since |-> 0,
          run |-> 0, batch |-> {}]

IntakeInit ==
    /\ published = [s \in Sources |-> 0]
    /\ runs = {} /\ created = 0
    /\ objects = {} /\ snapshots = {} /\ records = {} /\ normalized = {}
    /\ mark = [s \in Clocked |-> 0]
    /\ ever = [s \in Sources |-> {}]
    /\ at = "idle" /\ job = NoJob

KeysOf(s) == {r.key : r \in {q \in records : q.source = s}}

\* WatermarkService: the maximum over the records of the source.
LatestSubmission(s) == IF KeysOf(s) = {} THEN 0 ELSE Max({k[1] : k \in KeysOf(s)})

\* The state row of the SQL job, or the beginning of time.
Since(s, m) ==
    IF m = "manual" THEN 0
    ELSE IF s \in Feeds THEN LatestSubmission(s)
    ELSE IF s \in Clocked THEN mark[s] ELSE 0

\* fetch_threats, fetch_entries, fetch_iocs: strictly newer, without a limit.
Fetched(s, since) == {<<n, 1>> : n \in since + 1 .. published[s]}

-----------------------------------------------------------------------------
\* The source publishes, in the order of its times; while a job of the source
\* is under way it is quiet.
Publish(s) ==
    /\ published[s] < MaxPublished
    /\ at = "idle" \/ job.source # s
    /\ published' = [published EXCEPT ![s] = @ + 1]
    /\ UNCHANGED <<runs, created, objects, snapshots, records, normalized, mark, ever, at, job>>

\* A scheduled job of a feed that has nothing newer opens no run at all.
JobStart(s, m) ==
    /\ at = "idle" /\ s \notin Crawled
    /\ s \in Feeds /\ m = "scheduled" => published[s] > LatestSubmission(s)
    /\ job' = [source |-> s, mode |-> m, since |-> Since(s, m), run |-> 0, batch |-> {}]
    /\ at' = IF s \in Clocked /\ m = "scheduled" THEN "generate" ELSE "create"
    /\ UNCHANGED <<published, runs, created, objects, snapshots, records, normalized, mark, ever>>

\* append_cron_generation_batch: the SQL job first adds rows to the external
\* database itself, when it is configured to.
Generate ==
    /\ at = "generate"
    /\ \/ UNCHANGED published
       \/ /\ published[job.source] < MaxPublished
          /\ published' = [published EXCEPT ![job.source] = @ + 1]
    /\ at' = "create"
    /\ UNCHANGED <<runs, created, objects, snapshots, records, normalized, mark, ever, job>>

\* The run has a transaction of its own: a job that dies leaves it RUNNING.
RunCreate ==
    /\ at = "create" /\ created < MaxRuns
    /\ created' = created + 1
    /\ runs' = runs \cup {[id |-> created', source |-> job.source, mode |-> job.mode,
                           status |-> "RUNNING"]}
    /\ job' = [job EXCEPT !.run = created']
    /\ at' = "fetch"
    /\ UNCHANGED <<published, objects, snapshots, records, normalized, mark, ever>>

Close(r, outcome) ==
    runs' = {IF x.id = r THEN [x EXCEPT !.status = outcome] ELSE x : x \in runs}

\* Mutant: what was fetched is taken for new.
RunFetchAll(found) ==
    /\ at = "fetch"
    /\ job' = [job EXCEPT !.batch = found]
    /\ IF found = {} THEN Close(job.run, "COMPLETED") /\ at' = "recorded"
                     ELSE UNCHANGED runs /\ at' = "snapshot"
    /\ UNCHANGED <<published, created, objects, snapshots, records, normalized, mark, ever>>

\* _existing_record_keys: of what was fetched, that is dropped which has a
\* record.  Without anything left the run is complete: no snapshot, no mark.
RunFetch(found) ==
    /\ at = "fetch"
    /\ LET new == found \ KeysOf(job.source) IN
         /\ job' = [job EXCEPT !.batch = new]
         /\ IF new = {} THEN Close(job.run, "COMPLETED") /\ at' = "recorded"
                        ELSE UNCHANGED runs /\ at' = "snapshot"
    /\ UNCHANGED <<published, created, objects, snapshots, records, normalized, mark, ever>>

RunSnapshot ==
    /\ at = "snapshot"
    /\ snapshots' = snapshots \cup {job.run}
    /\ at' = "commit"
    /\ UNCHANGED <<published, runs, created, objects, records, normalized, mark, ever, job>>

\* One transaction: the raw object, its records, and the end of the run.
RunCommit ==
    /\ at = "commit"
    /\ objects' = objects \cup {job.run}
    /\ records' = records \cup
         {[run |-> job.run, source |-> job.source, key |-> k] : k \in job.batch}
    /\ ever' = [ever EXCEPT ![job.source] = @ \cup job.batch]
    /\ Close(job.run, "COMPLETED")
    /\ at' = "recorded"
    /\ UNCHANGED <<published, created, snapshots, normalized, mark, job>>

\* Mutant: the job goes on after a run that failed.
RunFailSwallowed ==
    /\ at \in {"fetch", "snapshot", "commit"}
    /\ Close(job.run, "FAILED")
    /\ at' = "recorded"
    /\ UNCHANGED <<published, created, objects, snapshots, records, normalized, mark, ever, job>>

\* A step raises: the run is closed as FAILED and the script ends.  When the
\* database raised, the handler's commit raises too and the run stays RUNNING.
\* (A raw object that was flushed may be committed with the failure; it has no
\* records and is left out.)
RunFail ==
    /\ at \in {"fetch", "snapshot", "commit"}
    /\ Close(job.run, "FAILED") \/ UNCHANGED runs
    /\ at' = "idle" /\ job' = NoJob
    /\ UNCHANGED <<published, created, objects, snapshots, records, normalized, mark, ever>>

\* The SQL job stores the time by now, when the run recorded anything.
JobEnd ==
    /\ at = "recorded" /\ job.source \notin Crawled
    /\ mark' = IF job.source \in Clocked /\ job.mode = "scheduled" /\ job.batch # {}
                 THEN [mark EXCEPT ![job.source] = published[job.source]] ELSE mark
    /\ at' = "idle" /\ job' = NoJob
    /\ UNCHANGED <<published, runs, created, objects, snapshots, records, normalized, ever>>

JobCrash ==
    /\ at # "idle"
    /\ at' = "idle" /\ job' = NoJob
    /\ UNCHANGED <<published, runs, created, objects, snapshots, records, normalized, mark, ever>>

\* Normalisation of a pending record (its message refers to the record).
Normalize(r) ==
    /\ at = "idle" /\ r \in records \ normalized
    /\ normalized' = normalized \cup {r}
    /\ UNCHANGED <<published, runs, created, objects, snapshots, records, mark, ever, at, job>>

\* Mutant: the runs go, the records stay.
ResetRunsOnly(s) ==
    /\ at = "idle"
    /\ runs' = {x \in runs : ~(x.source = s /\ x.mode = "scheduled")}
    /\ UNCHANGED <<published, created, objects, snapshots, records, normalized, mark, ever, at, job>>

\* _reset_scheduled_runs, before the orchestrator starts a job: blocked while a
\* normalised message refers to a record; otherwise records, objects and runs go
\* in one transaction.  The snapshots, the mark and the checkpoint stay.
ResetRuns(s) ==
    LET gone == {x.id : x \in {y \in runs : y.source = s /\ y.mode = "scheduled"}} IN
    /\ at = "idle" /\ gone # {}
    /\ \A r \in normalized : r.run \notin gone
    /\ runs' = {x \in runs : x.id \notin gone}
    /\ objects' = objects \ gone
    /\ records' = {r \in records : r.run \notin gone}
    /\ UNCHANGED <<published, created, snapshots, normalized, mark, ever, at, job>>

RunNext ==
    \/ RunCreate \/ RunSnapshot \/ RunCommit \/ RunFail
    \/ Generate \/ JobEnd
    \/ job.source \notin Crawled /\ RunFetch(Fetched(job.source, job.since))
    \/ \E s \in Sources : Publish(s) \/ ResetRuns(s)
    \/ \E s \in Sources, m \in Modes : JobStart(s, m)
    \/ \E r \in records : Normalize(r)

-----------------------------------------------------------------------------
\* No entry of a source has two records, whatever job died where, and although
\* the mark is stored after the records it stands for.
NoRecordTwice ==
    \A r, q \in records : r.source = q.source /\ r.key = q.key => r = q

\* What the next job will not ask for again was recorded: nothing falls between
\* the times of two jobs, although some failed or died on the way.
NothingSkipped ==
    \A s \in Feeds \cup Clocked :
        \A n \in 1..Since(s, "scheduled") : <<n, 1>> \in ever[s]

\* A record can be traced to the bytes it was made from: its run is complete
\* and has its raw object, which has its snapshot, also after resets.
RecordsAreTraceable ==
    \A r \in records :
        /\ r.run \in objects \cap snapshots
        /\ \E x \in runs : x.id = r.run /\ x.source = r.source /\ x.status = "COMPLETED"
=============================================================================
