----------------------------- MODULE CommonCrawl -----------------------------
(***************************************************************************)
(* The scheduled Common Crawl job: it goes through the crawl indices that  *)
(* its checkpoint does not call complete, newest first, within a time      *)
(* limit; flushes the pages of each to the object store; records in the    *)
(* checkpoint how the index ended; and afterwards ingests the flushed      *)
(* snapshots, one run each.  Index n is publication n of the source: a     *)
(* larger number is a newer crawl; all are newer than the base cutoff.     *)
(***************************************************************************)
EXTENDS IngestionRuns

CONSTANT Lookback   \* cc_cron_lookback_indices

ASSUME LookbackAssumption == Lookback \in Nat \ {0}

VARIABLES
    checkpoint,  \* the job's row of pipeline_state
    todo,        \* indices the job has still to process
    uris,        \* snapshots the job flushed and did not ingest yet
    unsaved      \* history: pages last extracted of their index, not flushed

crawl == <<checkpoint, todo, uris, unsaved>>

NoIndex == 0
NoCheckpoint == [last |-> NoIndex, completed |-> {}, incomplete |-> {}]
Indices == 1..MaxPublished
PagesOf(n) == {n} \X (1..Parts)

CrawlTypeOK ==
    /\ IntakeTypeOK
    /\ checkpoint \in [last : 0..MaxPublished, completed : SUBSET Indices,
                       incomplete : SUBSET Indices]
    /\ todo \subseteq Indices
    /\ uris \in Seq(SUBSET Keys)
    /\ unsaved \subseteq Keys

CrawlInit ==
    /\ IntakeInit
    /\ checkpoint = NoCheckpoint
    /\ todo = {} /\ uris = <<>> /\ unsaved = {}

\* The list of completed indices, and every index up to the last completed
\* one: a checkpoint of the earlier format had that index only.
CompletedBy(c) == c.completed \cup (1..c.last)

\* The newest Lookback indices of the live list that are not complete.
Missing(c, s) ==
    {n \in 1..published[s] : n > published[s] - Lookback} \ CompletedBy(c)

\* The indices are processed newest first.
Newest(S) == {n \in S : \A k \in S : k <= n}

-----------------------------------------------------------------------------
\* The list is fetched, the checkpoint read; nothing missing ends the job.
CrawlStart(s) ==
    /\ at = "idle" /\ s \in Crawled /\ Missing(checkpoint, s) # {}
    /\ todo' = Missing(checkpoint, s) /\ uris' = <<>>
    /\ job' = [source |-> s, mode |-> "scheduled", since |-> 0, run |-> 0, batch |-> {}]
    /\ at' = "crawl"
    /\ UNCHANGED <<published, runs, created, objects, snapshots, records, normalized,
                   mark, ever, checkpoint, unsaved>>

\* The next index: its pages, as many as the index server and the archive gave
\* before the time was up (their errors are swallowed).
CrawlExtract ==
    /\ at = "crawl"
    /\ \E n \in Newest(todo) : \E pages \in SUBSET PagesOf(n) :
         /\ job' = [job EXCEPT !.batch = pages, !.since = n]
         /\ unsaved' = (unsaved \ PagesOf(n)) \cup pages
         /\ todo' = todo \ {n}
    /\ at' = "pages"
    /\ UNCHANGED <<published, runs, created, objects, snapshots, records, normalized,
                   mark, ever, checkpoint, uris>>

\* The index raises in its last attempt: it is recorded, in a list that no run
\* reads, and left.
CrawlFailed ==
    /\ at = "crawl"
    /\ \E n \in Newest(todo) :
         /\ checkpoint' = [checkpoint EXCEPT !.incomplete = @ \cup {n}]
         /\ todo' = todo \ {n}
    /\ UNCHANGED <<intake, uris, unsaved>>

\* Mutant: the checkpoint first, the pages afterwards.
CrawlFlushAfterMark ==
    /\ at = "pages"
    /\ checkpoint' = [checkpoint EXCEPT !.last = job.since,
                                        !.completed = @ \cup {job.since}]
    /\ \/ unsaved' = unsaved \ job.batch /\ uris' = Append(uris, job.batch)
       \/ UNCHANGED <<unsaved, uris>>
    /\ at' = "crawl"
    /\ UNCHANGED <<published, runs, created, objects, snapshots, records, normalized,
                   mark, ever, job, todo>>

\* Pages are flushed, also partial ones; without any there is no snapshot.
CrawlFlush ==
    /\ at = "pages"
    /\ IF job.batch = {} THEN UNCHANGED <<unsaved, uris>>
       ELSE unsaved' = unsaved \ job.batch /\ uris' = Append(uris, job.batch)
    /\ at' = "flushed"
    /\ UNCHANGED <<published, runs, created, objects, snapshots, records, normalized,
                   mark, ever, job, checkpoint, todo>>

\* The time is up by now: the index is recorded and the extraction ends.
CrawlTimedOut ==
    /\ at = "flushed"
    /\ checkpoint' = [checkpoint EXCEPT !.incomplete = @ \cup {job.since}]
    /\ todo' = {} /\ at' = "crawl"
    /\ UNCHANGED <<published, runs, created, objects, snapshots, records, normalized,
                   mark, ever, job, uris, unsaved>>

\* _update_checkpoint: the index is complete, and it is the last completed.
CrawlMark ==
    /\ at = "flushed"
    /\ checkpoint' = [checkpoint EXCEPT !.last = job.since,
                                        !.completed = @ \cup {job.since}]
    /\ at' = "crawl"
    /\ UNCHANGED <<published, runs, created, objects, snapshots, records, normalized,
                   mark, ever, job, todo, uris, unsaved>>

\* The loop is over, or the time is up before the next index: the flushed
\* snapshots are ingested in order, or the job has none (left) and ends.
CrawlIngest ==
    /\ at = "crawl" \/ (at = "recorded" /\ job.source \in Crawled)
    /\ todo' = {}
    /\ at' = IF uris = <<>> THEN "idle" ELSE "create"
    /\ job' = IF uris = <<>> THEN NoJob ELSE [job EXCEPT !.run = 0, !.batch = {}]
    /\ UNCHANGED <<published, runs, created, objects, snapshots, records, normalized,
                   mark, ever, checkpoint, uris, unsaved>>

\* R2CronSnapshotCommonCrawlClient: the run fetches the snapshot.
CrawlFetch ==
    /\ job.source \in Crawled
    /\ RunFetch(Head(uris))
    /\ uris' = Tail(uris)
    /\ UNCHANGED <<checkpoint, todo, unsaved>>

\* The job's own memory is lost with the process, whether it ended or died.
Forget ==
    IF at' = "idle" THEN todo' = {} /\ uris' = <<>> ELSE UNCHANGED <<todo, uris>>

CrawlCrash ==
    /\ JobCrash /\ Forget
    /\ UNCHANGED <<checkpoint, unsaved>>

CrawlNext ==
    \/ RunNext /\ Forget /\ UNCHANGED <<checkpoint, unsaved>>
    \/ \E s \in Crawled : CrawlStart(s)
    \/ CrawlExtract \/ CrawlFailed \/ CrawlFlush \/ CrawlTimedOut \/ CrawlMark
    \/ CrawlIngest \/ CrawlFetch \/ CrawlCrash

CrawlSpec == CrawlInit /\ [][CrawlNext]_<<intake, crawl>>

-----------------------------------------------------------------------------
\* What was extracted of an index that the checkpoint calls complete is in the
\* object store: a crash cannot lose pages of an index that is not retried.
CompletedIsFlushed ==
    \A n \in checkpoint.completed : PagesOf(n) \cap unsaved = {}

\* docs/architecture/data-platform-cadence.md:81 and the class comment: an index
\* that timed out or failed, and was never completed, is eligible for the next
\* run.
TimedOutIsRetried ==
    \A s \in Crawled : \A n \in checkpoint.incomplete \ checkpoint.completed :
        n > published[s] - Lookback => n \in Missing(checkpoint, s)
=============================================================================
