------------------------- MODULE CommonCrawl_proofs -------------------------
(***************************************************************************)
(* The safety of the scheduled ingestion for any sources, any number of    *)
(* publications, parts and runs, and any look-back.                        *)
(***************************************************************************)
EXTENDS CommonCrawl, TLAPS, WellFoundedInduction

USE IntakeAssumption

-----------------------------------------------------------------------------
(* The inductive invariant.                                                *)

Timed == Feeds \cup Clocked
Covered(n, K) == \A i \in 1..n : <<i, 1>> \in K

\* A run has its number to itself, and the one under way has no record yet.
RunIdsDiffer == \A x, y \in runs : x.id = y.id => x = y
RunIsOpen ==
    at \in {"fetch", "snapshot", "commit"} =>
        /\ job.run \in 1..created
        /\ \E x \in runs : x.id = job.run /\ x.source = job.source
        /\ \A r \in records : r.run # job.run
RunHasSnapshot == at = "commit" => job.run \in snapshots

\* What is left to record was not recorded meanwhile.
BatchIsNew == at \in {"snapshot", "commit"} => job.batch \cap KeysOf(job.source) = {}

RecordedEver == \A r \in records : r.key \in ever[r.source]

\* What was recorded of a timed source has no gap, and neither has what the job
\* under way leaves behind.
NoGap ==
    /\ \A s \in Timed : \A k \in ever[s] : Covered(k[1], ever[s])
    /\ \A s \in Clocked : Covered(mark[s], ever[s])
JobLeavesNoGap ==
    job.source \in Timed =>
        LET s == job.source IN
        /\ at \in {"generate", "create", "fetch"} => Covered(job.since, ever[s])
        /\ at \in {"snapshot", "commit"} =>
             /\ Covered(published[s], ever[s] \cup job.batch)
             /\ \A k \in job.batch : k[1] \in 1..published[s]
        /\ at = "recorded" /\ job.batch # {} => Covered(published[s], ever[s])

\* The steps of the crawl are taken for the crawl; it ingests what it flushed.
CrawlSteps ==
    /\ at \in {"crawl", "pages", "flushed"} => job.source \in Crawled
    /\ at = "generate" => job.source \notin Crawled
    /\ at \in {"create", "fetch"} /\ job.source \in Crawled => uris # <<>>

\* The index under way is neither complete nor still to be processed, and its
\* pages are in the job's memory until they are flushed.
IndexUnderWay ==
    /\ todo \cap checkpoint.completed = {}
    /\ at \in {"pages", "flushed"} => job.since \in Indices \ (todo \cup checkpoint.completed)
    /\ at = "pages" => PagesOf(job.since) \cap unsaved \subseteq job.batch
    /\ at = "flushed" => PagesOf(job.since) \cap unsaved = {}

RunsInv == RunIdsDiffer /\ RunIsOpen /\ RunHasSnapshot
RecordsInv == BatchIsNew /\ NoRecordTwice /\ RecordsAreTraceable
GapsInv == RecordedEver /\ NoGap /\ JobLeavesNoGap
PagesInv == CrawlSteps /\ IndexUnderWay /\ CompletedIsFlushed
CrawlInv == CrawlTypeOK /\ RunsInv /\ RecordsInv /\ GapsInv /\ PagesInv

-----------------------------------------------------------------------------
(* Types.                                                                  *)

Status == {"RUNNING", "COMPLETED", "FAILED"}
RunRecords(c) == [id : 1..c, source : Sources, mode : Modes, status : Status]
Closed(x, r, outcome) == IF x.id = r THEN [x EXCEPT !.status = outcome] ELSE x

\* Closing a run changes its status and nothing else.
LEMMA CloseRuns ==
    ASSUME runs \subseteq RunRecords(created), NEW r, NEW outcome \in Status, Close(r, outcome)
    PROVE  /\ runs' \subseteq RunRecords(created)
           /\ \A x \in runs : Closed(x, r, outcome) \in runs'
           /\ \A y \in runs' : \E x \in runs : y = Closed(x, r, outcome)
           /\ \A x \in runs : /\ Closed(x, r, outcome).id = x.id
                              /\ Closed(x, r, outcome).source = x.source
                              /\ x.id # r => Closed(x, r, outcome) = x
                              /\ x.id = r => Closed(x, r, outcome).status = outcome
<1>1. \A x \in runs : /\ Closed(x, r, outcome) \in RunRecords(created)
                      /\ Closed(x, r, outcome).id = x.id
                      /\ Closed(x, r, outcome).source = x.source
                      /\ x.id # r => Closed(x, r, outcome) = x
                      /\ x.id = r => Closed(x, r, outcome).status = outcome
  BY DEF RunRecords, Closed
<1>2. runs' = {Closed(x, r, outcome) : x \in runs} BY DEF Close, Closed
<1>. QED BY <1>1, <1>2

\* A set of publications has a newest one.
LEMMA MaxExists ==
    ASSUME NEW S \in SUBSET (1..MaxPublished), S # {}
    PROVE  Max(S) \in S /\ \A n \in S : Max(S) >= n
<1>. DEFINE T == {MaxPublished - n : n \in S}
<1>1. T \subseteq Nat /\ T # {}
  <2>1. \A n \in S : MaxPublished - n \in Nat OBVIOUS
  <2>. QED BY <2>1
<1>2. PICK m \in T : \A n \in T : ~ (<<n, m>> \in OpToRel(<, Nat))
  BY <1>1, NatLessThanWellFounded, WFMin
<1>3. PICK x \in S : m = MaxPublished - x BY <1>2
<1>4. ASSUME NEW n \in S PROVE x >= n
  <2>1. MaxPublished - n \in T /\ MaxPublished - n \in Nat /\ m \in Nat OBVIOUS
  <2>2. ~ (MaxPublished - n < m) BY <1>2, <2>1 DEF OpToRel
  <2>. QED BY <1>3, <2>2
<1>. QED BY <1>3, <1>4 DEF Max

LEMMA LatestIsRecorded ==
    ASSUME IntakeTypeOK, NEW s \in Sources
    PROVE  /\ LatestSubmission(s) \in 0..MaxPublished
           /\ LatestSubmission(s) = 0 \/ \E k \in KeysOf(s) : k[1] = LatestSubmission(s)
<1>1. KeysOf(s) \subseteq Keys BY DEF KeysOf, IntakeTypeOK
<1>2. CASE KeysOf(s) = {} BY <1>2 DEF LatestSubmission
<1>3. CASE KeysOf(s) # {}
  <2>. DEFINE S == {k[1] : k \in KeysOf(s)}
  <2>1. S \in SUBSET (1..MaxPublished) /\ S # {} BY <1>1, <1>3 DEF Keys
  <2>2. Max(S) \in S BY <2>1, MaxExists
  <2>3. LatestSubmission(s) = Max(S) BY <1>3 DEF LatestSubmission
  <2>4. \A n \in 1..MaxPublished : n \in 0..MaxPublished OBVIOUS
  <2>5. Max(S) \in 1..MaxPublished BY <2>1, <2>2
  <2>. QED BY <2>2, <2>3, <2>4, <2>5 DEF S
<1>. QED BY <1>2, <1>3

LEMMA SinceTyped ==
    ASSUME IntakeTypeOK, NEW s \in Sources, NEW m \in Modes
    PROVE  Since(s, m) \in 0..MaxPublished
BY LatestIsRecorded DEF Since, IntakeTypeOK

LEMMA NoJobTyped == NoJob \in Jobs
BY DEF NoJob, Jobs, Modes

LEMMA TypeInit == CrawlInit => CrawlTypeOK
<1>. SUFFICES ASSUME CrawlInit PROVE CrawlTypeOK OBVIOUS
<1>1. NoCheckpoint \in [last : 0..MaxPublished, completed : SUBSET Indices,
                        incomplete : SUBSET Indices]
  BY DEF NoCheckpoint, NoIndex
<1>2. IntakeTypeOK BY NoJobTyped DEF CrawlInit, IntakeInit, IntakeTypeOK, Steps, Sources
<1>. QED BY <1>1, <1>2 DEF CrawlInit, CrawlTypeOK

\* The types that a fetch, of whatever was found, keeps.
LEMMA FetchTyped ==
    ASSUME IntakeTypeOK, NEW found \in SUBSET Keys, RunFetch(found)
    PROVE  IntakeTypeOK'
<1>1. job' \in Jobs BY DEF RunFetch, IntakeTypeOK, Jobs
<1>2. runs' \subseteq RunRecords(created)
  BY CloseRuns DEF RunFetch, IntakeTypeOK, RunRecords, Status
<1>3. at' \in Steps BY DEF RunFetch, Steps
<1>. QED BY <1>1, <1>2, <1>3 DEF RunFetch, IntakeTypeOK, RunRecords, Status

LEMMA FetchedKeys ==
    ASSUME IntakeTypeOK, NEW s \in Sources, NEW n \in 0..MaxPublished
    PROVE  /\ Fetched(s, n) \subseteq Keys
           /\ \A k \in Fetched(s, n) : k[1] \in 1..published[s]
<1>1. published[s] \in 0..MaxPublished BY DEF IntakeTypeOK
<1>2. \A i \in n + 1 .. published[s] : i \in 1..MaxPublished /\ i \in 1..published[s] BY <1>1
<1>3. 1 \in 1..Parts OBVIOUS
<1>. QED BY <1>2, <1>3 DEF Fetched, Keys

LEMMA PagesAreKeys == \A n \in Indices : PagesOf(n) \subseteq Keys
BY DEF Indices, PagesOf, Keys

LEMMA RunNextTyped ==
    ASSUME IntakeTypeOK, RunIsOpen, RunNext
    PROVE  IntakeTypeOK'
<1>1. CASE RunCreate
  <2>1. created' \in 0..MaxRuns /\ created < created' BY <1>1 DEF RunCreate, IntakeTypeOK
  <2>2. job' \in Jobs BY <1>1, <2>1 DEF RunCreate, IntakeTypeOK, Jobs
  <2>3. [id |-> created', source |-> job.source, mode |-> job.mode, status |-> "RUNNING"]
            \in RunRecords(created')
    BY <2>1 DEF RunRecords, Status, IntakeTypeOK, Jobs
  <2>4. runs' \subseteq RunRecords(created')
    BY <1>1, <2>1, <2>3 DEF RunCreate, RunRecords, Status, IntakeTypeOK
  <2>5. records \subseteq [run : 1..created', source : Sources, key : Keys]
    BY <2>1 DEF IntakeTypeOK
  <2>. QED
    BY <1>1, <2>1, <2>2, <2>4, <2>5 DEF RunCreate, IntakeTypeOK, RunRecords, Status, Steps
<1>2. CASE RunSnapshot
  <2>1. job.run \in 1..created
    BY <1>2 DEF RunSnapshot, RunIsOpen
  <2>. QED BY <1>2, <2>1 DEF RunSnapshot, IntakeTypeOK, Steps
<1>3. CASE RunCommit
  <2>1. job.run \in 1..created /\ job.source \in Sources /\ job.batch \in SUBSET Keys
    BY <1>3 DEF RunCommit, RunIsOpen, IntakeTypeOK, Jobs
  <2>2. runs' \subseteq RunRecords(created)
    BY <1>3, CloseRuns DEF RunCommit, IntakeTypeOK, RunRecords, Status
  <2>3. {[run |-> job.run, source |-> job.source, key |-> k] : k \in job.batch}
            \subseteq [run : 1..created, source : Sources, key : Keys]
    BY <2>1
  <2>4. ever' \in [Sources -> SUBSET Keys] BY <1>3, <2>1 DEF RunCommit, IntakeTypeOK
  <2>. QED
    BY <1>3, <2>1, <2>2, <2>3, <2>4 DEF RunCommit, IntakeTypeOK, RunRecords, Status, Steps
<1>4. CASE RunFail
  <2>1. runs' \subseteq RunRecords(created)
    BY <1>4, CloseRuns DEF RunFail, IntakeTypeOK, RunRecords, Status
  <2>. QED BY <1>4, <2>1, NoJobTyped DEF RunFail, IntakeTypeOK, RunRecords, Status, Steps
<1>5. CASE Generate
  BY <1>5 DEF Generate, IntakeTypeOK, Steps, Jobs
<1>6. CASE JobEnd
  <2>1. mark' \in [Clocked -> 0..MaxPublished]
    BY <1>6 DEF JobEnd, IntakeTypeOK, Jobs, Sources
  <2>. QED BY <1>6, <2>1, NoJobTyped DEF JobEnd, IntakeTypeOK, Steps
<1>7. CASE job.source \notin Crawled /\ RunFetch(Fetched(job.source, job.since))
  BY <1>7, FetchedKeys, FetchTyped DEF IntakeTypeOK, Jobs
<1>8. ASSUME NEW s \in Sources, Publish(s) PROVE IntakeTypeOK'
  BY <1>8 DEF Publish, IntakeTypeOK
<1>9. ASSUME NEW s \in Sources, ResetRuns(s) PROVE IntakeTypeOK'
  <2>. DEFINE gone == {x.id : x \in {y \in runs : y.source = s /\ y.mode = "scheduled"}}
  <2>1. /\ runs' \subseteq runs /\ objects' \subseteq objects
        /\ records' = {r \in records : r.run \notin gone}
        /\ \A r \in normalized : r.run \notin gone
        /\ UNCHANGED <<published, created, snapshots, normalized, mark, ever, at, job>>
    BY <1>9 DEF ResetRuns
  <2>. HIDE DEF gone
  <2>2. normalized \subseteq records' BY <2>1 DEF IntakeTypeOK
  <2>. QED BY <2>1, <2>2 DEF IntakeTypeOK
<1>10. ASSUME NEW s \in Sources, NEW m \in Modes, JobStart(s, m) PROVE IntakeTypeOK'
  <2>1. job' \in Jobs BY <1>10, SinceTyped DEF JobStart, Jobs
  <2>. QED BY <1>10, <2>1 DEF JobStart, IntakeTypeOK, Steps
<1>11. ASSUME NEW r \in records, Normalize(r) PROVE IntakeTypeOK'
  BY <1>11 DEF Normalize, IntakeTypeOK
<1>. QED
  BY <1>1, <1>2, <1>3, <1>4, <1>5, <1>6, <1>7, <1>8, <1>9, <1>10, <1>11 DEF RunNext

CheckpointRecords ==
    [last : 0..MaxPublished, completed : SUBSET Indices, incomplete : SUBSET Indices]

LEMMA TypeStep == CrawlInv /\ [CrawlNext]_<<intake, crawl>> => CrawlTypeOK'
<1>. SUFFICES ASSUME CrawlInv, [CrawlNext]_<<intake, crawl>> PROVE CrawlTypeOK' OBVIOUS
<1>. USE DEF CrawlInv
<1>1. CASE RunNext /\ Forget /\ UNCHANGED <<checkpoint, unsaved>>
  <2>1. IntakeTypeOK' BY <1>1, RunNextTyped DEF CrawlTypeOK, RunsInv
  <2>2. CASE at' = "idle" BY <1>1, <2>1, <2>2 DEF Forget, CrawlTypeOK
  <2>3. CASE at' # "idle" BY <1>1, <2>1, <2>3 DEF Forget, CrawlTypeOK
  <2>. QED BY <2>2, <2>3
<1>2. ASSUME NEW s \in Crawled, CrawlStart(s) PROVE CrawlTypeOK'
  <2>1. job' \in Jobs BY <1>2 DEF CrawlStart, Jobs, Sources, Modes
  <2>2. published[s] \in 0..MaxPublished BY DEF CrawlTypeOK, IntakeTypeOK, Sources
  <2>3. Missing(checkpoint, s) \subseteq Indices BY <2>2 DEF Missing, Indices
  <2>. QED BY <1>2, <2>1, <2>3 DEF CrawlStart, CrawlTypeOK, IntakeTypeOK, Steps
<1>3. CASE CrawlExtract
  <2>1. PICK n \in Newest(todo), pages \in SUBSET Keys :
           /\ pages \subseteq PagesOf(n)
           /\ job' = [job EXCEPT !.batch = pages, !.since = n]
           /\ unsaved' = (unsaved \ PagesOf(n)) \cup pages
           /\ todo' = todo \ {n}
    BY <1>3, PagesAreKeys DEF CrawlExtract, Newest, CrawlTypeOK
  <2>2. n \in Indices /\ PagesOf(n) \subseteq Keys
    BY PagesAreKeys DEF Newest, CrawlTypeOK
  <2>3. n \in 0..MaxPublished BY <2>2 DEF Indices
  <2>4. job' \in Jobs
    <3>1. job \in Jobs BY DEF CrawlTypeOK, IntakeTypeOK
    <3>. QED BY <2>1, <2>3, <3>1 DEF Jobs
  <2>. QED BY <1>3, <2>1, <2>2, <2>4 DEF CrawlExtract, CrawlTypeOK, IntakeTypeOK, Steps
<1>4. CASE CrawlFailed
  <2>1. PICK n \in Newest(todo) : /\ checkpoint' = [checkpoint EXCEPT !.incomplete = @ \cup {n}]
                                  /\ todo' = todo \ {n}
    BY <1>4 DEF CrawlFailed
  <2>2. n \in Indices BY DEF Newest, CrawlTypeOK
  <2>. QED BY <1>4, <2>1, <2>2 DEF CrawlFailed, CrawlTypeOK, IntakeTypeOK, intake
<1>5. CASE CrawlFlush
  <2>1. job.batch \in SUBSET Keys BY DEF CrawlTypeOK, IntakeTypeOK, Jobs
  <2>2. CASE job.batch = {}
    BY <1>5, <2>2 DEF CrawlFlush, CrawlTypeOK, IntakeTypeOK, Steps
  <2>3. CASE job.batch # {}
    <3>1. Append(uris, job.batch) \in Seq(SUBSET Keys) BY <2>1 DEF CrawlTypeOK
    <3>. QED BY <1>5, <2>3, <3>1 DEF CrawlFlush, CrawlTypeOK, IntakeTypeOK, Steps
  <2>. QED BY <2>2, <2>3
<1>6. CASE CrawlTimedOut \/ CrawlMark
  <2>1. job.since \in Indices
    BY <1>6 DEF CrawlTimedOut, CrawlMark, PagesInv, IndexUnderWay
  <2>2. checkpoint' \in CheckpointRecords
    <3>. USE DEF CrawlTypeOK, CheckpointRecords
    <3>1. CASE CrawlTimedOut BY <3>1, <2>1 DEF CrawlTimedOut
    <3>2. CASE CrawlMark
      <4>1. job.since \in 0..MaxPublished BY <2>1 DEF Indices
      <4>. QED BY <3>2, <2>1, <4>1 DEF CrawlMark
    <3>. QED BY <1>6, <3>1, <3>2
  <2>. QED
    BY <1>6, <2>2 DEF CrawlTimedOut, CrawlMark, CrawlTypeOK, IntakeTypeOK, Steps, CheckpointRecords
<1>7. CASE CrawlIngest
  <2>1. [job EXCEPT !.run = 0, !.batch = {}] \in Jobs
    <3>1. job \in Jobs /\ {} \in SUBSET Keys /\ 0 \in 0..MaxRuns
      BY DEF CrawlTypeOK, IntakeTypeOK
    <3>. QED BY <3>1 DEF Jobs
  <2>2. job' \in Jobs BY <1>7, <2>1, NoJobTyped DEF CrawlIngest
  <2>. QED BY <1>7, <2>2 DEF CrawlIngest, CrawlTypeOK, IntakeTypeOK, Steps
<1>8. CASE CrawlFetch
  <2>1. uris # <<>> BY <1>8 DEF CrawlFetch, RunFetch, PagesInv, CrawlSteps
  <2>2. Head(uris) \in SUBSET Keys /\ Tail(uris) \in Seq(SUBSET Keys)
    BY <2>1 DEF CrawlTypeOK
  <2>3. IntakeTypeOK' BY <1>8, <2>2, FetchTyped DEF CrawlFetch, CrawlTypeOK
  <2>. QED BY <1>8, <2>2, <2>3 DEF CrawlFetch, CrawlTypeOK
<1>9. CASE CrawlCrash
  BY <1>9, NoJobTyped DEF CrawlCrash, JobCrash, Forget, CrawlTypeOK, IntakeTypeOK, Steps
<1>10. CASE UNCHANGED <<intake, crawl>>
  BY <1>10 DEF intake, crawl, CrawlTypeOK, IntakeTypeOK
<1>. QED
  BY <1>1, <1>2, <1>3, <1>4, <1>5, <1>6, <1>7, <1>8, <1>9, <1>10 DEF CrawlNext

-----------------------------------------------------------------------------
(* Runs and records.                                                       *)

RunSteps == {"fetch", "snapshot", "commit"}

\* The steps that touch neither runs nor records, and enter no run.
Aside ==
    /\ UNCHANGED <<runs, created, objects, snapshots, records, ever>>
    /\ at' \notin RunSteps \/ UNCHANGED <<at, job>>

LEMMA StepKinds ==
    ASSUME CrawlInv, [CrawlNext]_<<intake, crawl>>
    PROVE  \/ Aside
           \/ RunCreate \/ RunSnapshot \/ RunCommit \/ RunFail
           \/ \E found \in SUBSET Keys : RunFetch(found)
           \/ \E s \in Sources : ResetRuns(s)
<1>1. CASE RunNext
  <2>1. CASE Generate \/ JobEnd BY <2>1 DEF Generate, JobEnd, Aside, RunSteps
  <2>2. CASE job.source \notin Crawled /\ RunFetch(Fetched(job.source, job.since))
    <3>1. Fetched(job.source, job.since) \in SUBSET Keys
      BY FetchedKeys DEF CrawlInv, CrawlTypeOK, IntakeTypeOK, Jobs
    <3>. QED BY <2>2, <3>1
  <2>3. ASSUME NEW s \in Sources, Publish(s) PROVE Aside BY <2>3 DEF Publish, Aside
  <2>4. ASSUME NEW s \in Sources, NEW m \in Modes, JobStart(s, m) PROVE Aside
    BY <2>4 DEF JobStart, Aside, RunSteps
  <2>5. ASSUME NEW r \in records, Normalize(r) PROVE Aside BY <2>5 DEF Normalize, Aside
  <2>. QED BY <1>1, <2>1, <2>2, <2>3, <2>4, <2>5 DEF RunNext
<1>2. ASSUME NEW s \in Crawled, CrawlStart(s) PROVE Aside
  BY <1>2 DEF CrawlStart, Aside, RunSteps
<1>3. CASE CrawlExtract \/ CrawlFlush BY <1>3 DEF CrawlExtract, CrawlFlush, Aside, RunSteps
<1>4. CASE CrawlFailed BY <1>4 DEF CrawlFailed, intake, Aside
<1>5. CASE CrawlTimedOut \/ CrawlMark
  BY <1>5 DEF CrawlTimedOut, CrawlMark, Aside, RunSteps
<1>6. CASE CrawlIngest BY <1>6 DEF CrawlIngest, Aside, RunSteps
<1>7. CASE CrawlFetch
  <2>1. uris # <<>>
    BY <1>7 DEF CrawlFetch, RunFetch, CrawlInv, PagesInv, CrawlSteps
  <2>2. Head(uris) \in SUBSET Keys BY <2>1 DEF CrawlInv, CrawlTypeOK
  <2>. QED BY <1>7, <2>2 DEF CrawlFetch
<1>8. CASE CrawlCrash BY <1>8 DEF CrawlCrash, JobCrash, Aside, RunSteps
<1>9. CASE UNCHANGED <<intake, crawl>> BY <1>9 DEF intake, crawl, Aside
<1>. QED BY <1>1, <1>2, <1>3, <1>4, <1>5, <1>6, <1>7, <1>8, <1>9 DEF CrawlNext

LEMMA CloseKeepsIds ==
    ASSUME IntakeTypeOK, RunIdsDiffer, NEW r, NEW outcome \in Status, Close(r, outcome)
    PROVE  RunIdsDiffer'
<1>1. runs \subseteq RunRecords(created) BY DEF IntakeTypeOK, RunRecords, Status
<1>. QED BY <1>1, CloseRuns DEF RunIdsDiffer

LEMMA RunsStep == CrawlInv /\ [CrawlNext]_<<intake, crawl>> => RunsInv'
<1>. SUFFICES ASSUME CrawlInv, [CrawlNext]_<<intake, crawl>> PROVE RunsInv' OBVIOUS
<1>. USE DEF RunsInv
<1>1. RunsInv /\ IntakeTypeOK BY DEF CrawlInv, CrawlTypeOK
<1>2. CASE Aside
  BY <1>1, <1>2 DEF Aside, RunSteps, RunIdsDiffer, RunIsOpen, RunHasSnapshot
<1>3. CASE RunCreate
  <2>. DEFINE new == [id |-> created', source |-> job.source, mode |-> job.mode,
                      status |-> "RUNNING"]
  <2>1. /\ runs' = runs \cup {new} /\ new.id = created' /\ new.source = job.source
        /\ created' = created + 1 /\ at' = "fetch"
        /\ job' = [job EXCEPT !.run = created'] /\ records' = records
    BY <1>3 DEF RunCreate
  <2>. HIDE DEF new
  <2>2. /\ job'.run = created' /\ job'.source = job.source /\ created' \in 1..created'
        /\ \A x \in runs : x.id # created'
        /\ \A r \in records : r.run # created'
    BY <1>1, <2>1 DEF IntakeTypeOK, Jobs
  <2>. QED BY <1>1, <2>1, <2>2 DEF RunIdsDiffer, RunIsOpen, RunHasSnapshot
<1>4. CASE RunSnapshot
  BY <1>1, <1>4 DEF RunSnapshot, RunIdsDiffer, RunIsOpen, RunHasSnapshot
<1>5. CASE RunCommit \/ RunFail
  <2>1. RunIdsDiffer'
    <3>1. CASE RunCommit BY <1>1, <3>1, CloseKeepsIds DEF RunCommit, Status
    <3>2. CASE RunFail /\ UNCHANGED runs BY <1>1, <3>2 DEF RunIdsDiffer
    <3>3. CASE RunFail /\ Close(job.run, "FAILED") BY <1>1, <3>3, CloseKeepsIds DEF Status
    <3>. QED BY <1>5, <3>1, <3>2, <3>3 DEF RunFail
  <2>. QED BY <1>5, <2>1 DEF RunCommit, RunFail, RunIsOpen, RunHasSnapshot
<1>6. ASSUME NEW found \in SUBSET Keys, RunFetch(found) PROVE RunsInv'
  <2>1. CASE found \ KeysOf(job.source) = {}
    <3>1. Close(job.run, "COMPLETED") /\ at' = "recorded" BY <1>6, <2>1 DEF RunFetch
    <3>. QED BY <1>1, <3>1, CloseKeepsIds DEF Status, RunIsOpen, RunHasSnapshot
  <2>2. CASE found \ KeysOf(job.source) # {}
    <3>1. /\ UNCHANGED <<runs, records, created>> /\ at = "fetch" /\ at' = "snapshot"
          /\ job' = [job EXCEPT !.batch = found \ KeysOf(job.source)]
      BY <1>6, <2>2 DEF RunFetch
    <3>2. job'.run = job.run /\ job'.source = job.source
      BY <1>1, <3>1 DEF IntakeTypeOK, Jobs
    <3>. QED BY <1>1, <3>1, <3>2 DEF RunIdsDiffer, RunIsOpen, RunHasSnapshot
  <2>. QED BY <2>1, <2>2
<1>7. ASSUME NEW s \in Sources, ResetRuns(s) PROVE RunsInv'
  <2>1. runs' \subseteq runs /\ at' = "idle" BY <1>7 DEF ResetRuns
  <2>. QED BY <1>1, <2>1 DEF RunIdsDiffer, RunIsOpen, RunHasSnapshot
<1>. QED BY <1>2, <1>3, <1>4, <1>5, <1>6, <1>7, StepKinds

LEMMA RecordsStep == CrawlInv /\ [CrawlNext]_<<intake, crawl>> => RecordsInv'
<1>. SUFFICES ASSUME CrawlInv, [CrawlNext]_<<intake, crawl>> PROVE RecordsInv' OBVIOUS
<1>. USE DEF RecordsInv
<1>1. RecordsInv /\ RunsInv /\ IntakeTypeOK BY DEF CrawlInv, CrawlTypeOK
<1>2. CASE Aside
  BY <1>1, <1>2
  DEF Aside, RunSteps, BatchIsNew, KeysOf, NoRecordTwice, RecordsAreTraceable
<1>3. CASE RunCreate
  BY <1>1, <1>3 DEF RunCreate, BatchIsNew, NoRecordTwice, RecordsAreTraceable
<1>4. CASE RunSnapshot
  BY <1>1, <1>4 DEF RunSnapshot, BatchIsNew, KeysOf, NoRecordTwice, RecordsAreTraceable
<1>5. CASE RunCommit
  <2>. DEFINE new == {[run |-> job.run, source |-> job.source, key |-> k] : k \in job.batch}
  <2>1. /\ records' = records \cup new /\ objects' = objects \cup {job.run}
        /\ snapshots' = snapshots /\ at' = "recorded" /\ Close(job.run, "COMPLETED")
        /\ job.run \in snapshots
    BY <1>1, <1>5 DEF RunCommit, RunsInv, RunHasSnapshot
  <2>2. NoRecordTwice'
    <3>1. \A r \in records : r.source = job.source => r.key \notin job.batch
      BY <1>1, <1>5 DEF RunCommit, BatchIsNew, KeysOf
    <3>2. \A r \in new : r.source = job.source /\ r.key \in job.batch
      OBVIOUS
    <3>3. \A r, q \in new : r.key = q.key => r = q OBVIOUS
    <3>. HIDE DEF new
    <3>. QED BY <1>1, <2>1, <3>1, <3>2, <3>3 DEF NoRecordTwice
  <2>3. RecordsAreTraceable'
    <3>1. runs \subseteq RunRecords(created)
      BY <1>1 DEF IntakeTypeOK, RunRecords, Status
    <3>2. /\ \A x \in runs : Closed(x, job.run, "COMPLETED") \in runs'
          /\ \A x \in runs : /\ Closed(x, job.run, "COMPLETED").id = x.id
                             /\ Closed(x, job.run, "COMPLETED").source = x.source
                             /\ x.id # job.run => Closed(x, job.run, "COMPLETED") = x
                             /\ x.id = job.run =>
                                   Closed(x, job.run, "COMPLETED").status = "COMPLETED"
      BY <2>1, <3>1, CloseRuns DEF Status
    <3>3. ASSUME NEW r \in records
          PROVE  /\ r.run \in (objects \cap snapshots)'
                 /\ \E x \in runs' : x.id = r.run /\ x.source = r.source /\ x.status = "COMPLETED"
      <4>1. r.run # job.run BY <1>1, <1>5 DEF RunCommit, RunsInv, RunIsOpen
      <4>2. PICK x \in runs : x.id = r.run /\ x.source = r.source /\ x.status = "COMPLETED"
        BY <1>1 DEF RecordsAreTraceable
      <4>3. x \in runs' BY <3>2, <4>1, <4>2
      <4>. QED BY <1>1, <2>1, <4>2, <4>3 DEF RecordsAreTraceable
    <3>4. ASSUME NEW r \in new
          PROVE  /\ r.run \in (objects \cap snapshots)'
                 /\ \E x \in runs' : x.id = r.run /\ x.source = r.source /\ x.status = "COMPLETED"
      <4>1. r.run = job.run /\ r.source = job.source OBVIOUS
      <4>2. PICK x \in runs : x.id = job.run /\ x.source = job.source
        BY <1>1, <1>5 DEF RunCommit, RunsInv, RunIsOpen
      <4>. QED BY <2>1, <3>2, <4>1, <4>2
    <3>. QED BY <2>1, <3>3, <3>4 DEF RecordsAreTraceable
  <2>. QED BY <2>1, <2>2, <2>3 DEF BatchIsNew
<1>6. ASSUME NEW r, NEW outcome \in Status, at \in RunSteps, r = job.run, Close(r, outcome),
             UNCHANGED <<records, objects, snapshots>>
      PROVE  RecordsAreTraceable'
  <2>1. runs \subseteq RunRecords(created) BY <1>1 DEF IntakeTypeOK, RunRecords, Status
  <2>2. \A x \in runs : x.id # r => x \in runs' BY <1>6, <2>1, CloseRuns
  <2>3. \A q \in records : q.run # r BY <1>1, <1>6 DEF RunsInv, RunIsOpen, RunSteps
  <2>. QED BY <1>1, <1>6, <2>2, <2>3 DEF RecordsAreTraceable
<1>7. CASE RunFail
  <2>1. at \in RunSteps /\ at' = "idle" /\ UNCHANGED <<records, objects, snapshots>>
    BY <1>7 DEF RunFail, RunSteps
  <2>2. RecordsAreTraceable'
    <3>1. CASE UNCHANGED runs BY <1>1, <2>1, <3>1 DEF RecordsAreTraceable
    <3>2. CASE Close(job.run, "FAILED") BY <1>6, <2>1, <3>2 DEF Status
    <3>. QED BY <1>7, <3>1, <3>2 DEF RunFail
  <2>. QED BY <1>1, <2>1, <2>2 DEF BatchIsNew, NoRecordTwice
<1>8. ASSUME NEW found \in SUBSET Keys, RunFetch(found) PROVE RecordsInv'
  <2>1. /\ at \in RunSteps /\ UNCHANGED <<records, objects, snapshots>>
        /\ job' = [job EXCEPT !.batch = found \ KeysOf(job.source)]
    BY <1>8 DEF RunFetch, RunSteps
  <2>2. job'.source = job.source /\ job'.batch = found \ KeysOf(job.source)
    BY <1>1, <2>1 DEF IntakeTypeOK, Jobs
  <2>3. BatchIsNew' BY <2>1, <2>2 DEF BatchIsNew, KeysOf
  <2>4. RecordsAreTraceable'
    <3>1. CASE UNCHANGED runs BY <1>1, <2>1, <3>1 DEF RecordsAreTraceable
    <3>2. CASE Close(job.run, "COMPLETED") BY <1>6, <2>1, <3>2 DEF Status
    <3>. QED BY <1>8, <3>1, <3>2 DEF RunFetch
  <2>. QED BY <1>1, <2>1, <2>3, <2>4 DEF NoRecordTwice
<1>9. ASSUME NEW s \in Sources, ResetRuns(s) PROVE RecordsInv'
  <2>. DEFINE gone == {x.id : x \in {y \in runs : y.source = s /\ y.mode = "scheduled"}}
  <2>1. /\ at' = "idle" /\ snapshots' = snapshots
        /\ runs' = {x \in runs : x.id \notin gone}
        /\ objects' = objects \ gone
        /\ records' = {r \in records : r.run \notin gone}
    BY <1>9 DEF ResetRuns
  <2>. HIDE DEF gone
  <2>2. RecordsAreTraceable' BY <1>1, <2>1 DEF RecordsAreTraceable
  <2>. QED BY <1>1, <2>1, <2>2 DEF BatchIsNew, NoRecordTwice
<1>. QED BY <1>2, <1>3, <1>4, <1>5, <1>7, <1>8, <1>9, StepKinds

-----------------------------------------------------------------------------
(* No gaps.                                                                *)

LEMMA KeysAreEver ==
    ASSUME RecordedEver, NEW s
    PROVE  KeysOf(s) \subseteq ever[s]
BY DEF RecordedEver, KeysOf

\* What a job will not ask for was recorded.
LEMMA SinceCovered ==
    ASSUME CrawlInv, NEW s \in Timed, NEW m \in Modes
    PROVE  Covered(Since(s, m), ever[s])
<1>1. IntakeTypeOK /\ RecordedEver /\ NoGap BY DEF CrawlInv, CrawlTypeOK, GapsInv
<1>2. s \in Sources BY DEF Timed, Sources
<1>3. Covered(0, ever[s]) BY DEF Covered
<1>4. CASE s \in Feeds
  <2>1. CASE LatestSubmission(s) = 0 BY <1>3, <1>4, <2>1 DEF Since
  <2>2. ASSUME NEW k \in KeysOf(s), k[1] = LatestSubmission(s)
        PROVE  Covered(LatestSubmission(s), ever[s])
    BY <1>1, <2>2, KeysAreEver DEF NoGap
  <2>. QED BY <1>1, <1>2, <1>3, <1>4, <2>1, <2>2, LatestIsRecorded DEF Since
<1>5. CASE s \notin Feeds
  <2>1. s \in Clocked BY <1>5 DEF Timed
  <2>. QED BY <1>1, <1>3, <1>5, <2>1 DEF Since, NoGap
<1>. QED BY <1>4, <1>5

LEMMA CommitGrows ==
    ASSUME IntakeTypeOK, RunCommit
    PROVE  /\ ever'[job.source] = ever[job.source] \cup job.batch
           /\ \A s \in Sources \ {job.source} : ever'[s] = ever[s]
           /\ job.source \in Sources
BY DEF RunCommit, IntakeTypeOK, Jobs

LEMMA RecordedEverStep == CrawlInv /\ [CrawlNext]_<<intake, crawl>> => RecordedEver'
<1>. SUFFICES ASSUME CrawlInv, [CrawlNext]_<<intake, crawl>> PROVE RecordedEver' OBVIOUS
<1>1. IntakeTypeOK /\ RecordedEver BY DEF CrawlInv, CrawlTypeOK, GapsInv
<1>2. CASE UNCHANGED <<records, ever>> BY <1>1, <1>2 DEF RecordedEver
<1>3. CASE RunCommit
  <2>. DEFINE new == {[run |-> job.run, source |-> job.source, key |-> k] : k \in job.batch}
  <2>1. records' = records \cup new BY <1>3 DEF RunCommit
  <2>2. \A r \in new : r.source = job.source /\ r.key \in job.batch OBVIOUS
  <2>3. \A r \in records : r.source \in Sources BY <1>1 DEF IntakeTypeOK
  <2>. HIDE DEF new
  <2>. QED BY <1>1, <1>3, <2>1, <2>2, <2>3, CommitGrows DEF RecordedEver
<1>4. ASSUME NEW s \in Sources, ResetRuns(s) PROVE RecordedEver'
  <2>1. records' \subseteq records /\ ever' = ever BY <1>4 DEF ResetRuns
  <2>. QED BY <1>1, <2>1 DEF RecordedEver
<1>. QED
  BY <1>2, <1>3, <1>4, StepKinds DEF Aside, RunCreate, RunSnapshot, RunFail, RunFetch

LEMMA NoGapStep == CrawlInv /\ [CrawlNext]_<<intake, crawl>> => NoGap'
<1>. SUFFICES ASSUME CrawlInv, [CrawlNext]_<<intake, crawl>> PROVE NoGap' OBVIOUS
<1>1. /\ IntakeTypeOK /\ NoGap /\ JobLeavesNoGap
      /\ Timed \subseteq Sources /\ Clocked \subseteq Timed
  BY DEF CrawlInv, CrawlTypeOK, GapsInv, Timed, Sources
<1>2. mark' = mark \/ JobEnd
  BY DEF CrawlNext, RunNext, RunCreate, RunSnapshot, RunCommit, RunFail, Generate, RunFetch,
         Publish, ResetRuns, JobStart, Normalize, CrawlStart, CrawlExtract, CrawlFailed,
         CrawlFlush, CrawlTimedOut, CrawlMark, CrawlIngest, CrawlFetch, CrawlCrash, JobCrash,
         intake, crawl
<1>3. ever' = ever \/ RunCommit
  BY StepKinds DEF Aside, RunCreate, RunSnapshot, RunFail, RunFetch, ResetRuns
<1>4. CASE RunCommit
  <2>. DEFINE s == job.source
  <2>1. mark' = mark BY <1>4 DEF RunCommit
  <2>2. \A t \in Sources : ever[t] \subseteq ever'[t] BY <1>1, <1>4, CommitGrows
  <2>3. ASSUME s \in Timed, NEW k \in ever'[s] PROVE Covered(k[1], ever'[s])
    <3>1. CASE k \in ever[s] BY <1>1, <2>2, <2>3, <3>1 DEF NoGap, Covered
    <3>2. CASE k \in job.batch
      <4>1. /\ Covered(published[s], ever'[s]) /\ k[1] \in 1..published[s]
        BY <1>1, <1>4, <2>3, <3>2, CommitGrows DEF JobLeavesNoGap, RunCommit
      <4>2. published[s] \in Nat BY <1>1, <2>3 DEF IntakeTypeOK
      <4>3. \A m \in 1..published[s] : \A n \in 1..m : n \in 1..published[s] BY <4>2
      <4>. QED BY <4>1, <4>3 DEF Covered
    <3>. QED BY <1>1, <1>4, <2>3, <3>1, <3>2, CommitGrows
  <2>4. ASSUME NEW t \in Timed, NEW k \in ever'[t] PROVE Covered(k[1], ever'[t])
    BY <1>1, <1>4, <2>3, <2>4, CommitGrows DEF NoGap
  <2>. QED BY <1>1, <2>1, <2>2, <2>4 DEF NoGap, Covered
<1>5. CASE JobEnd
  <2>1. ever' = ever BY <1>5 DEF JobEnd
  <2>2. ASSUME NEW s \in Clocked, mark'[s] # mark[s] PROVE Covered(mark'[s], ever[s])
    <3>1. s = job.source /\ job.batch # {} /\ at = "recorded" /\ mark'[s] = published[s]
      BY <1>1, <1>5, <2>2 DEF JobEnd, IntakeTypeOK
    <3>. QED BY <1>1, <3>1 DEF JobLeavesNoGap
  <2>. QED BY <1>1, <2>1, <2>2 DEF NoGap
<1>6. CASE mark' = mark /\ ever' = ever BY <1>1, <1>6 DEF NoGap
<1>. QED BY <1>2, <1>3, <1>4, <1>5, <1>6

LEMMA JobNoGapStep == CrawlInv /\ [CrawlNext]_<<intake, crawl>> => JobLeavesNoGap'
<1>. SUFFICES ASSUME CrawlInv, [CrawlNext]_<<intake, crawl>> PROVE JobLeavesNoGap' OBVIOUS
<1>. USE DEF JobLeavesNoGap
<1>1. /\ IntakeTypeOK /\ RecordedEver /\ JobLeavesNoGap /\ CrawlSteps
      /\ job \in Jobs /\ job.source \in Sources
  BY DEF CrawlInv, CrawlTypeOK, GapsInv, PagesInv, IntakeTypeOK, Jobs
<1>2. \A s \in Crawled : s \notin Timed BY DEF Timed
<1>3. CASE at' \in {"idle", "crawl", "pages", "flushed"} BY <1>3
<1>4. CASE UNCHANGED <<at, job, ever, published>> BY <1>1, <1>4
<1>5. CASE RunCreate
  <2>1. /\ job' = [job EXCEPT !.run = created'] /\ at = "create" /\ at' = "fetch"
        /\ UNCHANGED <<ever, published>>
    BY <1>5 DEF RunCreate
  <2>2. job'.source = job.source /\ job'.since = job.since BY <1>1, <2>1 DEF Jobs
  <2>. QED BY <1>1, <2>1, <2>2
<1>6. CASE RunSnapshot BY <1>1, <1>6 DEF RunSnapshot
<1>7. CASE RunCommit
  <2>1. at = "commit" /\ at' = "recorded" /\ UNCHANGED <<job, published>>
    BY <1>7 DEF RunCommit
  <2>. QED BY <1>1, <1>7, <2>1, CommitGrows
<1>8. CASE Generate
  <2>1. at = "generate" /\ at' = "create" /\ UNCHANGED <<job, ever>> BY <1>8 DEF Generate
  <2>. QED BY <1>1, <2>1
<1>9. CASE RunFetch(Fetched(job.source, job.since))
  <2>. DEFINE s == job.source
              found == Fetched(s, job.since)
  <2>1. /\ job' = [job EXCEPT !.batch = found \ KeysOf(s)] /\ at = "fetch"
        /\ at' = "snapshot" \/ (at' = "recorded" /\ found \ KeysOf(s) = {})
        /\ UNCHANGED <<ever, published>>
    BY <1>9 DEF RunFetch
  <2>2. job'.source = s /\ job'.batch = found \ KeysOf(s) BY <1>1, <2>1 DEF Jobs
  <2>3. published[s] \in Nat /\ job.since \in Nat /\ job.since \in 0..MaxPublished
    BY <1>1 DEF IntakeTypeOK, Jobs
  <2>4. ASSUME s \in Timed, NEW n \in 1..published[s] PROVE <<n, 1>> \in ever[s] \cup (found \ KeysOf(s))
    <3>1. CASE n <= job.since
      <4>1. n \in 1..job.since BY <2>3, <3>1
      <4>. QED BY <1>1, <2>1, <2>4, <4>1 DEF Covered
    <3>2. CASE ~ (n <= job.since)
      <4>1. n \in job.since + 1 .. published[s] BY <2>3, <3>2
      <4>2. <<n, 1>> \in found BY <4>1 DEF Fetched
      <4>. QED BY <1>1, <4>2, KeysAreEver
    <3>. QED BY <3>1, <3>2
  <2>5. \A k \in found : k[1] \in 1..published[s] BY <1>1, <2>3, FetchedKeys
  <2>. HIDE DEF found
  <2>. QED BY <2>1, <2>2, <2>4, <2>5 DEF Covered
<1>10. ASSUME NEW s \in Sources, Publish(s) PROVE JobLeavesNoGap'
  <2>1. /\ at = "idle" \/ published'[job.source] = published[job.source]
        /\ UNCHANGED <<at, job, ever>>
    BY <1>1, <1>10 DEF Publish, IntakeTypeOK
  <2>. QED BY <1>1, <2>1
<1>11. ASSUME NEW s \in Sources, NEW m \in Modes, JobStart(s, m) PROVE JobLeavesNoGap'
  <2>1. /\ job'.source = s /\ job'.since = Since(s, m) /\ at' \in {"generate", "create"}
        /\ ever' = ever
    BY <1>11 DEF JobStart
  <2>. QED BY <2>1, SinceCovered
<1>12. CASE JobEnd \/ RunFail \/ CrawlCrash
  BY <1>3, <1>12 DEF JobEnd, RunFail, CrawlCrash, JobCrash
<1>13. ASSUME NEW s \in Sources, ResetRuns(s) PROVE JobLeavesNoGap'
  BY <1>4, <1>13 DEF ResetRuns
<1>14. ASSUME NEW r \in records, Normalize(r) PROVE JobLeavesNoGap'
  BY <1>4, <1>14 DEF Normalize
<1>15. CASE CrawlIngest
  <2>1. job.source \in Crawled BY <1>1, <1>15 DEF CrawlIngest, CrawlSteps
  <2>2. at' = "idle" \/ job' = [job EXCEPT !.run = 0, !.batch = {}] BY <1>15 DEF CrawlIngest
  <2>3. [job EXCEPT !.run = 0, !.batch = {}].source = job.source BY <1>1 DEF Jobs
  <2>. QED BY <1>2, <1>3, <2>1, <2>2, <2>3
<1>16. CASE CrawlFetch
  <2>1. /\ job.source \in Crawled
        /\ job' = [job EXCEPT !.batch = Head(uris) \ KeysOf(job.source)]
    BY <1>16 DEF CrawlFetch, RunFetch
  <2>2. job'.source = job.source BY <1>1, <2>1 DEF Jobs
  <2>. QED BY <1>2, <2>1, <2>2
<1>17. ASSUME NEW s \in Crawled, CrawlStart(s) PROVE JobLeavesNoGap'
  BY <1>3, <1>17 DEF CrawlStart
<1>18. CASE CrawlExtract \/ CrawlFlush \/ CrawlTimedOut \/ CrawlMark
  BY <1>3, <1>18 DEF CrawlExtract, CrawlFlush, CrawlTimedOut, CrawlMark
<1>19. CASE CrawlFailed \/ UNCHANGED <<intake, crawl>>
  BY <1>4, <1>19 DEF CrawlFailed, intake
<1>. QED
  BY <1>5, <1>6, <1>7, <1>8, <1>9, <1>10, <1>11, <1>12, <1>13, <1>14, <1>15, <1>16, <1>17,
     <1>18, <1>19
  DEF CrawlNext, RunNext

-----------------------------------------------------------------------------
(* The crawl.                                                              *)

\* No step of a run enters a step of the extraction.
LEMMA RunsLeaveExtraction ==
    ASSUME RunNext
    PROVE  at' \in {"crawl", "pages", "flushed"} => UNCHANGED <<at, job>>
BY DEF RunNext, RunCreate, RunSnapshot, RunCommit, RunFail, Generate, JobEnd, RunFetch, Publish,
       ResetRuns, JobStart, Normalize

LEMMA CrawlStepsStep == CrawlInv /\ [CrawlNext]_<<intake, crawl>> => CrawlSteps'
<1>. SUFFICES ASSUME CrawlInv, [CrawlNext]_<<intake, crawl>> PROVE CrawlSteps' OBVIOUS
<1>. USE DEF CrawlSteps
<1>1. job \in Jobs /\ CrawlSteps BY DEF CrawlInv, CrawlTypeOK, IntakeTypeOK, PagesInv
<1>2. CASE at' \in {"idle", "snapshot", "commit", "recorded"} BY <1>2
<1>3. CASE UNCHANGED <<at, job, uris>> BY <1>1, <1>3
<1>4. CASE RunNext /\ Forget /\ UNCHANGED <<checkpoint, unsaved>>
  <2>1. CASE RunCreate
    <3>1. /\ job' = [job EXCEPT !.run = created'] /\ at = "create" /\ at' = "fetch"
          /\ UNCHANGED uris
      BY <1>4, <2>1 DEF RunCreate, Forget
    <3>2. job'.source = job.source BY <1>1, <3>1 DEF Jobs
    <3>. QED BY <1>1, <3>1, <3>2
  <2>2. CASE Generate BY <1>1, <2>2 DEF Generate
  <2>3. ASSUME NEW s \in Sources, NEW m \in Modes, JobStart(s, m) PROVE CrawlSteps'
    <3>1. job'.source = s /\ s \notin Crawled /\ at' \in {"generate", "create"}
      BY <2>3 DEF JobStart
    <3>. QED BY <3>1
  <2>4. CASE at' # "idle" /\ UNCHANGED <<at, job>> BY <1>3, <1>4, <2>4 DEF Forget
  <2>. QED
    BY <1>2, <1>4, <2>1, <2>2, <2>3, <2>4
    DEF RunNext, RunSnapshot, RunCommit, RunFail, JobEnd, RunFetch, Publish, ResetRuns, Normalize
<1>5. ASSUME NEW s \in Crawled, CrawlStart(s) PROVE CrawlSteps'
  BY <1>5 DEF CrawlStart
<1>6. CASE CrawlExtract
  <2>1. PICK n, pages : job' = [job EXCEPT !.batch = pages, !.since = n]
    BY <1>6 DEF CrawlExtract
  <2>2. job'.source = job.source BY <1>1, <2>1 DEF Jobs
  <2>. QED BY <1>1, <1>6, <2>2 DEF CrawlExtract
<1>7. CASE CrawlFlush \/ CrawlTimedOut \/ CrawlMark
  BY <1>1, <1>7 DEF CrawlFlush, CrawlTimedOut, CrawlMark
<1>8. CASE CrawlIngest BY <1>2, <1>8 DEF CrawlIngest
<1>9. CASE CrawlFetch \/ CrawlCrash
  BY <1>2, <1>9 DEF CrawlFetch, RunFetch, CrawlCrash, JobCrash
<1>10. CASE CrawlFailed \/ UNCHANGED <<intake, crawl>>
  BY <1>3, <1>10 DEF CrawlFailed, intake, crawl
<1>. QED BY <1>4, <1>5, <1>6, <1>7, <1>8, <1>9, <1>10 DEF CrawlNext

LEMMA PagesDiffer == \A n, k : n # k => PagesOf(n) \cap PagesOf(k) = {}
BY DEF PagesOf

LEMMA IndexStep ==
    CrawlInv /\ [CrawlNext]_<<intake, crawl>> => (IndexUnderWay /\ CompletedIsFlushed)'
<1>. SUFFICES ASSUME CrawlInv, [CrawlNext]_<<intake, crawl>>
              PROVE  (IndexUnderWay /\ CompletedIsFlushed)'
  OBVIOUS
<1>1. /\ IndexUnderWay /\ CompletedIsFlushed /\ job \in Jobs
      /\ todo \subseteq Indices /\ checkpoint \in CheckpointRecords
  BY DEF CrawlInv, CrawlTypeOK, IntakeTypeOK, PagesInv, CheckpointRecords
<1>. USE DEF IndexUnderWay, CompletedIsFlushed
<1>2. ASSUME todo' = todo \/ todo' = {}, UNCHANGED <<checkpoint, unsaved>>,
             at' \in {"pages", "flushed"} => UNCHANGED <<at, job>>
      PROVE  (IndexUnderWay /\ CompletedIsFlushed)'
  BY <1>1, <1>2
<1>3. CASE RunNext /\ Forget /\ UNCHANGED <<checkpoint, unsaved>>
  BY <1>2, <1>3, RunsLeaveExtraction DEF Forget
<1>4. ASSUME NEW s \in Crawled, CrawlStart(s) PROVE (IndexUnderWay /\ CompletedIsFlushed)'
  BY <1>1, <1>4 DEF CrawlStart, Missing, CompletedBy
<1>5. CASE CrawlExtract
  <2>1. PICK n \in todo, pages \in SUBSET Keys :
           /\ pages \subseteq PagesOf(n)
           /\ job' = [job EXCEPT !.batch = pages, !.since = n]
           /\ unsaved' = (unsaved \ PagesOf(n)) \cup pages
           /\ todo' = todo \ {n}
    BY <1>1, <1>5, PagesAreKeys DEF CrawlExtract, Newest
  <2>2. job'.batch = pages /\ job'.since = n BY <1>1, <2>1 DEF Jobs
  <2>3. at' = "pages" /\ checkpoint' = checkpoint BY <1>5 DEF CrawlExtract
  <2>4. IndexUnderWay' BY <1>1, <2>1, <2>2, <2>3
  <2>5. \A k \in checkpoint.completed : PagesOf(k) \cap PagesOf(n) = {}
    BY <1>1, <2>1, PagesDiffer
  <2>6. CompletedIsFlushed' BY <1>1, <2>1, <2>3, <2>5
  <2>. QED BY <2>4, <2>6
<1>6. CASE CrawlFailed
  <2>1. PICK n : /\ checkpoint' = [checkpoint EXCEPT !.incomplete = @ \cup {n}]
                 /\ todo' = todo \ {n}
    BY <1>6 DEF CrawlFailed
  <2>2. checkpoint'.completed = checkpoint.completed BY <1>1, <2>1 DEF CheckpointRecords
  <2>3. UNCHANGED <<at, job, unsaved>> /\ at = "crawl" BY <1>6 DEF CrawlFailed, intake
  <2>. QED BY <1>1, <2>1, <2>2, <2>3
<1>7. CASE CrawlFlush
  <2>1. /\ at = "pages" /\ at' = "flushed" /\ UNCHANGED <<job, todo, checkpoint>>
        /\ unsaved' = unsaved \ job.batch
    BY <1>7 DEF CrawlFlush
  <2>. QED BY <1>1, <2>1
<1>8. CASE CrawlTimedOut
  <2>1. /\ checkpoint' = [checkpoint EXCEPT !.incomplete = @ \cup {job.since}]
        /\ todo' = {} /\ at' = "crawl" /\ unsaved' = unsaved
    BY <1>8 DEF CrawlTimedOut
  <2>2. checkpoint'.completed = checkpoint.completed BY <1>1, <2>1 DEF CheckpointRecords
  <2>. QED BY <1>1, <2>1, <2>2
<1>9. CASE CrawlMark
  <2>1. /\ checkpoint' = [checkpoint EXCEPT !.last = job.since,
                                            !.completed = @ \cup {job.since}]
        /\ at = "flushed" /\ at' = "crawl" /\ UNCHANGED <<todo, unsaved>>
    BY <1>9 DEF CrawlMark
  <2>2. checkpoint'.completed = checkpoint.completed \cup {job.since}
    BY <1>1, <2>1 DEF CheckpointRecords
  <2>. QED BY <1>1, <2>1, <2>2
<1>10. CASE CrawlIngest BY <1>2, <1>10 DEF CrawlIngest
<1>11. CASE CrawlFetch BY <1>2, <1>11 DEF CrawlFetch, RunFetch
<1>12. CASE CrawlCrash BY <1>2, <1>12 DEF CrawlCrash, JobCrash, Forget
<1>13. CASE UNCHANGED <<intake, crawl>> BY <1>1, <1>13 DEF intake, crawl
<1>. QED
  BY <1>3, <1>4, <1>5, <1>6, <1>7, <1>8, <1>9, <1>10, <1>11, <1>12, <1>13 DEF CrawlNext

-----------------------------------------------------------------------------
(* The theorems.                                                           *)

LEMMA InitInv == CrawlInit => CrawlInv
<1>. SUFFICES ASSUME CrawlInit PROVE CrawlInv OBVIOUS
<1>1. CrawlTypeOK BY TypeInit
<1>2. /\ runs = {} /\ records = {} /\ at = "idle" /\ todo = {} /\ unsaved = {}
      /\ ever = [s \in Sources |-> {}] /\ mark = [s \in Clocked |-> 0]
      /\ checkpoint.completed = {}
  BY DEF CrawlInit, IntakeInit, NoCheckpoint
<1>3. RunsInv BY <1>2 DEF RunsInv, RunIdsDiffer, RunIsOpen, RunHasSnapshot
<1>4. RecordsInv
  BY <1>2 DEF RecordsInv, BatchIsNew, NoRecordTwice, RecordsAreTraceable
<1>5. GapsInv
  BY <1>2 DEF GapsInv, RecordedEver, NoGap, JobLeavesNoGap, Timed, Sources, Covered
<1>6. PagesInv BY <1>2 DEF PagesInv, CrawlSteps, IndexUnderWay, CompletedIsFlushed
<1>. QED BY <1>1, <1>3, <1>4, <1>5, <1>6 DEF CrawlInv

LEMMA InvStep == CrawlInv /\ [CrawlNext]_<<intake, crawl>> => CrawlInv'
BY TypeStep, RunsStep, RecordsStep, RecordedEverStep, NoGapStep, JobNoGapStep, CrawlStepsStep,
   IndexStep
DEF CrawlInv, GapsInv, PagesInv

LEMMA Invariance == CrawlSpec => []CrawlInv
BY InitInv, InvStep, PTL DEF CrawlSpec

\* Every variable keeps its type, through failures, crashes and resets.
THEOREM TypeCorrect == CrawlSpec => []CrawlTypeOK
<1>1. CrawlInv => CrawlTypeOK BY DEF CrawlInv
<1>. QED BY <1>1, Invariance, PTL

\* No entry of a source is recorded twice (RunFetch drops what is recorded, and
\* nothing else records while the job runs).
THEOREM RecordedOnce == CrawlSpec => []NoRecordTwice
<1>1. CrawlInv => NoRecordTwice BY DEF CrawlInv, RecordsInv
<1>. QED BY <1>1, Invariance, PTL

\* A record's run is complete and its bytes are stored, after resets too.
THEOREM Traceable == CrawlSpec => []RecordsAreTraceable
<1>1. CrawlInv => RecordsAreTraceable BY DEF CrawlInv, RecordsInv
<1>. QED BY <1>1, Invariance, PTL

\* A job that asks by time skips nothing that was published.
THEOREM NoneSkipped == CrawlSpec => []NothingSkipped
<1>1. CrawlInv => NothingSkipped
  BY SinceCovered DEF NothingSkipped, Covered, Timed, Modes
<1>. QED BY <1>1, Invariance, PTL

\* The checkpoint calls an index complete only after its pages are stored.
THEOREM FlushedBeforeComplete == CrawlSpec => []CompletedIsFlushed
<1>1. CrawlInv => CompletedIsFlushed BY DEF CrawlInv, PagesInv
<1>. QED BY <1>1, Invariance, PTL

=============================================================================
