------------------------------ MODULE Curation ------------------------------
(***************************************************************************)
(* The writers of the curated messages.  A text enters the table once, by  *)
(* four ways: the normalisation of raw records, a generation lane that     *)
(* stages its drafts and promotes the usable ones, a person who promotes   *)
(* selected drafts, and the acceptance of rewritten Common Crawl pages.    *)
(* Each is one transaction that reads which texts are there and inserts    *)
(* its own later; the unique key on text_sha256 refuses a whole batch.     *)
(* A batch that was refused, or whose process died, leaves nothing behind  *)
(* and is run again.                                                       *)
(*                                                                         *)
(* Raw records, drafts and candidates are numbers, in the order in which   *)
(* a batch goes through them; so are texts.                                *)
(***************************************************************************)
EXTENDS Integers, FiniteSets

CONSTANTS
    Records,      \* raw records of the sources that are normalised
    Drafts,       \* drafts of the lanes: the same in every run
    Usable,       \* drafts whose review_state is 'usable'
    Seeded,       \* drafts with a link to a raw record
    Candidates,   \* accepted candidates of the reviewed export
    RecordOf,     \* RecordOf[c]: the raw record that candidate c rewrites
    Texts,        \* texts, one text_sha256 each
    TextOf,       \* TextOf[x]: the text that becomes of x, NoText: not accepted
    Normalizers, Lanes, Reviewers, Acceptors, Backfills,   \* jobs
    Parallel,     \* bound: jobs that run at the same time
    MaxFaults     \* bound: deletions, resets and deaths of jobs

None == 0
NoText == 0
Items == Records \cup Drafts \cup Candidates
Jobs == Normalizers \cup Lanes \cup Reviewers \cup Acceptors \cup Backfills

ASSUME CurationAssumption ==
    /\ Items \subseteq Nat \ {None} /\ MaxFaults \in Nat /\ Parallel \in Nat \ {0}
    /\ Usable \subseteq Drafts /\ Seeded \subseteq Drafts
    /\ RecordOf \in [Candidates -> Records]
    /\ TextOf \in [Items -> Texts \cup {NoText}]
    /\ Texts \subseteq Nat \ {NoText}
    /\ \A x \in Usable \cup Candidates : TextOf[x] # NoText
    /\ Normalizers \cap (Lanes \cup Reviewers \cup Acceptors \cup Backfills) = {}
    /\ Lanes \cap (Reviewers \cup Acceptors \cup Backfills) = {}
    /\ Reviewers \cap (Acceptors \cup Backfills) = {} /\ Acceptors \cap Backfills = {}

VARIABLES
    present,    \* data_raw_record: the records that are there
    reason,     \* reason[r]: rejection_reason of r
    message,    \* message[t]: what text t was curated from, None: no row
    annotated,  \* texts whose message has an annotation
    samples,    \* drafts with a data_generation_sample row
    released,   \* those of a run that promoted its usable drafts
    job,        \* job[j]: where a job is, and what it has read
    ever,       \* history: texts that were curated at some time
    faults      \* deletions, resets and deaths so far

vars == <<present, reason, message, annotated, samples, released, job, ever, faults>>

Idle == [at |-> "idle", known |-> {}, taken |-> {}, stale |-> FALSE, overtaken |-> FALSE]
Steps == {"idle", "load", "hash", "filter", "guard", "store", "duplicate"}
Resting == {"idle", "duplicate"}
Curated == {t \in Texts : message[t] # None}

\* Each job is a process that a person or a schedule starts; j is at rest.
MayBegin(j) ==
    job[j].at \in Resting /\ Cardinality({i \in Jobs : job[i].at \notin Resting}) < Parallel

CurationTypeOK ==
    /\ present \subseteq Records
    /\ reason \in [Records -> {"none", "rejected", "duplicate"}]
    /\ message \in [Texts -> Items \cup {None}]
    /\ annotated \subseteq Curated
    /\ samples \subseteq Drafts /\ released \subseteq samples
    /\ job \in [Jobs -> [at : Steps, known : SUBSET Texts, taken : SUBSET (Items \cup Texts),
                         stale : BOOLEAN, overtaken : BOOLEAN]]
    /\ ever \subseteq Texts /\ faults \in 0..MaxFaults

Init ==
    /\ present = {} /\ annotated = {} /\ samples = {} /\ released = {} /\ ever = {}
    /\ reason = [r \in Records |-> "none"]
    /\ message = [t \in Texts |-> None]
    /\ job = [j \in Jobs |-> Idle]
    /\ faults = 0

-----------------------------------------------------------------------------
\* Mutant: texts that repeat within the batch are not looked for.
KeptWithRepeats(xs, known) == {x \in xs : TextOf[x] \notin known \cup {NoText}}

\* What a batch inserts of what it took: texts that were not there when it
\* looked, each by the first item that has it.
Kept(xs, known) ==
    {x \in xs : /\ TextOf[x] \notin known \cup {NoText}
                /\ \A y \in xs : TextOf[y] = TextOf[x] => x <= y}

\* The unique key refuses the batch.
Collides(xs) ==
    \/ \E x \in xs : TextOf[x] \in Curated
    \/ \E x, y \in xs : x # y /\ TextOf[x] = TextOf[y]

Goto(j, step) == job' = [job EXCEPT ![j].at = step]

\* The transaction of j is rolled back, and its process ends; the note is
\* whether an insertion collided, and who else committed meanwhile.
Refuse(j, why) ==
    /\ job' = [job EXCEPT ![j] = [Idle EXCEPT !.at = why, !.overtaken =
                  why = "duplicate" /\ job[j].overtaken]]
    /\ UNCHANGED <<present, reason, message, annotated, samples, released, ever, faults>>

\* The transaction of j commits with a message for each of xs.
Insert(j, xs) ==
    /\ message' = [t \in Texts |-> IF \E x \in xs : TextOf[x] = t
                                     THEN CHOOSE x \in xs : TextOf[x] = t ELSE message[t]]
    /\ ever' = ever \cup {TextOf[x] : x \in xs}
    /\ job' = [i \in Jobs |->
                 IF i = j THEN Idle
                 ELSE [job[i] EXCEPT !.overtaken = @ \/ (xs # {} /\ job[i].at \notin Resting)]]

-----------------------------------------------------------------------------
(* Raw records                                                             *)

\* An ingestion run commits a record.
Arrive(r) ==
    /\ r \notin present
    /\ present' = present \cup {r}
    /\ UNCHANGED <<reason, message, annotated, samples, released, job, ever, faults>>

\* The reset of the scheduled runs deletes their records, unless messages
\* depend on them; links of samples to records refuse the deletion.
Reset ==
    /\ present # {} /\ faults < MaxFaults
    /\ \A t \in Texts : message[t] \notin Records \cup Candidates
    /\ samples \cap Seeded = {}
    /\ \A l \in Lanes : job[l].at \in {"filter", "guard", "store"} => Seeded = {}
    /\ present' = {}
    /\ reason' = [r \in Records |-> "none"]
    /\ job' = [j \in Jobs |-> [job[j] EXCEPT !.stale = @ \/ job[j].at \notin Resting]]
    /\ faults' = faults + 1
    /\ UNCHANGED <<message, annotated, samples, released, ever>>

-----------------------------------------------------------------------------
(* NormalizationPipeline.run_batch                                         *)

Normalized(r) == \E t \in Texts :
    message[t] = r \/ (message[t] \in Candidates /\ RecordOf[message[t]] = r)

\* Mutant: a batch has a limit, as without --all-pending; here it is one.
PendingHead ==
    {r \in present : ~Normalized(r) /\ \A q \in present : Normalized(q) \/ r <= q}

\* Records without a message, whatever an earlier batch said of them.
Pending == {r \in present : ~Normalized(r)}

NormalizeSelect(j) ==
    /\ MayBegin(j) /\ Pending # {}
    /\ job' = [job EXCEPT ![j] = [Idle EXCEPT !.at = "hash", !.taken = Pending]]
    /\ UNCHANGED <<present, reason, message, annotated, samples, released, ever, faults>>

\* SELECT text_sha256 of all messages.
NormalizeHash(j) ==
    /\ job[j].at = "hash"
    /\ job' = [job EXCEPT ![j].at = "store", ![j].known = Curated]
    /\ UNCHANGED <<present, reason, message, annotated, samples, released, ever, faults>>

\* Every record becomes a message or is given the reason why not; one commit.
NormalizeStore(j) ==
    LET taken == job[j].taken
        kept == Kept(taken, job[j].known)
    IN /\ job[j].at = "store"
       /\ IF job[j].stale THEN Refuse(j, "idle")
          ELSE IF Collides(kept) THEN Refuse(j, "duplicate")
          ELSE /\ Insert(j, kept)
               /\ reason' = [r \in Records |->
                    IF r \notin taken \ kept THEN reason[r]
                    ELSE IF TextOf[r] = NoText THEN "rejected" ELSE "duplicate"]
               /\ UNCHANGED <<present, annotated, samples, released, faults>>

-----------------------------------------------------------------------------
(* persist_generation_bundle_with_gated_promotion                          *)

\* The seeds are loaded and the drafts made of them.
LaneLoad(l) ==
    /\ MayBegin(l) /\ (Seeded # {} => present # {})
    /\ job' = [job EXCEPT ![l] = [Idle EXCEPT !.at = "load"]]
    /\ UNCHANGED <<present, reason, message, annotated, samples, released, ever, faults>>

\* Mutant: staging commits.
LaneStageCommitted(l) ==
    /\ job[l].at = "load"
    /\ IF job[l].stale /\ Seeded # {} THEN Refuse(l, "idle")
       ELSE /\ Goto(l, "filter")
            /\ samples' = Drafts /\ released' = Drafts
            /\ UNCHANGED <<present, reason, message, annotated, ever, faults>>

\* The run, its samples and their links, flushed and not committed.
LaneStage(l) ==
    /\ job[l].at = "load"
    /\ IF job[l].stale /\ Seeded # {} THEN Refuse(l, "idle")
       ELSE /\ Goto(l, "filter")
            /\ UNCHANGED <<present, reason, message, annotated, samples, released, ever, faults>>

\* --persist-lineage: the staging alone is committed.
LaneLineage(l) ==
    /\ job[l].at = "filter"
    /\ samples' = Drafts
    /\ job' = [job EXCEPT ![l] = Idle]
    /\ UNCHANGED <<present, reason, message, annotated, released, ever, faults>>

\* _drop_already_curated
LaneFilter(l) ==
    /\ job[l].at = "filter"
    /\ LET kept == Kept(Usable, Curated) IN
         job' = [job EXCEPT ![l].taken = kept, ![l].at = IF kept = {} THEN "store" ELSE "guard"]
    /\ UNCHANGED <<present, reason, message, annotated, samples, released, ever, faults>>

\* persist_generated_promotion_review looks again, and raises.
LaneGuard(l) ==
    /\ job[l].at = "guard"
    /\ IF \E x \in job[l].taken : TextOf[x] \in Curated THEN Refuse(l, "duplicate")
       ELSE /\ Goto(l, "store")
            /\ UNCHANGED <<present, reason, message, annotated, samples, released, ever, faults>>

\* Raw records, messages and annotations, and the one commit.
LaneStore(l) ==
    LET kept == job[l].taken IN
    /\ job[l].at = "store"
    /\ IF Collides(kept) THEN Refuse(l, "duplicate")
       ELSE /\ Insert(l, kept)
            /\ annotated' = annotated \cup {TextOf[x] : x \in kept}
            /\ samples' = Drafts /\ released' = Drafts
            /\ UNCHANGED <<present, reason, faults>>

-----------------------------------------------------------------------------
(* persist_generated_promotion_review, by a person                         *)

\* Selected usable drafts, none of them curated.
ReviewGuard(v) ==
    /\ MayBegin(v)
    /\ \E S \in (SUBSET Usable) \ {{}} :
         /\ \A x \in S : TextOf[x] \notin Curated
         /\ job' = [job EXCEPT ![v] = [Idle EXCEPT !.at = "store", !.taken = S]]
    /\ UNCHANGED <<present, reason, message, annotated, samples, released, ever, faults>>

ReviewStore(v) ==
    LET kept == job[v].taken IN
    /\ job[v].at = "store"
    /\ IF Collides(kept) THEN Refuse(v, "idle")
       ELSE /\ Insert(v, kept)
            /\ annotated' = annotated \cup {TextOf[x] : x \in kept}
            /\ UNCHANGED <<present, reason, samples, released, faults>>

-----------------------------------------------------------------------------
(* persist_common_crawl_acceptance_review                                  *)

\* The export is made of the records that are there.
AcceptLoad(a) ==
    /\ MayBegin(a)
    /\ job' = [job EXCEPT ![a] = [Idle EXCEPT !.at = "filter",
                                     !.taken = {c \in Candidates : RecordOf[c] \in present}]]
    /\ UNCHANGED <<present, reason, message, annotated, samples, released, ever, faults>>

\* _drop_duplicate_cc_candidates
AcceptFilter(a) ==
    /\ job[a].at = "filter"
    /\ job' = [job EXCEPT ![a].at = "store", ![a].taken = Kept(job[a].taken, Curated)]
    /\ UNCHANGED <<present, reason, message, annotated, samples, released, ever, faults>>

\* A candidate whose record is gone refuses the batch, by the check before the
\* insert or by the foreign key.
AcceptStore(a) ==
    LET kept == job[a].taken IN
    /\ job[a].at = "store"
    /\ IF job[a].stale /\ kept # {} THEN Refuse(a, "idle")
       ELSE IF Collides(kept) THEN Refuse(a, "duplicate")
       ELSE /\ Insert(a, kept)
            /\ annotated' = annotated \cup {TextOf[x] : x \in kept}
            /\ UNCHANGED <<present, reason, samples, released, faults>>

-----------------------------------------------------------------------------
(* backfill_missing_annotations                                            *)

BackfillSelect(b) ==
    /\ MayBegin(b) /\ Curated \ annotated # {}
    /\ job' = [job EXCEPT ![b] = [Idle EXCEPT !.at = "store", !.taken = Curated \ annotated]]
    /\ UNCHANGED <<present, reason, message, annotated, samples, released, ever, faults>>

\* One that was deleted since refuses all.
BackfillStore(b) ==
    /\ job[b].at = "store"
    /\ IF job[b].stale THEN Refuse(b, "idle")
       ELSE /\ annotated' = annotated \cup job[b].taken
            /\ job' = [job EXCEPT ![b] = Idle]
            /\ UNCHANGED <<present, reason, message, samples, released, ever, faults>>

-----------------------------------------------------------------------------
\* DELETE /messages: an annotation of it refuses (its key may not be null), so
\* that no dataset has it either.  What it came from stays.
DeleteMessage(t) ==
    /\ message[t] # None /\ t \notin annotated /\ faults < MaxFaults
    /\ message' = [message EXCEPT ![t] = None]
    /\ job' = [j \in Jobs |-> [job[j] EXCEPT !.stale = @ \/ (j \in Backfills /\ t \in job[j].taken)]]
    /\ faults' = faults + 1
    /\ UNCHANGED <<present, reason, annotated, samples, released, ever>>

JobDie(j) ==
    /\ job[j].at \notin Resting /\ faults < MaxFaults
    /\ job' = [job EXCEPT ![j] = Idle]
    /\ faults' = faults + 1
    /\ UNCHANGED <<present, reason, message, annotated, samples, released, ever>>

Normalize(j) == NormalizeSelect(j) \/ NormalizeHash(j) \/ NormalizeStore(j)
Generate(l) ==
    LaneLoad(l) \/ LaneStage(l) \/ LaneLineage(l) \/ LaneFilter(l) \/ LaneGuard(l) \/ LaneStore(l)
Review(v) == ReviewGuard(v) \/ ReviewStore(v)
Accept(a) == AcceptLoad(a) \/ AcceptFilter(a) \/ AcceptStore(a)
Annotate(b) == BackfillSelect(b) \/ BackfillStore(b)

Next ==
    \/ \E r \in Records : Arrive(r)
    \/ Reset
    \/ \E j \in Normalizers : Normalize(j)
    \/ \E l \in Lanes : Generate(l)
    \/ \E v \in Reviewers : Review(v)
    \/ \E a \in Acceptors : Accept(a)
    \/ \E b \in Backfills : Annotate(b)
    \/ \E t \in Texts : DeleteMessage(t)
    \/ \E j \in Jobs : JobDie(j)

\* A job that began goes on: nothing in it waits for another.  `make process`
\* runs normalisation (--all-pending) and the backfill before every release;
\* the bound Parallel is the model's and does not keep them from it.
Fairness ==
    /\ \A j \in Normalizers : SF_vars(Normalize(j))
    /\ \A b \in Backfills : SF_vars(Annotate(b))
    /\ \A l \in Lanes : WF_vars(job[l].at \notin Resting /\ Generate(l))
    /\ \A v \in Reviewers : WF_vars(job[v].at \notin Resting /\ Review(v))
    /\ \A a \in Acceptors : WF_vars(job[a].at \notin Resting /\ Accept(a))

Spec == Init /\ [][Next]_vars
FairSpec == Spec /\ Fairness

-----------------------------------------------------------------------------
\* A generation run that is recorded as released is whole: every usable draft
\* it staged was curated, by it or by another way, although its promotion may
\* be refused after the staging.
ReleasedIsCurated ==
    \A d \in released \cap Usable : TextOf[d] \in ever

\* Normalisation, lanes and acceptance are refused for a duplicate only when
\* another batch committed while they ran: neither what an earlier release
\* curated nor a repetition of their own stops them.
OnlyOvertakenCollide ==
    \A j \in Normalizers \cup Lanes \cup Acceptors :
        job[j].at = "duplicate" => job[j].overtaken

\* A record with an acceptable text gets it into the annotated messages that a
\* build sees, in spite of rejected records before it, refused batches and
\* deleted messages.
AcceptableIsCurated ==
    \A r \in Records :
        TextOf[r] # NoText => (r \in present ~> TextOf[r] \in annotated \/ r \notin present)
=============================================================================
