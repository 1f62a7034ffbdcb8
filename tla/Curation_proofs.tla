-------------------------- MODULE Curation_proofs --------------------------
(***************************************************************************)
(* What the writers of the curated messages keep whatever the interleaving *)
(* of their batches.  The inductive invariant says of each job what it has *)
(* read and what it is about to insert, and is one predicate of the record *)
(* of the job.                                                             *)
(***************************************************************************)
EXTENDS Curation, WellFoundedInduction, TLAPS

USE CurationAssumption DEF Jobs, Items, None, NoText

-----------------------------------------------------------------------------
(* A batch keeps the first item of each text: there is one.                *)

Below == {ss \in Nat \X Nat : ss[1] < ss[2]}

LEMMA BelowWellFounded == IsWellFoundedOn(Below, Nat)
BY NatLessThanWellFounded DEF OpToRel, Below

LEMMA LeastOf ==
    ASSUME NEW S, S \subseteq Nat, S # {}
    PROVE  \E m \in S : \A n \in S : m <= n
<1>1. PICK m \in S : \A n \in S : ~ (<<n, m>> \in Below) BY BelowWellFounded, WFMin
<1>2. \A k, n \in Nat : <<n, k>> \in Below <=> n < k BY DEF Below
<1>3. \A n \in S : ~(n < m) /\ n \in Nat /\ m \in Nat BY <1>1, <1>2
<1>. QED BY <1>3

Distinct(xs) == \A x, y \in xs : TextOf[x] = TextOf[y] => x = y
Fresh(xs) == \A x \in xs : TextOf[x] \notin Curated
Covers(xs) == \A d \in Usable : TextOf[d] \in ever \/ \E x \in xs : TextOf[x] = TextOf[d]

\* What Kept returns: each new text once, and none of them is lost.
LEMMA KeptOnce ==
    ASSUME NEW xs, xs \subseteq Items, NEW known
    PROVE  /\ Kept(xs, known) \subseteq xs /\ Distinct(Kept(xs, known))
           /\ \A x \in Kept(xs, known) : TextOf[x] \notin known /\ TextOf[x] \in Texts
           /\ \A x \in xs : TextOf[x] \in known \cup {NoText}
                 \/ \E y \in Kept(xs, known) : TextOf[y] = TextOf[x]
<1>1. Kept(xs, known) \subseteq xs BY DEF Kept
<1>2. Distinct(Kept(xs, known)) BY DEF Kept, Distinct
<1>3. \A x \in Kept(xs, known) : TextOf[x] \notin known /\ TextOf[x] \in Texts BY DEF Kept
<1>4. ASSUME NEW x \in xs, TextOf[x] \notin known \cup {NoText}
      PROVE  \E y \in Kept(xs, known) : TextOf[y] = TextOf[x]
  <2>. DEFINE same == {y \in xs : TextOf[y] = TextOf[x]}
  <2>1. same \subseteq Nat /\ same # {} OBVIOUS
  <2>2. PICK y \in same : \A z \in same : y <= z BY <2>1, LeastOf
  <2>. QED BY <1>4, <2>2 DEF Kept
<1>. QED BY <1>1, <1>2, <1>3, <1>4

-----------------------------------------------------------------------------
(* The inductive invariant.                                                *)

JobRecs == [at : Steps, known : SUBSET Texts, taken : SUBSET (Items \cup Texts),
            stale : BOOLEAN, overtaken : BOOLEAN]

\* What job j, whose record is b, has read and will insert: until another batch
\* commits, no text of the table is among those it found missing.
NormalizerOK(b) ==
    /\ b.at \in {"idle", "duplicate", "hash", "store"} /\ b.taken \subseteq Records
    /\ b.at = "store" /\ ~b.overtaken => Curated \subseteq b.known
LaneOK(b) ==
    /\ b.at # "hash" /\ b.taken \subseteq Usable
    /\ b.at \in {"guard", "store"} =>
          Distinct(b.taken) /\ Covers(b.taken) /\ (b.overtaken \/ Fresh(b.taken))
ReviewerOK(b) == b.at \in {"idle", "store"} /\ b.taken \subseteq Usable
AcceptorOK(b) ==
    /\ b.at \in {"idle", "duplicate", "filter", "store"} /\ b.taken \subseteq Candidates
    /\ b.at = "store" => Distinct(b.taken) /\ (b.overtaken \/ Fresh(b.taken))
BackfillOK(b) ==
    b.at \in {"idle", "store"} /\ b.taken \subseteq Texts /\ (b.stale \/ b.taken \subseteq Curated)

JobOK(j, b) ==
    /\ j \in Normalizers => NormalizerOK(b)
    /\ j \in Lanes => LaneOK(b)
    /\ j \in Reviewers => ReviewerOK(b)
    /\ j \in Acceptors => AcceptorOK(b)
    /\ j \in Backfills => BackfillOK(b)
    /\ j \in Normalizers \cup Lanes \cup Acceptors /\ b.at = "duplicate" => b.overtaken

JobsOK == \A j \in Jobs : JobOK(j, job[j])

CurationInv ==
    CurationTypeOK /\ Curated \subseteq ever /\ ReleasedIsCurated /\ JobsOK

tables == <<present, reason, message, annotated, samples, released, ever>>

\* Only the record of j changes.
Turn(j) ==
    job' \in [Jobs -> JobRecs] /\ \A i \in Jobs : i # j => job'[i] = job[i]

LEMMA TurnInv ==
    ASSUME CurationInv, NEW j \in Jobs, Turn(j), UNCHANGED <<tables, faults>>, JobOK(j, job'[j])
    PROVE  CurationInv'
<1>1. \A i \in Jobs : JobOK(i, job'[i]) BY DEF Turn, CurationInv, JobsOK
<1>2. JobsOK'
  BY <1>1 DEF tables, JobsOK, JobOK, NormalizerOK, LaneOK, ReviewerOK, AcceptorOK, BackfillOK,
     Fresh, Covers, Distinct, Curated
<1>3. CurationTypeOK'
  BY DEF CurationInv, CurationTypeOK, JobRecs, Turn, tables, Curated
<1>. QED BY <1>2, <1>3 DEF CurationInv, tables, Curated, ReleasedIsCurated

\* A job starts.
LEMMA StartTurns ==
    ASSUME CurationInv, NEW j \in Jobs, NEW at \in Steps, NEW T \in SUBSET (Items \cup Texts),
           job' = [job EXCEPT ![j] = [Idle EXCEPT !.at = at, !.taken = T]]
    PROVE  /\ Turn(j) /\ job'[j].at = at /\ job'[j].taken = T
           /\ job'[j].overtaken = FALSE /\ job'[j].stale = FALSE
<1>. DEFINE b == [Idle EXCEPT !.at = at, !.taken = T]
<1>1. /\ b \in JobRecs /\ b.at = at /\ b.taken = T /\ b.overtaken = FALSE /\ b.stale = FALSE
  BY DEF Idle, JobRecs, Steps
<1>2. job \in [Jobs -> JobRecs] BY DEF CurationInv, CurationTypeOK, JobRecs
<1>3. job' = [job EXCEPT ![j] = b] OBVIOUS
<1>. HIDE DEF b
<1>4. Turn(j) /\ job'[j] = b BY <1>1, <1>2, <1>3 DEF Turn
<1>. QED BY <1>1, <1>4

\* A job goes on.
LEMMA StepTurns ==
    ASSUME CurationInv, NEW j \in Jobs, NEW at \in Steps, NEW K \in SUBSET Texts,
           NEW T \in SUBSET (Items \cup Texts),
           job' = [job EXCEPT ![j].at = at, ![j].known = K, ![j].taken = T]
    PROVE  /\ Turn(j)
           /\ job'[j].at = at /\ job'[j].known = K /\ job'[j].taken = T
           /\ job'[j].overtaken = job[j].overtaken /\ job'[j].stale = job[j].stale
<1>1. job \in [Jobs -> JobRecs] BY DEF CurationInv, CurationTypeOK, JobRecs
<1>. QED BY <1>1 DEF Turn, JobRecs

\* A transaction is rolled back.
LEMMA RefuseInv ==
    ASSUME CurationInv, NEW j \in Jobs, NEW why \in {"idle", "duplicate"}, Refuse(j, why),
           why = "duplicate" => j \in Normalizers \cup Lanes \cup Acceptors /\ job[j].overtaken
    PROVE  CurationInv'
<1>. DEFINE b == [Idle EXCEPT !.at = why, !.overtaken = why = "duplicate" /\ job[j].overtaken]
<1>1. /\ b \in JobRecs /\ b.at = why /\ b.taken = {}
      /\ b.overtaken = (why = "duplicate" /\ job[j].overtaken) /\ b.stale = FALSE
  BY DEF JobRecs, Idle, Steps
<1>2. job \in [Jobs -> JobRecs] BY DEF CurationInv, CurationTypeOK, JobRecs
<1>3. job' = [job EXCEPT ![j] = b] /\ UNCHANGED <<tables, faults>> BY DEF Refuse, tables
<1>4. JobOK(j, b)
  BY <1>1 DEF JobOK, NormalizerOK, LaneOK, ReviewerOK, AcceptorOK, BackfillOK
<1>. HIDE DEF b
<1>5. Turn(j) /\ job'[j] = b BY <1>1, <1>2, <1>3 DEF Turn
<1>. QED BY <1>3, <1>4, <1>5, TurnInv

\* A batch that commits overtakes whoever runs.
LEMMA InsertKeeps ==
    ASSUME CurationInv, NEW j \in Jobs, NEW xs, xs \subseteq Items,
           \A x \in xs : TextOf[x] \in Texts, Insert(j, xs)
    PROVE  /\ message' \in [Texts -> Items \cup {None}]
           /\ Curated' = Curated \cup {TextOf[x] : x \in xs}
           /\ Curated' \subseteq ever' /\ ever \subseteq ever' /\ ever' \subseteq Texts
           /\ \A x \in xs : TextOf[x] \in ever'
           /\ job' \in [Jobs -> JobRecs] /\ JobsOK'
<1>0. /\ job \in [Jobs -> JobRecs] /\ message \in [Texts -> Items \cup {None}]
      /\ Curated \subseteq ever /\ ever \subseteq Texts /\ JobsOK
  BY DEF CurationInv, CurationTypeOK, JobRecs
<1>1. /\ message' \in [Texts -> Items \cup {None}]
      /\ \A t \in Texts : message'[t] # None <=> (t \in Curated \/ \E x \in xs : TextOf[x] = t)
  <2>1. \A t \in Texts : (\E x \in xs : TextOf[x] = t) =>
          (CHOOSE x \in xs : TextOf[x] = t) \in Items
    OBVIOUS
  <2>2. message' = [t \in Texts |-> IF \E x \in xs : TextOf[x] = t
                                      THEN CHOOSE x \in xs : TextOf[x] = t ELSE message[t]]
    BY DEF Insert
  <2>. QED BY <1>0, <2>1, <2>2 DEF Curated
<1>2. Curated' = Curated \cup {TextOf[x] : x \in xs}
  <2>1. Curated' = {t \in Texts : message'[t] # None} BY DEF Curated
  <2>2. Curated \subseteq Texts BY DEF Curated
  <2>3. \A t \in Curated' : t \in Curated \cup {TextOf[x] : x \in xs} BY <1>1, <2>1
  <2>4. \A t \in Curated : t \in Curated' BY <1>1, <2>1, <2>2
  <2>5. \A x \in xs : TextOf[x] \in Curated' BY <1>1, <2>1
  <2>. HIDE DEF Items
  <2>. QED BY <2>3, <2>4, <2>5
<1>3. ever' = ever \cup {TextOf[x] : x \in xs} BY DEF Insert
<1>4. \A i \in Jobs :
        job'[i] = IF i = j THEN Idle
                  ELSE [job[i] EXCEPT !.overtaken = @ \/ (xs # {} /\ job[i].at \notin Resting)]
  BY DEF Insert
<1>5. \A i \in Jobs : i # j =>
        /\ job'[i].at = job[i].at /\ job'[i].taken = job[i].taken /\ job'[i].stale = job[i].stale
        /\ job'[i].known = job[i].known /\ job'[i] \in JobRecs
        /\ job'[i].overtaken <=> job[i].overtaken \/ (xs # {} /\ job[i].at \notin Resting)
  <2>. SUFFICES ASSUME NEW i \in Jobs, i # j
                PROVE  /\ job'[i].at = job[i].at /\ job'[i].taken = job[i].taken
                       /\ job'[i].stale = job[i].stale /\ job'[i].known = job[i].known
                       /\ job'[i] \in JobRecs
                       /\ job'[i].overtaken <=>
                             job[i].overtaken \/ (xs # {} /\ job[i].at \notin Resting)
    OBVIOUS
  <2>1. job[i] \in JobRecs BY <1>0
  <2>2. job'[i] = [job[i] EXCEPT !.overtaken = @ \/ (xs # {} /\ job[i].at \notin Resting)]
    BY <1>4
  <2>. QED BY <2>1, <2>2 DEF JobRecs
<1>6. job'[j] = Idle /\ Idle \in JobRecs BY <1>4 DEF Idle, JobRecs, Steps
<1>7. job' \in [Jobs -> JobRecs] BY <1>5, <1>6 DEF Insert
<1>8. JobsOK'
  <2>. SUFFICES ASSUME NEW i \in Jobs PROVE JobOK(i, job[i])' BY DEF JobsOK
  <2>1. CASE i = j
    BY <1>6, <2>1
    DEF JobOK, NormalizerOK, LaneOK, ReviewerOK, AcceptorOK, BackfillOK, Idle
  <2>2. CASE i # j /\ xs # {}
    <3>1. JobOK(i, job[i]) BY <1>0 DEF JobsOK
    <3>2. \A ys : Covers(ys) => Covers(ys)' BY <1>3 DEF Covers
    <3>3. job[i].at \notin {"idle", "duplicate"} => job'[i].overtaken
      BY <1>5, <2>2 DEF Resting
    <3>. QED
      BY <1>2, <1>5, <2>2, <3>1, <3>2, <3>3
      DEF JobOK, NormalizerOK, LaneOK, ReviewerOK, AcceptorOK, BackfillOK, Distinct
  <2>3. CASE i # j /\ xs = {}
    <3>1. JobOK(i, job[i]) BY <1>0 DEF JobsOK
    <3>2. Curated' = Curated /\ ever' = ever BY <1>2, <1>3, <2>3
    <3>3. \A ys : (Covers(ys) => Covers(ys)') /\ (Fresh(ys) => Fresh(ys)')
      BY <3>2 DEF Covers, Fresh
    <3>. QED
      BY <1>5, <2>3, <3>1, <3>2, <3>3
      DEF JobOK, NormalizerOK, LaneOK, ReviewerOK, AcceptorOK, BackfillOK, Distinct
  <2>. QED BY <2>1, <2>2, <2>3
<1>9. Curated' \subseteq ever' /\ ever \subseteq ever' BY <1>0, <1>2, <1>3
<1>10. ever' \subseteq Texts
  <2>1. \A t \in {TextOf[x] : x \in xs} : \E x \in xs : t = TextOf[x] OBVIOUS
  <2>2. \A t \in {TextOf[x] : x \in xs} : t \in Texts BY <2>1
  <2>. QED BY <1>0, <1>3, <2>2
<1>. QED BY <1>1, <1>2, <1>3, <1>7, <1>8, <1>9, <1>10

LEMMA InsertInv ==
    ASSUME CurationInv, NEW j \in Jobs, NEW xs, xs \subseteq Items,
           \A x \in xs : TextOf[x] \in Texts, Insert(j, xs), UNCHANGED <<present, faults>>,
           reason' \in [Records -> {"none", "rejected", "duplicate"}],
           annotated' \subseteq annotated \cup {TextOf[x] : x \in xs},
           UNCHANGED <<samples, released>> \/ (samples' = Drafts /\ released' = Drafts /\ Covers(xs))
    PROVE  CurationInv'
<1>1. /\ message' \in [Texts -> Items \cup {None}]
      /\ Curated' = Curated \cup {TextOf[x] : x \in xs}
      /\ Curated' \subseteq ever' /\ ever \subseteq ever' /\ ever' \subseteq Texts
      /\ \A x \in xs : TextOf[x] \in ever'
      /\ job' \in [Jobs -> JobRecs] /\ JobsOK'
  BY InsertKeeps
<1>2. CurationTypeOK'
  <2>1. annotated' \subseteq Curated' BY <1>1 DEF CurationInv, CurationTypeOK
  <2>2. samples' \subseteq Drafts /\ released' \subseteq samples'
    BY DEF CurationInv, CurationTypeOK
  <2>. QED BY <1>1, <2>1, <2>2 DEF CurationInv, CurationTypeOK, JobRecs
<1>3. ReleasedIsCurated'
  <2>1. CASE UNCHANGED released BY <1>1, <2>1 DEF CurationInv, ReleasedIsCurated
  <2>2. CASE Covers(xs) BY <1>1, <2>2 DEF Covers, ReleasedIsCurated
  <2>. QED BY <2>1, <2>2
<1>. QED BY <1>1, <1>2, <1>3 DEF CurationInv

-----------------------------------------------------------------------------
(* One lemma for each way into the table.                                  *)

LEMMA NormalizeInv ==
    ASSUME CurationInv, NEW j \in Normalizers, Normalize(j)
    PROVE  CurationInv'
<1>0. /\ job[j] \in JobRecs /\ NormalizerOK(job[j]) /\ j \in Jobs
      /\ j \notin Lanes \cup Reviewers \cup Acceptors \cup Backfills
  BY DEF CurationInv, CurationTypeOK, JobRecs, JobsOK, JobOK
<1>1. CASE NormalizeSelect(j)
  <2>1. Pending \subseteq Records /\ Pending \in SUBSET (Items \cup Texts)
    BY DEF Pending, CurationInv, CurationTypeOK
  <2>2. Turn(j) /\ job'[j].at = "hash" /\ job'[j].taken = Pending
    <3>1. "hash" \in Steps BY DEF Steps
    <3>2. job' = [job EXCEPT ![j] = [Idle EXCEPT !.at = "hash", !.taken = Pending]]
      BY <1>1 DEF NormalizeSelect
    <3>. QED BY <1>0, <2>1, <3>1, <3>2, StartTurns
  <2>3. JobOK(j, job'[j]) BY <1>0, <2>1, <2>2 DEF JobOK, NormalizerOK
  <2>. QED BY <1>0, <1>1, <2>2, <2>3, TurnInv DEF NormalizeSelect, tables
<1>2. CASE NormalizeHash(j)
  <2>1. /\ job' = [job EXCEPT ![j].at = "store", ![j].known = Curated]
        /\ job \in [Jobs -> JobRecs] /\ Curated \in SUBSET Texts
    BY <1>2 DEF NormalizeHash, CurationInv, CurationTypeOK, JobRecs, Curated
  <2>2. Turn(j) /\ job'[j].at = "store" /\ job'[j].taken = job[j].taken /\ job'[j].known = Curated
    BY <1>0, <2>1 DEF Turn, JobRecs, Steps
  <2>3. JobOK(j, job'[j]) BY <1>0, <2>2 DEF JobOK, NormalizerOK
  <2>. QED BY <1>0, <1>2, <2>2, <2>3, TurnInv DEF NormalizeHash, tables
<1>3. CASE NormalizeStore(j)
  <2>. DEFINE taken == job[j].taken  kept == Kept(taken, job[j].known)
  <2>1. /\ job[j].at = "store" /\ kept \subseteq taken /\ kept \subseteq Items /\ Distinct(kept)
        /\ \A x \in kept : TextOf[x] \notin job[j].known /\ TextOf[x] \in Texts
    BY <1>0, <1>3, KeptOnce DEF NormalizeStore, NormalizerOK
  <2>. HIDE DEF taken, kept
  <2>2. CASE Refuse(j, "idle") BY <1>0, <2>2, RefuseInv
  <2>3. CASE Refuse(j, "duplicate") /\ Collides(kept)
    <3>1. job[j].overtaken BY <1>0, <2>1, <2>3 DEF Collides, NormalizerOK, Distinct
    <3>. QED BY <1>0, <2>3, <3>1, RefuseInv
  <2>4. CASE /\ Insert(j, kept)
             /\ reason' = [r \in Records |->
                    IF r \notin taken \ kept THEN reason[r]
                    ELSE IF TextOf[r] = NoText THEN "rejected" ELSE "duplicate"]
             /\ UNCHANGED <<present, annotated, samples, released, faults>>
    <3>1. reason' \in [Records -> {"none", "rejected", "duplicate"}]
      BY <2>4 DEF CurationInv, CurationTypeOK
    <3>. QED BY <1>0, <2>1, <2>4, <3>1, InsertInv
  <2>. QED BY <1>3, <2>2, <2>3, <2>4 DEF NormalizeStore, taken, kept
<1>. QED BY <1>1, <1>2, <1>3 DEF Normalize

LEMMA GenerateInv ==
    ASSUME CurationInv, NEW l \in Lanes, Generate(l)
    PROVE  CurationInv'
<1>0. /\ job \in [Jobs -> JobRecs] /\ job[l] \in JobRecs /\ LaneOK(job[l]) /\ l \in Jobs
      /\ l \notin Normalizers \cup Reviewers \cup Acceptors \cup Backfills
      /\ Curated \subseteq ever
  BY DEF CurationInv, CurationTypeOK, JobRecs, JobsOK, JobOK
<1>1. CASE LaneLoad(l)
  <2>. DEFINE b == [Idle EXCEPT !.at = "load"]
  <2>1. b \in JobRecs /\ b.at = "load" /\ b.taken = {} BY DEF Idle, JobRecs, Steps
  <2>0. job' = [job EXCEPT ![l] = b] BY <1>1 DEF LaneLoad
  <2>. HIDE DEF b
  <2>2. Turn(l) /\ job'[l] = b BY <1>0, <2>0, <2>1 DEF Turn
  <2>3. JobOK(l, job'[l]) BY <1>0, <2>1, <2>2 DEF JobOK, LaneOK
  <2>. QED BY <1>0, <1>1, <2>2, <2>3, TurnInv DEF LaneLoad, tables
<1>2. CASE LaneStage(l)
  <2>1. CASE Refuse(l, "idle") BY <1>0, <2>1, RefuseInv
  <2>2. CASE Goto(l, "filter") /\ UNCHANGED <<tables, faults>>
    <3>1. Turn(l) /\ job'[l].at = "filter" /\ job'[l].taken = job[l].taken
      BY <1>0, <2>2 DEF Goto, Turn, JobRecs, Steps
    <3>2. JobOK(l, job'[l]) BY <1>0, <3>1 DEF JobOK, LaneOK
    <3>. QED BY <1>0, <2>2, <3>1, <3>2, TurnInv
  <2>. QED BY <1>2, <2>1, <2>2 DEF LaneStage, tables
<1>3. CASE LaneLineage(l)
  <2>1. job'[l] = Idle /\ job' \in [Jobs -> JobRecs] /\ \A i \in Jobs : i # l => job'[i] = job[i]
    <3>1. Idle \in JobRecs BY DEF Idle, JobRecs, Steps
    <3>. QED BY <1>0, <1>3, <3>1 DEF LaneLineage
  <2>2. JobOK(l, Idle) BY <1>0 DEF JobOK, LaneOK, Idle
  <2>3. \A i \in Jobs : JobOK(i, job'[i]) BY <2>1, <2>2 DEF CurationInv, JobsOK
  <2>4. UNCHANGED <<present, reason, message, annotated, released, ever, faults>> /\ samples' = Drafts
    BY <1>3 DEF LaneLineage
  <2>5. JobsOK'
    BY <2>3, <2>4 DEF JobsOK, JobOK, NormalizerOK, LaneOK, ReviewerOK, AcceptorOK, BackfillOK,
       Fresh, Covers, Distinct, Curated
  <2>6. CurationTypeOK' BY <2>1, <2>4 DEF CurationInv, CurationTypeOK, JobRecs, Curated
  <2>. QED BY <2>4, <2>5, <2>6 DEF CurationInv, ReleasedIsCurated, Curated
<1>4. CASE LaneFilter(l)
  <2>. DEFINE kept == Kept(Usable, Curated)
  <2>1. /\ kept \subseteq Usable /\ Distinct(kept) /\ \A x \in kept : TextOf[x] \notin Curated
        /\ \A x \in Usable : TextOf[x] \in Curated \/ \E y \in kept : TextOf[y] = TextOf[x]
    BY KeptOnce
  <2>. HIDE DEF kept
  <2>2. PICK at \in {"store", "guard"} : job' = [job EXCEPT ![l].taken = kept, ![l].at = at]
    BY <1>4 DEF LaneFilter, kept
  <2>3. kept \in SUBSET (Items \cup Texts) BY <2>1
  <2>4. /\ Turn(l) /\ job'[l].at = at /\ job'[l].taken = kept
    BY <1>0, <2>2, <2>3 DEF Turn, JobRecs, Steps
  <2>5. JobOK(l, job'[l])
    BY <1>0, <2>1, <2>4 DEF JobOK, LaneOK, Fresh, Covers
  <2>. QED BY <1>0, <1>4, <2>4, <2>5, TurnInv DEF LaneFilter, tables
<1>5. CASE LaneGuard(l)
  <2>1. job[l].at = "guard" BY <1>5 DEF LaneGuard
  <2>2. CASE Refuse(l, "duplicate") /\ \E x \in job[l].taken : TextOf[x] \in Curated
    <3>1. job[l].overtaken BY <1>0, <2>1, <2>2 DEF LaneOK, Fresh
    <3>. QED BY <1>0, <2>2, <3>1, RefuseInv
  <2>3. CASE Goto(l, "store") /\ UNCHANGED <<tables, faults>>
    <3>1. /\ Turn(l) /\ job'[l].at = "store" /\ job'[l].taken = job[l].taken
          /\ job'[l].overtaken = job[l].overtaken
      BY <1>0, <2>3 DEF Goto, Turn, JobRecs, Steps
    <3>2. JobOK(l, job'[l]) BY <1>0, <2>1, <3>1 DEF JobOK, LaneOK
    <3>. QED BY <1>0, <2>3, <3>1, <3>2, TurnInv
  <2>. QED BY <1>5, <2>2, <2>3 DEF LaneGuard, tables
<1>6. CASE LaneStore(l)
  <2>. DEFINE kept == job[l].taken
  <2>1. /\ job[l].at = "store" /\ kept \subseteq Usable /\ Distinct(kept) /\ Covers(kept)
        /\ job[l].overtaken \/ Fresh(kept)
    BY <1>0, <1>6 DEF LaneStore, LaneOK
  <2>. HIDE DEF kept
  <2>2. CASE Refuse(l, "duplicate") /\ Collides(kept)
    <3>1. job[l].overtaken BY <2>1, <2>2 DEF Collides, Fresh, Distinct
    <3>. QED BY <1>0, <2>2, <3>1, RefuseInv
  <2>3. CASE /\ Insert(l, kept) /\ annotated' = annotated \cup {TextOf[x] : x \in kept}
             /\ samples' = Drafts /\ released' = Drafts /\ UNCHANGED <<present, reason, faults>>
    <3>1. /\ kept \subseteq Items /\ \A x \in kept : TextOf[x] \in Texts
          /\ reason' \in [Records -> {"none", "rejected", "duplicate"}]
      BY <2>1, <2>3 DEF CurationInv, CurationTypeOK
    <3>. QED BY <1>0, <2>1, <2>3, <3>1, InsertInv
  <2>. QED BY <1>6, <2>2, <2>3 DEF LaneStore, kept
<1>. QED BY <1>1, <1>2, <1>3, <1>4, <1>5, <1>6 DEF Generate

LEMMA ReviewInv ==
    ASSUME CurationInv, NEW v \in Reviewers, Review(v)
    PROVE  CurationInv'
<1>0. /\ job[v] \in JobRecs /\ ReviewerOK(job[v]) /\ v \in Jobs
      /\ v \notin Normalizers \cup Lanes \cup Acceptors \cup Backfills
  BY DEF CurationInv, CurationTypeOK, JobRecs, JobsOK, JobOK
<1>1. CASE ReviewGuard(v)
  <2>1. PICK S \in SUBSET Usable :
          job' = [job EXCEPT ![v] = [Idle EXCEPT !.at = "store", !.taken = S]]
    BY <1>1 DEF ReviewGuard
  <2>2. "store" \in Steps /\ S \in SUBSET (Items \cup Texts) BY DEF Steps
  <2>3. Turn(v) /\ job'[v].at = "store" /\ job'[v].taken = S
    BY <1>0, <2>1, <2>2, StartTurns
  <2>4. JobOK(v, job'[v]) BY <1>0, <2>3 DEF JobOK, ReviewerOK
  <2>. QED BY <1>0, <1>1, <2>3, <2>4, TurnInv DEF ReviewGuard, tables
<1>2. CASE ReviewStore(v)
  <2>. DEFINE kept == job[v].taken
  <2>1. /\ kept \subseteq Usable /\ kept \subseteq Items /\ \A x \in kept : TextOf[x] \in Texts
    BY <1>0 DEF ReviewerOK
  <2>. HIDE DEF kept
  <2>2. CASE Refuse(v, "idle") BY <1>0, <2>2, RefuseInv
  <2>3. CASE /\ Insert(v, kept) /\ annotated' = annotated \cup {TextOf[x] : x \in kept}
             /\ UNCHANGED <<present, reason, samples, released, faults>>
    <3>1. reason' \in [Records -> {"none", "rejected", "duplicate"}]
      BY <2>3 DEF CurationInv, CurationTypeOK
    <3>. QED BY <1>0, <2>1, <2>3, <3>1, InsertInv
  <2>. QED BY <1>2, <2>2, <2>3 DEF ReviewStore, kept
<1>. QED BY <1>1, <1>2 DEF Review

LEMMA AcceptInv ==
    ASSUME CurationInv, NEW a \in Acceptors, Accept(a)
    PROVE  CurationInv'
<1>0. /\ job \in [Jobs -> JobRecs] /\ job[a] \in JobRecs /\ AcceptorOK(job[a]) /\ a \in Jobs
      /\ a \notin Normalizers \cup Lanes \cup Reviewers \cup Backfills
  BY DEF CurationInv, CurationTypeOK, JobRecs, JobsOK, JobOK
<1>1. CASE AcceptLoad(a)
  <2>. DEFINE S == {c \in Candidates : RecordOf[c] \in present}
  <2>1. S \subseteq Candidates /\ S \in SUBSET (Items \cup Texts) /\ "filter" \in Steps BY DEF Steps
  <2>2. job' = [job EXCEPT ![a] = [Idle EXCEPT !.at = "filter", !.taken = S]]
    BY <1>1 DEF AcceptLoad
  <2>. HIDE DEF S
  <2>3. Turn(a) /\ job'[a].at = "filter" /\ job'[a].taken = S
    BY <1>0, <2>1, <2>2, StartTurns
  <2>4. JobOK(a, job'[a]) BY <1>0, <2>1, <2>3 DEF JobOK, AcceptorOK
  <2>. QED BY <1>0, <1>1, <2>3, <2>4, TurnInv DEF AcceptLoad, tables
<1>2. CASE AcceptFilter(a)
  <2>. DEFINE kept == Kept(job[a].taken, Curated)
  <2>1. /\ kept \subseteq Candidates /\ Distinct(kept) /\ \A x \in kept : TextOf[x] \notin Curated
    BY <1>0, KeptOnce DEF AcceptorOK
  <2>2. job' = [job EXCEPT ![a].at = "store", ![a].taken = kept] BY <1>2 DEF AcceptFilter
  <2>. HIDE DEF kept
  <2>3. kept \in SUBSET (Items \cup Texts) BY <2>1
  <2>4. Turn(a) /\ job'[a].at = "store" /\ job'[a].taken = kept
    BY <1>0, <2>2, <2>3 DEF Turn, JobRecs, Steps
  <2>5. JobOK(a, job'[a]) BY <1>0, <2>1, <2>4 DEF JobOK, AcceptorOK, Fresh
  <2>. QED BY <1>0, <1>2, <2>4, <2>5, TurnInv DEF AcceptFilter, tables
<1>3. CASE AcceptStore(a)
  <2>. DEFINE kept == job[a].taken
  <2>1. /\ job[a].at = "store" /\ kept \subseteq Candidates /\ Distinct(kept)
        /\ job[a].overtaken \/ Fresh(kept)
    BY <1>0, <1>3 DEF AcceptStore, AcceptorOK
  <2>. HIDE DEF kept
  <2>2. CASE Refuse(a, "idle") BY <1>0, <2>2, RefuseInv
  <2>3. CASE Refuse(a, "duplicate") /\ Collides(kept)
    <3>1. job[a].overtaken BY <2>1, <2>3 DEF Collides, Fresh, Distinct
    <3>. QED BY <1>0, <2>3, <3>1, RefuseInv
  <2>4. CASE /\ Insert(a, kept) /\ annotated' = annotated \cup {TextOf[x] : x \in kept}
             /\ UNCHANGED <<present, reason, samples, released, faults>>
    <3>1. /\ kept \subseteq Items /\ \A x \in kept : TextOf[x] \in Texts
          /\ reason' \in [Records -> {"none", "rejected", "duplicate"}]
      BY <2>1, <2>4 DEF CurationInv, CurationTypeOK
    <3>. QED BY <1>0, <2>4, <3>1, InsertInv
  <2>. QED BY <1>3, <2>2, <2>3, <2>4 DEF AcceptStore, kept
<1>. QED BY <1>1, <1>2, <1>3 DEF Accept

LEMMA AnnotateInv ==
    ASSUME CurationInv, NEW b \in Backfills, Annotate(b)
    PROVE  CurationInv'
<1>0. /\ job \in [Jobs -> JobRecs] /\ job[b] \in JobRecs /\ BackfillOK(job[b]) /\ b \in Jobs
      /\ b \notin Normalizers \cup Lanes \cup Reviewers \cup Acceptors
  BY DEF CurationInv, CurationTypeOK, JobRecs, JobsOK, JobOK
<1>1. CASE BackfillSelect(b)
  <2>1. /\ Curated \ annotated \in SUBSET (Items \cup Texts) /\ "store" \in Steps
        /\ Curated \ annotated \subseteq Texts
    BY DEF Steps, Curated
  <2>2. job' = [job EXCEPT ![b] = [Idle EXCEPT !.at = "store", !.taken = Curated \ annotated]]
    BY <1>1 DEF BackfillSelect
  <2>3. Turn(b) /\ job'[b].at = "store" /\ job'[b].taken = Curated \ annotated
    BY <1>0, <2>1, <2>2, StartTurns
  <2>4. JobOK(b, job'[b]) BY <1>0, <2>1, <2>3 DEF JobOK, BackfillOK
  <2>. QED BY <1>0, <1>1, <2>3, <2>4, TurnInv DEF BackfillSelect, tables
<1>2. CASE BackfillStore(b)
  <2>1. CASE Refuse(b, "idle") BY <1>0, <2>1, RefuseInv
  <2>2. CASE /\ ~job[b].stale /\ annotated' = annotated \cup job[b].taken
             /\ job' = [job EXCEPT ![b] = Idle]
             /\ UNCHANGED <<present, reason, message, samples, released, ever, faults>>
    <3>1. Idle \in JobRecs BY DEF Idle, JobRecs, Steps
    <3>2. job' \in [Jobs -> JobRecs] /\ job'[b] = Idle /\ \A i \in Jobs : i # b => job'[i] = job[i]
      BY <1>0, <2>2, <3>1
    <3>3. JobOK(b, Idle) BY <1>0 DEF JobOK, BackfillOK, Idle
    <3>4. \A i \in Jobs : JobOK(i, job'[i]) BY <3>2, <3>3 DEF CurationInv, JobsOK
    <3>5. JobsOK'
      BY <2>2, <3>4 DEF JobsOK, JobOK, NormalizerOK, LaneOK, ReviewerOK, AcceptorOK, BackfillOK,
         Fresh, Covers, Distinct, Curated
    <3>6. annotated' \subseteq Curated'
      BY <1>0, <2>2 DEF BackfillOK, CurationInv, CurationTypeOK, Curated
    <3>7. CurationTypeOK' BY <2>2, <3>2, <3>6 DEF CurationInv, CurationTypeOK, JobRecs
    <3>. QED BY <2>2, <3>5, <3>7 DEF CurationInv, ReleasedIsCurated, Curated
  <2>. QED BY <1>2, <2>1, <2>2 DEF BackfillStore
<1>. QED BY <1>1, <1>2 DEF Annotate

\* Deletions, resets and deaths: what a job found missing stays missing.
LEMMA FaultInv ==
    ASSUME CurationInv,
           Reset \/ (\E t \in Texts : DeleteMessage(t)) \/ \E j \in Jobs : JobDie(j)
    PROVE  CurationInv'
<1>0. /\ job \in [Jobs -> JobRecs] /\ message \in [Texts -> Items \cup {None}]
      /\ CurationTypeOK /\ Curated \subseteq ever /\ JobsOK
  BY DEF CurationInv, CurationTypeOK, JobRecs
<1>1. CASE Reset
  <2>1. \A j \in Jobs :
          /\ job'[j].at = job[j].at /\ job'[j].taken = job[j].taken /\ job'[j].known = job[j].known
          /\ job'[j].overtaken = job[j].overtaken /\ (job[j].stale => job'[j].stale)
          /\ job'[j] \in JobRecs
    <3>. TAKE j \in Jobs
    <3>. DEFINE stale == job[j].stale \/ job[j].at \notin Resting
    <3>1. job'[j] = [job[j] EXCEPT !.stale = stale] /\ stale \in BOOLEAN BY <1>1 DEF Reset
    <3>2. job[j].stale => stale OBVIOUS
    <3>3. job[j] \in JobRecs BY <1>0
    <3>. HIDE DEF stale
    <3>. QED BY <3>1, <3>2, <3>3 DEF JobRecs
  <2>2. /\ UNCHANGED <<message, annotated, samples, released, ever>>
        /\ job' \in [Jobs -> JobRecs] /\ present' \subseteq Records
        /\ reason' \in [Records -> {"none", "rejected", "duplicate"}]
        /\ faults' \in 0..MaxFaults
    <3>1. job' \in [Jobs -> JobRecs] BY <1>1, <2>1 DEF Reset
    <3>2. faults' \in 0..MaxFaults BY <1>0, <1>1 DEF Reset, CurationTypeOK
    <3>. QED BY <1>1, <3>1, <3>2 DEF Reset
  <2>3. CurationTypeOK' BY <1>0, <2>2 DEF CurationTypeOK, Curated, JobRecs
  <2>4. \A j \in Jobs : JobOK(j, job'[j])
    BY <1>0, <2>1
    DEF JobsOK, JobOK, NormalizerOK, LaneOK, ReviewerOK, AcceptorOK, BackfillOK
  <2>5. JobsOK'
    BY <2>2, <2>4 DEF JobsOK, JobOK, NormalizerOK, LaneOK, ReviewerOK, AcceptorOK, BackfillOK,
       Fresh, Covers, Distinct, Curated
  <2>. QED BY <2>2, <2>3, <2>5 DEF CurationInv, ReleasedIsCurated, Curated
<1>2. ASSUME NEW t \in Texts, DeleteMessage(t) PROVE CurationInv'
  <2>1. \A j \in Jobs :
          /\ job'[j].at = job[j].at /\ job'[j].taken = job[j].taken /\ job'[j].known = job[j].known
          /\ job'[j].overtaken = job[j].overtaken
          /\ job'[j].stale <=> job[j].stale \/ (j \in Backfills /\ t \in job[j].taken)
          /\ job'[j] \in JobRecs
    <3>. TAKE j \in Jobs
    <3>. DEFINE stale == job[j].stale \/ (j \in Backfills /\ t \in job[j].taken)
    <3>1. job'[j] = [job[j] EXCEPT !.stale = stale] /\ stale \in BOOLEAN
      BY <1>2 DEF DeleteMessage
    <3>2. job[j] \in JobRecs BY <1>0
    <3>. HIDE DEF stale
    <3>3. /\ job'[j].at = job[j].at /\ job'[j].taken = job[j].taken
          /\ job'[j].known = job[j].known /\ job'[j].overtaken = job[j].overtaken
          /\ job'[j].stale = stale /\ job'[j] \in JobRecs
      BY <3>1, <3>2 DEF JobRecs
    <3>. QED BY <3>3 DEF stale
  <2>2. /\ UNCHANGED <<present, reason, samples, released, ever>>
        /\ job' \in [Jobs -> JobRecs] /\ message' \in [Texts -> Items \cup {None}]
        /\ Curated' = Curated \ {t} /\ annotated' = annotated /\ t \notin annotated
        /\ faults' \in 0..MaxFaults
    <3>1. job' \in [Jobs -> JobRecs] BY <1>2, <2>1 DEF DeleteMessage
    <3>2. faults' \in 0..MaxFaults BY <1>0, <1>2 DEF DeleteMessage, CurationTypeOK
    <3>3. message' \in [Texts -> Items \cup {None}] /\ Curated' = Curated \ {t}
      BY <1>0, <1>2 DEF DeleteMessage, Curated
    <3>. QED BY <1>2, <3>1, <3>2, <3>3 DEF DeleteMessage
  <2>3. CurationTypeOK' BY <1>0, <2>2 DEF CurationTypeOK, JobRecs
  <2>4. JobsOK'
    <3>1. \A xs : (Covers(xs) => Covers(xs)') /\ (Fresh(xs) => Fresh(xs)')
      BY <2>2 DEF Covers, Fresh
    <3>. QED
      BY <1>0, <2>1, <2>2, <3>1
      DEF JobsOK, JobOK, NormalizerOK, LaneOK, ReviewerOK, AcceptorOK, BackfillOK, Distinct
  <2>. QED BY <1>0, <2>2, <2>3, <2>4 DEF CurationInv, ReleasedIsCurated
<1>3. ASSUME NEW j \in Jobs, JobDie(j) PROVE CurationInv'
  <2>1. Idle \in JobRecs BY DEF Idle, JobRecs, Steps
  <2>2. /\ job' \in [Jobs -> JobRecs] /\ job'[j] = Idle /\ \A i \in Jobs : i # j => job'[i] = job[i]
        /\ UNCHANGED tables /\ faults' \in 0..MaxFaults
    BY <1>0, <1>3, <2>1 DEF JobDie, tables, CurationTypeOK
  <2>3. JobOK(j, Idle)
    BY DEF JobOK, NormalizerOK, LaneOK, ReviewerOK, AcceptorOK, BackfillOK, Idle
  <2>4. \A i \in Jobs : JobOK(i, job'[i]) BY <1>0, <2>2, <2>3 DEF JobsOK
  <2>5. JobsOK'
    BY <2>2, <2>4 DEF JobsOK, JobOK, NormalizerOK, LaneOK, ReviewerOK, AcceptorOK, BackfillOK,
       Fresh, Covers, Distinct, Curated, tables
  <2>6. CurationTypeOK' BY <1>0, <2>2 DEF CurationTypeOK, Curated, JobRecs, tables
  <2>. QED BY <2>2, <2>5, <2>6 DEF CurationInv, ReleasedIsCurated, Curated, tables
<1>. QED BY <1>1, <1>2, <1>3

-----------------------------------------------------------------------------
LEMMA CurationInit == Init => CurationInv
<1>. SUFFICES ASSUME Init PROVE CurationInv OBVIOUS
<1>. USE DEF Init
<1>1. Idle \in JobRecs /\ \A j \in Jobs : job[j] = Idle BY DEF Idle, JobRecs, Steps
<1>2. Curated = {} BY DEF Curated
<1>3. CurationTypeOK BY <1>1, <1>2 DEF CurationTypeOK, JobRecs
<1>4. JobsOK
  BY <1>1 DEF JobsOK, JobOK, NormalizerOK, LaneOK, ReviewerOK, AcceptorOK, BackfillOK, Idle
<1>. QED BY <1>2, <1>3, <1>4 DEF CurationInv, ReleasedIsCurated

LEMMA CurationNext ==
    ASSUME CurationInv, [Next]_vars
    PROVE  CurationInv'
<1>1. ASSUME NEW r \in Records, Arrive(r) PROVE CurationInv'
  <2>1. /\ UNCHANGED <<reason, message, annotated, samples, released, job, ever, faults>>
        /\ present' \subseteq Records
    BY <1>1 DEF Arrive, CurationInv, CurationTypeOK
  <2>. QED
    BY <2>1 DEF CurationInv, CurationTypeOK, ReleasedIsCurated, JobsOK, JobOK, NormalizerOK, LaneOK,
       ReviewerOK, AcceptorOK, BackfillOK, Fresh, Covers, Distinct, Curated
<1>2. CASE UNCHANGED vars
  BY <1>2 DEF vars, CurationInv, CurationTypeOK, ReleasedIsCurated, JobsOK, JobOK, NormalizerOK,
     LaneOK, ReviewerOK, AcceptorOK, BackfillOK, Fresh, Covers, Distinct, Curated
<1>. QED
  BY <1>1, <1>2, NormalizeInv, GenerateInv, ReviewInv, AcceptInv, AnnotateInv, FaultInv DEF Next

\* The inductive invariant, of every set of jobs and however their statements
\* interleave: each knows what it read, and what it is about to insert.
THEOREM Curating == Spec => []CurationInv
BY CurationInit, CurationNext, PTL DEF Spec

\* Types, and the annotations of curated messages only: what is annotated is in
\* the table although messages are deleted while a backfill runs.
THEOREM TypeCorrect == Spec => []CurationTypeOK
<1>1. CurationInv => CurationTypeOK BY DEF CurationInv
<1>. QED BY <1>1, Curating, PTL

\* A run recorded as released has all its usable drafts in the messages.
THEOREM ReleasedWhole == Spec => []ReleasedIsCurated
<1>1. CurationInv => ReleasedIsCurated BY DEF CurationInv
<1>. QED BY <1>1, Curating, PTL

\* Only a batch that committed meanwhile makes another one fail for a duplicate.
THEOREM CollisionsAreRaces == Spec => []OnlyOvertakenCollide
<1>1. CurationInv => OnlyOvertakenCollide
  BY DEF CurationInv, JobsOK, JobOK, OnlyOvertakenCollide
<1>. QED BY <1>1, Curating, PTL
=============================================================================
