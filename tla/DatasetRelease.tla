--------------------------- MODULE DatasetRelease ---------------------------
(***************************************************************************)
(* Curation of the training data and release of a dataset: raw records     *)
(* become normalised messages with a label; annotations say what a label   *)
(* should be; a build freezes the annotated messages as a version, split   *)
(* for training, validation and test; a publication pushes a frozen        *)
(* version to Kaggle and asks GitHub to train on it.  Every step of a      *)
(* publication may fail or die, while curation goes on.                    *)
(*                                                                         *)
(* A message stands for its text (text_sha256 is unique) and is the number *)
(* of its place in the order that the seeded hash of its text gives.       *)
(***************************************************************************)
EXTENDS Integers, Sequences, FiniteSets

CONSTANTS
    N,          \* the messages are 1..N
    Labels,     \* labels a message can be exported with
    Versions,   \* dataset version tags
    MaxPushes,  \* bound: Kaggle versions
    MaxSplit    \* bound: messages of a label whose splits are looked at

ASSUME ReleaseAssumption == N \in Nat /\ MaxPushes \in Nat /\ MaxSplit \in Nat

Messages == 1..N
Splits == {"train", "val", "test"}
None == "none"
ASSUME NoneAssumption == None \notin Labels

VARIABLES
    label,      \* label[m]: data_normalized_message.current_label, None: no row
    annotated,  \* annotated[m]: label of m's latest annotation
    dataset,    \* dataset[v]: [status, items], items[s] the messages of split s
    export,     \* the publication under way: [at, version, content]
    pushed,     \* the Kaggle dataset: what each version was made of
    released,   \* released[v]: data_dataset.kaggle_version_id, 0: none
    trainings   \* what GitHub was asked to train on

release == <<label, annotated, dataset, export, pushed, released, trainings>>

NoItems == [s \in Splits |-> {}]
Contents == UNION {[ms -> Labels] : ms \in SUBSET Messages}
NoExport == [at |-> "idle", version |-> None, content |-> <<>>]
ItemsOf(v) == UNION {dataset[v].items[s] : s \in Splits}
Pushes == [version : Versions, content : Contents]

ReleaseTypeOK ==
    /\ label \in [Messages -> Labels \cup {None}]
    /\ annotated \in [Messages -> Labels \cup {None}]
    /\ dataset \in [Versions -> [status : {"absent", "draft", "frozen"},
                                 items : [Splits -> SUBSET Messages]]]
    /\ export \in [at : {"idle", "push", "record", "dispatch"},
                   version : Versions \cup {None}, content : Contents \cup {<<>>}]
    /\ pushed \in Seq(Pushes)
    /\ released \in [Versions -> Nat]
    /\ trainings \subseteq Pushes

ReleaseInit ==
    /\ label = [m \in Messages |-> None]
    /\ annotated = [m \in Messages |-> None]
    /\ dataset = [v \in Versions |-> [status |-> "absent", items |-> NoItems]]
    /\ export = NoExport
    /\ pushed = <<>>
    /\ released = [v \in Versions |-> 0]
    /\ trainings = {}

-----------------------------------------------------------------------------
\* Normalisation of the raw record: the first record with the text wins.
Normalize(m, l) ==
    /\ label[m] = None
    /\ label' = [label EXCEPT ![m] = l]
    /\ UNCHANGED <<annotated, dataset, export, pushed, released, trainings>>

\* PATCH /messages: the label, whatever datasets the message is in.
Relabel(m, l) ==
    /\ label[m] # None /\ l # label[m]
    /\ label' = [label EXCEPT ![m] = l]
    /\ UNCHANGED <<annotated, dataset, export, pushed, released, trainings>>

\* DELETE /messages: an annotation or a dataset that has the message refuses
\* (a key that may not be null).
DeleteMessage(m) ==
    /\ label[m] # None /\ annotated[m] = None /\ \A v \in Versions : m \notin ItemsOf(v)
    /\ label' = [label EXCEPT ![m] = None]
    /\ UNCHANGED <<annotated, dataset, export, pushed, released, trainings>>

\* POST /annotations: the label of the message stays as it is.
Annotate(m, l) ==
    /\ label[m] # None
    /\ annotated' = [annotated EXCEPT ![m] = l]
    /\ UNCHANGED <<label, dataset, export, pushed, released, trainings>>

\* backfill_missing_annotations: the current label, where there is none.
Backfill ==
    /\ \E m \in Messages : label[m] # None /\ annotated[m] = None
    /\ annotated' = [m \in Messages |-> IF annotated[m] = None THEN label[m] ELSE annotated[m]]
    /\ UNCHANGED <<label, dataset, export, pushed, released, trainings>>

\* Mutant: the remainder is not distributed.
SplitCountsFloor(n) ==
    [s \in Splits |-> IF s = "train" THEN (8 * n) \div 10 ELSE n \div 10]

\* _compute_split_counts for 80/10/10: rounded down, and the remainder one each
\* to the largest fractions, those that are equal in the order of their names.
SplitCounts(n) ==
    LET tenths == [s \in Splits |-> IF s = "train" THEN 8 * n ELSE n]
        floor(s) == tenths[s] \div 10
        rest == n - floor("train") - floor("val") - floor("test")
        name == [test |-> 1, train |-> 2, val |-> 3]
        before(s) == {t \in Splits :
                        \/ tenths[t] % 10 > tenths[s] % 10
                        \/ tenths[t] % 10 = tenths[s] % 10 /\ name[t] < name[s]}
    IN [s \in Splits |-> floor(s) + IF Cardinality(before(s)) < rest THEN 1 ELSE 0]

\* The k-th to the l-th message of a label, in the order of the hash.
Stretch(ms, k, l) == {m \in ms : Cardinality({q \in ms : q <= m}) \in k..l}

\* The messages of one label: train first, then val, the rest is test.
Parted(ms) ==
    LET counts == SplitCounts(Cardinality(ms))
        val == counts["train"] + counts["val"]
    IN [s \in Splits |->
          CASE s = "train" -> Stretch(ms, 1, counts["train"])
            [] s = "val" -> Stretch(ms, counts["train"] + 1, val)
            [] OTHER -> Stretch(ms, val + 1, Cardinality(ms))]

\* DatasetQueries.build: the messages by the label of their latest annotation,
\* each label split for itself.
Built ==
    LET of(l) == {m \in Messages : label[m] # None /\ annotated[m] = l}
    IN [s \in Splits |-> UNION {Parted(of(l))[s] : l \in Labels}]

\* A version tag is built once; nothing eligible is an error.
BuildDataset(v, status) ==
    /\ dataset[v].status = "absent" /\ Built # NoItems
    /\ dataset' = [dataset EXCEPT ![v] = [status |-> status, items |-> Built]]
    /\ UNCHANGED <<label, annotated, export, pushed, released, trainings>>

\* POST /datasets: a row of any status, without items.
CreateDataset(v, status) ==
    /\ dataset[v].status = "absent"
    /\ dataset' = [dataset EXCEPT ![v] = [status |-> status, items |-> NoItems]]
    /\ UNCHANGED <<label, annotated, export, pushed, released, trainings>>

\* The files of a frozen dataset, with the labels the messages have by now.
Publish(v) ==
    /\ export = NoExport /\ dataset[v].status = "frozen"
    /\ export' = [at |-> "push", version |-> v, content |-> [m \in ItemsOf(v) |-> label[m]]]
    /\ UNCHANGED <<label, annotated, dataset, pushed, released, trainings>>

\* kaggle datasets version: an error ends the publication, also one that comes
\* after Kaggle made the version.
PublishPush ==
    /\ export.at = "push" /\ Len(pushed) < MaxPushes
    /\ \/ /\ pushed' = Append(pushed, [version |-> export.version, content |-> export.content])
          /\ export' = [export EXCEPT !.at = "record"] \/ export' = NoExport
       \/ UNCHANGED pushed /\ export' = NoExport
    /\ UNCHANGED <<label, annotated, dataset, released, trainings>>

\* The result is written to the row, best effort.
PublishRecord ==
    /\ export.at = "record"
    /\ \/ released' = [released EXCEPT ![export.version] = Len(pushed)]
       \/ UNCHANGED released
    /\ export' = [export EXCEPT !.at = "dispatch"]
    /\ UNCHANGED <<label, annotated, dataset, pushed, trainings>>

\* Mutant: the digest is computed from the database again.
PublishDispatchAgain ==
    /\ export.at = "dispatch"
    /\ trainings' = trainings \cup
         {[version |-> export.version, content |-> [m \in ItemsOf(export.version) |-> label[m]]]}
    /\ export' = NoExport
    /\ UNCHANGED <<label, annotated, dataset, pushed, released>>

\* workflow_dispatch names the version and the digest of what was pushed.
PublishDispatch ==
    /\ export.at = "dispatch"
    /\ \/ trainings' = trainings \cup {[version |-> export.version, content |-> export.content]}
       \/ UNCHANGED trainings
    /\ export' = NoExport
    /\ UNCHANGED <<label, annotated, dataset, pushed, released>>

PublishCrash ==
    /\ export # NoExport
    /\ export' = NoExport
    /\ UNCHANGED <<label, annotated, dataset, pushed, released, trainings>>

ReleaseNext ==
    \/ \E m \in Messages, l \in Labels : Normalize(m, l) \/ Relabel(m, l) \/ Annotate(m, l)
    \/ \E m \in Messages : DeleteMessage(m)
    \/ \E v \in Versions, status \in {"draft", "frozen"} :
         BuildDataset(v, status) \/ CreateDataset(v, status)
    \/ \E v \in Versions : Publish(v)
    \/ Backfill \/ PublishPush \/ PublishRecord \/ PublishDispatch \/ PublishCrash

-----------------------------------------------------------------------------
\* Whatever a training was asked for is a Kaggle version of a frozen dataset,
\* to the label, although messages are relabelled while it is published and
\* the database may not have heard of the push.
TrainingIsTraceable ==
    \A t \in trainings :
        /\ dataset[t.version].status = "frozen"
        /\ DOMAIN t.content = ItemsOf(t.version)
        /\ \E k \in DOMAIN pushed : pushed[k] = t

\* Whichever messages of the first MaxSplit have a label, each is placed, in one
\* split only, and each split has its share of them, rounded up or down.
PartedFairly ==
    \A ms \in SUBSET (1..MaxSplit) :
        LET part == Parted(ms) IN
          /\ ms = part["train"] \cup part["val"] \cup part["test"]
          /\ \A s, t \in Splits : s # t => part[s] \cap part[t] = {}
          /\ \A s \in Splits :
               LET share == IF s = "train" THEN 8 * Cardinality(ms) ELSE Cardinality(ms) IN
                 10 * Cardinality(part[s]) - share \in -9..9

\* No message is in two splits of a dataset, so that nothing that was trained
\* on is also tested on, and the splits are fair to every label.
SplitsAreDisjoint ==
    \A v \in Versions : \A s, t \in Splits :
        s # t => dataset[v].items[s] \cap dataset[v].items[t] = {}
SplitsAreFair == PartedFairly /\ SplitsAreDisjoint
=============================================================================
