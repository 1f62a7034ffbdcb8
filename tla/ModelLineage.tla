---------------------------- MODULE ModelLineage ----------------------------
(***************************************************************************)
(* The lineage of the models, which the training service reports by        *)
(* callbacks: evaluation sets and their approval, candidates trained on a  *)
(* dataset, their evaluations, and the outcome of the deployments.  A      *)
(* callback that repeats an earlier one changes nothing, and one that      *)
(* contradicts it is refused: neither is a step here.                      *)
(***************************************************************************)
EXTENDS DatasetRelease

CONSTANTS
    Sets,         \* version tags of evaluation sets
    Checksums,    \* contents an evaluation set may have
    Models,       \* MLflow runs of candidates
    Evaluations,  \* MLflow runs of evaluations
    Deployments,  \* GitHub runs of the promotion workflow
    Overlap       \* bound: evaluation and deployment callbacks handled at once

ASSUME LineageAssumption ==
    Overlap \in Nat /\ \A S \in {Sets, Checksums, Models, Evaluations, Deployments} : None \notin S

VARIABLES
    set,         \* set[e]: [status, checksum] of data_evaluation_set
    model,       \* model[m]: stage in ml_model_version, None: no row
    trainedOn,   \* trainedOn[m]: training_dataset_id
    evaluation,  \* evaluation[x]: [model, set, checksum, outcome]
    deployment,  \* deployment[g]: [model, evaluation, status]
    decisions,   \* evaluation callbacks that have read, and not committed yet
    calls        \* deployment callbacks, likewise

lineage == <<set, model, trainedOn, evaluation, deployment, decisions, calls>>

Stages == {None, "candidate", "rejected", "production", "retired"}
Outcomes == {"passed", "failed", "inconclusive"}
Statuses == {"active", "failed", "rolled_back"}
NoSet == [status |-> None, checksum |-> None]
NoEvaluation == [model |-> None, set |-> None, checksum |-> None, outcome |-> None]
NoDeployment == [model |-> None, evaluation |-> None, status |-> None]
Decisions == [run : Evaluations, model : Models, set : Sets, checksum : Checksums,
              outcome : Outcomes, stage : Stages]
Calls == [run : Deployments, model : Models, evaluation : Evaluations,
          status : Statuses, stage : Stages, previous : Models \cup {None}]

LineageTypeOK ==
    /\ set \in [Sets -> [status : {None, "draft", "approved"}, checksum : Checksums \cup {None}]]
    /\ model \in [Models -> Stages]
    /\ trainedOn \in [Models -> Versions \cup {None}]
    /\ evaluation \in [Evaluations ->
         [model : Models \cup {None}, set : Sets \cup {None},
          checksum : Checksums \cup {None}, outcome : Outcomes \cup {None}]]
    /\ deployment \in [Deployments ->
         [model : Models \cup {None}, evaluation : Evaluations \cup {None},
          status : Statuses \cup {"retired", None}]]
    /\ decisions \subseteq Decisions /\ calls \subseteq Calls

LineageInit ==
    /\ ReleaseInit
    /\ set = [e \in Sets |-> NoSet]
    /\ model = [m \in Models |-> None]
    /\ trainedOn = [m \in Models |-> None]
    /\ evaluation = [x \in Evaluations |-> NoEvaluation]
    /\ deployment = [g \in Deployments |-> NoDeployment]
    /\ decisions = {} /\ calls = {}

-----------------------------------------------------------------------------
\* A manifest is registered once; later its content is fixed and only its
\* approval may come.
RegisterSet(e, checksum, status) ==
    /\ \/ set[e] = NoSet
       \/ set[e].checksum = checksum /\ status = "approved"
    /\ set' = [set EXCEPT ![e] = [status |-> status, checksum |-> checksum]]
    /\ UNCHANGED <<model, trainedOn, evaluation, deployment, decisions, calls>>

\* The dataset must be known; the code does not ask whether it is frozen.
RegisterCandidate(m, v) ==
    /\ model[m] = None /\ dataset[v].status # "absent"
    /\ model' = [model EXCEPT ![m] = "candidate"]
    /\ trainedOn' = [trainedOn EXCEPT ![m] = v]
    /\ UNCHANGED <<set, evaluation, deployment, decisions, calls>>

\* _apply_evaluation_stage: what is or was in production is not touched.
StageAfter(stage, outcome) ==
    IF stage \notin {"candidate", "rejected"} THEN stage
    ELSE CASE outcome = "failed" -> "rejected"
           [] outcome = "passed" -> "candidate"
           [] OTHER -> stage

\* A column is sent only if it differs from what the callback had read of it.
Written(now, read, stage) == IF stage = read THEN now ELSE stage

UnderWay == Cardinality(decisions) + Cardinality(calls)

\* Mutant: the set need not be approved.
EvaluateReadOfDraft(x, m, e, checksum, outcome) ==
    /\ UnderWay < Overlap
    /\ evaluation[x] = NoEvaluation /\ model[m] # None
    /\ set[e] # NoSet /\ set[e].checksum = checksum
    /\ decisions' = decisions \cup
         {[run |-> x, model |-> m, set |-> e, checksum |-> checksum,
           outcome |-> outcome, stage |-> model[m]]}
    /\ UNCHANGED <<set, model, trainedOn, evaluation, deployment, calls>>

\* An evaluation callback reads: the candidate with its stage, the set, which
\* must be approved with that content, and that the run is new.
EvaluateRead(x, m, e, checksum, outcome) ==
    /\ UnderWay < Overlap
    /\ evaluation[x] = NoEvaluation /\ model[m] # None
    /\ set[e].status = "approved" /\ set[e].checksum = checksum
    /\ decisions' = decisions \cup
         {[run |-> x, model |-> m, set |-> e, checksum |-> checksum,
           outcome |-> outcome, stage |-> model[m]]}
    /\ UNCHANGED <<set, model, trainedOn, evaluation, deployment, calls>>

\* One transaction: the evaluation, whose run must still be new, and the stage
\* that the outcome makes of the one read, even over one written since.
EvaluateCommit(d) ==
    /\ evaluation[d.run] = NoEvaluation
    /\ evaluation' = [evaluation EXCEPT ![d.run] =
         [model |-> d.model, set |-> d.set, checksum |-> d.checksum, outcome |-> d.outcome]]
    /\ model' = [model EXCEPT ![d.model] = Written(@, d.stage, StageAfter(d.stage, d.outcome))]
    /\ decisions' = decisions \ {d}
    /\ UNCHANGED <<set, trainedOn, deployment, calls>>

\* The transaction fails, or the process dies.
EvaluateAbort(d) ==
    /\ decisions' = decisions \ {d}
    /\ UNCHANGED <<set, model, trainedOn, evaluation, deployment, calls>>

\* A deployment callback reads: the lineage, the evaluation's outcome if it is
\* to be active, that the run is new, the model's stage, and some other model
\* in production.
DeployRead(g, m, x, status) ==
    LET incumbents == {q \in Models \ {m} : model[q] = "production"} IN
    /\ UnderWay < Overlap
    /\ deployment[g] = NoDeployment
    /\ model[m] # None /\ evaluation[x].model = m
    /\ status = "active" => evaluation[x].outcome = "passed"
    /\ \E q \in IF incumbents = {} THEN {None} ELSE incumbents :
         calls' = calls \cup {[run |-> g, model |-> m, evaluation |-> x,
                               status |-> status, stage |-> model[m], previous |-> q]}
    /\ UNCHANGED <<set, model, trainedOn, evaluation, deployment, decisions>>

Record(c) == [model |-> c.model, evaluation |-> c.evaluation, status |-> c.status]

\* One transaction: the record, whose run must still be new; and if it is
\* active, the model is in production (nothing is sent if it was read so), and
\* the incumbent and its active deployments are retired.
DeployCommit(c) ==
    /\ deployment[c.run] = NoDeployment
    /\ IF c.status = "active"
         THEN /\ deployment' = [g \in Deployments |->
                   IF g = c.run THEN Record(c)
                   ELSE IF deployment[g].model = c.previous /\ deployment[g].status = "active"
                     THEN [deployment[g] EXCEPT !.status = "retired"]
                   ELSE deployment[g]]
              /\ model' = [m \in Models |->
                   IF m = c.model THEN Written(model[m], c.stage, "production")
                   ELSE IF m = c.previous THEN "retired" ELSE model[m]]
         ELSE /\ deployment' = [deployment EXCEPT ![c.run] = Record(c)]
              /\ UNCHANGED model
    /\ calls' = calls \ {c}
    /\ UNCHANGED <<set, trainedOn, evaluation, decisions>>

\* The transaction fails, or the process dies.
DeployAbort(c) ==
    /\ calls' = calls \ {c}
    /\ UNCHANGED <<set, model, trainedOn, evaluation, deployment, decisions>>

LineageNext ==
    \/ \E e \in Sets, checksum \in Checksums, status \in {"draft", "approved"} :
         RegisterSet(e, checksum, status)
    \/ \E m \in Models, v \in Versions : RegisterCandidate(m, v)
    \/ \E x \in Evaluations, m \in Models, e \in Sets, checksum \in Checksums,
          outcome \in Outcomes : EvaluateRead(x, m, e, checksum, outcome)
    \/ \E d \in decisions : EvaluateCommit(d) \/ EvaluateAbort(d)
    \/ \E g \in Deployments, m \in Models, x \in Evaluations, status \in Statuses :
         DeployRead(g, m, x, status)
    \/ \E c \in calls : DeployCommit(c) \/ DeployAbort(c)

Next ==
    \/ ReleaseNext /\ UNCHANGED lineage
    \/ LineageNext /\ UNCHANGED release

Spec == LineageInit /\ [][Next]_<<release, lineage>>

-----------------------------------------------------------------------------
\* A model in production was deployed on the strength of an evaluation of its
\* own that it passed, on a set that people approved, with the content that
\* they approved; and it was trained on a known dataset.  Whatever is reported
\* in which order, and although later evaluations may have failed.
ProductionIsEvaluated ==
    \A m \in Models : model[m] = "production" =>
        /\ dataset[trainedOn[m]].status # "absent"
        /\ \E g \in Deployments :
             LET x == deployment[g].evaluation IN
               /\ deployment[g].model = m /\ deployment[g].status = "active"
               /\ evaluation[x].model = m /\ evaluation[x].outcome = "passed"
               /\ set[evaluation[x].set] =
                    [status |-> "approved", checksum |-> evaluation[x].checksum]
=============================================================================
