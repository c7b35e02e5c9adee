--------------------------- MODULE DetectorRelease ---------------------------
(***************************************************************************)
(* The governed LightGBM detector from feature shards to a verified model  *)
(* bundle (backend/app/ml/lightgbm/data.py, training.py, scoring.py,       *)
(* release.py, evidence.py, tracking.py, detector.py and the commands of   *)
(* scripts/lightgbm_v1.py).  Every command is a process of its own that    *)
(* meets the others only through files: feature shards that an export may  *)
(* write again at any moment, and output directories that are renamed into *)
(* place once.  A digest is the content it was taken of.                   *)
(***************************************************************************)
EXTENDS Naturals, Sequences, FiniteSets, SequencesExt, FiniteSetsExt, TLC

CONSTANTS
    Commands,       \* the processes that run commands
    Slots,          \* [Kinds -> set]: directories an operator may name
    Exported,       \* bound: the shards an export may write again
    Seeds,          \* training seeds
    MaxExports      \* bound: shards written again after the first export

NoArtifact == [kind |-> "none"]
Idle == [kind |-> "idle"]
Folds == {"train", "validation", "test"}
Kinds == {"train", "calibrate", "predict", "bundle"}
Modes == {"balanced", "high_recall"}

(***************************************************************************)
(* Feature shards.  A fold holds one base session, replayed once as the    *)
(* historical control and once with a campaign.                            *)
(***************************************************************************)
Domains == Folds \X {"control", "campaign"}

ASSUME ExportedAssumption == Exported \subseteq Domains

\* Ground truth and clean windows, by the sequence number of a row.
ExpectedLabel(d, sequence) ==
    CASE sequence = 2 /\ d[2] = "campaign" -> "positive"
      [] sequence = 1 -> "negative"
      [] OTHER -> "unlabeled"

\* What an export can leave in a shard, as rows <<sequence, label>>.
RowsOf(d, shape) ==
    CASE shape = "governed" ->
            [s \in 1..3 |-> <<s, ExpectedLabel(d, s)>>]
      [] shape = "disordered" ->
            <<<<2, ExpectedLabel(d, 2)>>, <<1, ExpectedLabel(d, 1)>>>>
      [] shape = "relabeled" ->
            <<<<1, "unlabeled">>, <<2, "positive">>, <<3, "negative">>>>

Shapes == {"governed", "disordered", "relabeled"}

Count(d, c, label) ==
    Cardinality({i \in DOMAIN RowsOf(d, c.shape) :
                    RowsOf(d, c.shape)[i][2] = label})

\* _validate_feature_rows and the quality report it must agree with.
ValidShard(d, c) ==
    LET rows == RowsOf(d, c.shape)
        positive == Count(d, c, "positive")
    IN  /\ \A i \in 1..(Len(rows) - 1) : rows[i][1] < rows[i + 1][1]
        /\ \A i \in DOMAIN rows : rows[i][2] = ExpectedLabel(d, rows[i][1])
        /\ positive + Count(d, c, "negative") > 0
        /\ (positive > 0) <=> (d[2] = "campaign")

\* A fold can be learned from only when both classes occur in it.
BuildableFold(fold, pins) ==
    \A label \in {"positive", "negative"} :
        \E d \in DOMAIN pins : d[1] = fold /\ Count(d, pins[d], label) > 0

DomainsOf(folds) == {d \in Domains : d[1] \in folds}

\* The folds a command opens, and the order in which it reads their shards.
AccessOf(kind) ==
    IF kind = "predict" THEN {"test"} ELSE {"train", "validation"}

ReadsOf(kind) ==
    LET order(fold) == <<<<fold, "campaign">>, <<fold, "control">>>>
    IN  CASE kind = "train" -> order("train") \o order("validation")
          [] kind = "calibrate" -> order("validation")
          [] kind = "predict" -> order("test")

VARIABLES
    shards,     \* [Domains -> [shape, version]], the shards on disk
    release,    \* the feature release manifest on disk
    released,   \* every manifest that was ever at that path
    exports,    \* shards written again so far
    dirs,       \* [Outputs -> artifact], published directories
    proc,       \* [Commands -> what the process is doing]
    report,     \* the benchmark report on disk: [of, text]
    tracked,    \* runs of the tracking server
    verified    \* what verify_complete_lightgbm_v1_release accepted

detVars == <<shards, release, released, exports, dirs, proc, report, tracked,
             verified>>
world == <<shards, release, released, exports, report>>

Outputs == UNION {{kind} \X Slots[kind] : kind \in Kinds}

First(d) == [shape |-> "governed", version |-> 0]
FirstRelease == [config |-> 1, pins |-> [d \in Domains |-> First(d)]]

DetInit ==
    /\ shards = [d \in Domains |-> First(d)]
    /\ release = FirstRelease
    /\ released = {FirstRelease}
    /\ exports = 0
    /\ dirs = [o \in Outputs |-> NoArtifact]
    /\ proc = [w \in Commands |-> Idle]
    /\ report = [of |-> NoArtifact, text |-> "stale"]
    /\ tracked = {}
    /\ verified = {}

\* A feature export replaces one shard; no two exports write the same bytes.
Export(d, shape) ==
    /\ exports < MaxExports
    /\ exports' = exports + 1
    /\ shards' = [shards EXCEPT ![d] =
                    [shape |-> shape, version |-> exports + 1]]
    /\ UNCHANGED <<release, released, dirs, proc, report, tracked, verified>>

\* GovernedFeatureReleaseManifest: a manifest inventories every frozen fold.
EveryFoldListed(listed) == {d[1] : d \in listed} = Folds

\* write_governed_feature_release over the shards now on disk, perhaps one
\* too few, perhaps for another feature configuration.
WriteRelease(listed, config) ==
    /\ EveryFoldListed(listed)
    /\ release' = [config |-> config, pins |-> [d \in listed |-> shards[d]]]
    /\ release' \notin released
    /\ Cardinality(released) < 2
    /\ released' = released \cup {release'}
    /\ UNCHANGED <<shards, exports, dirs, proc, report, tracked, verified>>

(***************************************************************************)
(* load_governed_feature_dataset: the manifest must be the one whose       *)
(* digest the operator was given, list every replay domain of the split,   *)
(* and every shard of the requested folds must be on disk as pinned.       *)
(***************************************************************************)
ReleaseFits(r) == DOMAIN r.pins = Domains

ShardAsPinned(d, r) == shards[d] = r.pins[d] /\ ValidShard(d, shards[d])

Loadable(r, kind) ==
    /\ release = r
    /\ ReleaseFits(r)
    /\ \A d \in DomainsOf(AccessOf(kind)) : ShardAsPinned(d, r)
    /\ \A fold \in AccessOf(kind) : BuildableFold(fold, r.pins)

Restricted(f, S) == [d \in S |-> f[d]]

Extended(f, d, c) ==
    [e \in DOMAIN f \cup {d} |-> IF e = d THEN c ELSE f[e]]

Free(o) == dirs[o].kind = "none"
Work(w, kind, step) == proc[w].kind = kind /\ proc[w].step = step

Begin(w, kind, slot, r, given) ==
    /\ proc[w].kind = "idle"
    /\ Free(<<kind, slot>>)
    /\ Loadable(r, kind)
    /\ proc' = [proc EXCEPT ![w] =
            [kind |-> kind, slot |-> slot, step |-> "verify",
             named |-> Restricted(r.pins, DomainsOf(AccessOf(kind))),
             config |-> r.config, release |-> r, todo |-> ReadsOf(kind),
             read |-> <<>>, given |-> given]]
    /\ UNCHANGED <<world, dirs, tracked, verified>>

\* train: the seed is the only hyperparameter kept.
BeginTraining(w, slot, r, seed) == Begin(w, "train", slot, r, [seed |-> seed])

\* _validate_scoring_request and _require_dataset_binding: the data set must
\* be bound as the model is; the feature release itself is not compared.
BeginCalibration(w, slot, r, t) ==
    /\ dirs[<<"train", t>>].kind = "train"
    /\ dirs[<<"train", t>>].binding.config = r.config
    /\ Begin(w, "calibrate", slot, r, [training |-> dirs[<<"train", t>>]])

BeginPrediction(w, slot, r, t, c, mode) ==
    LET training == dirs[<<"train", t>>]
        calibration == dirs[<<"calibrate", c>>]
    IN  /\ training.kind = "train"
        /\ calibration.kind = "calibrate"
        /\ training.binding.config = r.config
        /\ calibration.binding = training.binding
        /\ Begin(w, "predict", slot, r,
                 [training |-> training, calibration |-> calibration,
                  mode |-> mode])

Fail(w) == proc' = [proc EXCEPT ![w] = Idle]

\* iter_supervised_batches checks a shard's digest before it opens it ...
VerifyShard(w) ==
    /\ proc[w].kind \in {"train", "calibrate", "predict"}
    /\ proc[w].step = "verify"
    /\ LET d == Head(proc[w].todo)
       IN  IF shards[d] = proc[w].named[d]
           THEN proc' = [proc EXCEPT ![w].step = "read"]
           ELSE Fail(w)
    /\ UNCHANGED <<world, dirs, tracked, verified>>

\* ... and then reads what is there by then.
ReadShard(w) ==
    /\ proc[w].kind \in {"train", "calibrate", "predict"}
    /\ proc[w].step = "read"
    /\ LET d == Head(proc[w].todo)
           rest == Tail(proc[w].todo)
       IN  proc' = [proc EXCEPT
                ![w].read = Extended(@, d, shards[d]),
                ![w].todo = rest,
                ![w].step = IF rest = <<>> THEN "stage" ELSE "verify"]
    /\ UNCHANGED <<world, dirs, tracked, verified>>

Supervised(d, c) == Count(d, c, "positive") + Count(d, c, "negative")
Total(read, of(_, _)) ==
    FoldSet(LAMBDA d, n : n + of(d, read[d]), 0, DOMAIN read)

\* _materialize_fold compares the rows read of each class with the inventory;
\* scoring compares only how many rows it read.
Materialized(p) ==
    IF p.kind = "train"
    THEN \A label \in {"positive", "negative"}, fold \in {"train", "validation"} :
            LET counts(f) == Total(Restricted(f, DomainsOf({fold})),
                                   LAMBDA d, c : Count(d, c, label))
            IN  counts(p.read) = counts(p.named)
    ELSE Total(p.read, Supervised) = Total(Restricted(p.named, DOMAIN p.read), Supervised)

(***************************************************************************)
(* What a command writes.  A training run's identifier is a digest of its  *)
(* inputs, seed and model, so a binding is those; a calibration's is a     *)
(* digest of its binding, predictions and operating points.                *)
(***************************************************************************)
ModelOf(p) ==
    [seed |-> p.given.seed, learned |-> Restricted(p.read, DomainsOf({"train"}))]

BindingOf(p) == [config |-> p.config, run |-> <<ModelOf(p), p.release>>]

TrainingOf(p) ==
    [kind |-> "train", model |-> ModelOf(p), binding |-> BindingOf(p),
     named |-> p.named, read |-> p.read]

\* The thresholds stand for what select_operating_points takes from the
\* validation rows the model scored.
CalibrationOf(p) ==
    LET t == p.given.training
        fitted == <<t.model, p.read>>
    IN  [kind |-> "calibrate", binding |-> t.binding, scoredBy |-> t.model,
         points |-> [m \in Modes |-> <<m, fitted>>],
         id |-> <<t.binding, fitted>>]

\* The rows at or above a mode's threshold: a stand-in for the booster.
AlertsOf(mode, read) ==
    UNION {{<<d, i>> : i \in {n \in DOMAIN RowsOf(d, read[d].shape) :
                                \/ RowsOf(d, read[d].shape)[n][2] = "positive"
                                \/ mode = "high_recall"}} :
           d \in DOMAIN read}

PredictionOf(p) ==
    LET t == p.given.training
        c == p.given.calibration
    IN  [kind |-> "predict", binding |-> t.binding, calibration |-> c.id,
         mode |-> p.given.mode, threshold |-> c.points[p.given.mode],
         named |-> p.named, read |-> p.read, scoredBy |-> t.model,
         alerts |-> AlertsOf(p.given.mode, p.read)]

ArtifactOf(p) ==
    CASE p.kind = "train" -> TrainingOf(p)
      [] p.kind = "calibrate" -> CalibrationOf(p)
      [] p.kind = "predict" -> PredictionOf(p)

\* The staged directory is renamed into place unless one appeared meanwhile:
\* the check raises, and a rename onto a directory that holds files fails.
Publish(w) ==
    LET p == proc[w]
        o == <<p.kind, p.slot>>
    IN  /\ p.kind \in {"train", "calibrate", "predict"}
        /\ p.step = "stage"
        /\ Fail(w)
        /\ dirs' = IF Free(o) /\ Materialized(p)
                   THEN [dirs EXCEPT ![o] = ArtifactOf(p)]
                   ELSE dirs
        /\ UNCHANGED <<world, tracked, verified>>

(***************************************************************************)
(* build_model_bundle: the operator names every input by its path, so the  *)
(* manifests and the evidence may come from different runs.  The bundle is *)
(* published first and verified after.                                     *)
(***************************************************************************)
\* validate_prediction_parquet: decisions follow from the frozen threshold.
RowsFit(p) == p.alerts = AlertsOf(p.mode, p.read)

\* validate_release_evidence: metrics and importances by their calibration and
\* training run, contribution rows by the alert rows they explain.
MetricsFit(t, c, metrics) == metrics.id = c.id /\ metrics.binding = t.binding
ContributionsFit(p, contributions) == contributions.alerts = p.alerts

EvidenceFits(t, c, p, metrics, contributions) ==
    RowsFit(p) /\ MetricsFit(t, c, metrics) /\ ContributionsFit(p, contributions)

BeginBundle(w, slot, t, c, p, m, k) ==
    LET training == dirs[<<"train", t>>]
        calibration == dirs[<<"calibrate", c>>]
        prediction == dirs[<<"predict", p>>]
        metrics == dirs[<<"calibrate", m>>]
        contributions == dirs[<<"predict", k>>]
    IN  /\ proc[w].kind = "idle"
        /\ Free(<<"bundle", slot>>)
        /\ training.kind = "train"
        /\ {calibration.kind, metrics.kind} = {"calibrate"}
        /\ {prediction.kind, contributions.kind} = {"predict"}
        /\ EvidenceFits(training, calibration, prediction, metrics,
                        contributions)
        /\ proc' = [proc EXCEPT ![w] =
                [kind |-> "bundle", slot |-> slot, step |-> "publish",
                 artifact |->
                    [kind |-> "bundle", binding |-> training.binding,
                     model |-> training.model, calibration |-> calibration.id,
                     manifests |-> <<training, calibration, prediction>>,
                     evidence |-> <<metrics, contributions>>]]]
        /\ UNCHANGED <<world, dirs, tracked, verified>>

PublishBundle(w) ==
    LET o == <<"bundle", proc[w].slot>>
    IN  /\ Work(w, "bundle", "publish")
        /\ IF Free(o)
           THEN /\ dirs' = [dirs EXCEPT ![o] = proc[w].artifact]
                /\ proc' = [proc EXCEPT ![w].step = "check"]
           ELSE Fail(w) /\ UNCHANGED dirs
        /\ UNCHANGED <<world, tracked, verified>>

\* validate_phase_zero_compatibility.
Compatible(t, c, p, b) ==
    /\ {c.binding, b.binding, p.binding} = {t.binding}
    /\ c.id = b.calibration
    /\ c.id = p.calibration
    /\ p.threshold = c.points[p.mode]
    /\ b.model = t.model
    /\ b.manifests = <<t, c, p>>

\* verify_phase_zero_release: every referenced artifact is still what the
\* manifests say, the feature shards of all three folds included.
ArtifactsIntact(t, p) ==
    /\ \A d \in DOMAIN t.named : shards[d] = t.named[d]
    /\ \A d \in DOMAIN p.named : shards[d] = p.named[d]

\* verify_complete_lightgbm_v1_release.
Verifies(t, c, p, b) ==
    /\ Compatible(t, c, p, b)
    /\ ArtifactsIntact(t, p)
    /\ EvidenceFits(t, c, p, b.evidence[1], b.evidence[2])

Accepted(t, c, p, b) ==
    [training |-> t, calibration |-> c, prediction |-> p, bundle |-> b]

\* The builder verifies what it published and removes it when that fails.
VerifyBundle(w) ==
    LET b == proc[w].artifact
        t == b.manifests[1]
        c == b.manifests[2]
        p == b.manifests[3]
    IN  /\ Work(w, "bundle", "check")
        /\ Fail(w)
        /\ IF Verifies(t, c, p, b)
           THEN /\ verified' = verified \cup {Accepted(t, c, p, b)}
                /\ UNCHANGED dirs
           ELSE /\ dirs' = [dirs EXCEPT ![<<"bundle", proc[w].slot>>] =
                                NoArtifact]
                /\ UNCHANGED verified
        /\ UNCHANGED <<world, tracked>>

\* The verify command takes every manifest from its path.
VerifyRelease(w, slot, t, c, p) ==
    LET b == dirs[<<"bundle", slot>>]
        training == dirs[<<"train", t>>]
        calibration == dirs[<<"calibrate", c>>]
        prediction == dirs[<<"predict", p>>]
    IN  /\ proc[w].kind = "idle"
        /\ b.kind = "bundle"
        /\ training.kind = "train"
        /\ calibration.kind = "calibrate"
        /\ prediction.kind = "predict"
        /\ Verifies(training, calibration, prediction, b)
        /\ verified' = verified \cup
                {Accepted(training, calibration, prediction, b)}
        /\ UNCHANGED <<world, dirs, proc, tracked>>

\* LightGbmV1Detector verifies the release it is given and serves only the
\* mode that the release evaluated.
ServeDetector(w, slot, t, c, p, mode) ==
    /\ VerifyRelease(w, slot, t, c, p)
    /\ mode = dirs[<<"predict", p>>].mode

(***************************************************************************)
(* log_governed_evaluation_run: the release is verified again, the report  *)
(* is read once and compared with a recomputation, and everything logged   *)
(* comes from that snapshot.                                               *)
(***************************************************************************)
\* The report another evaluation of the same predictions may put in place.
WriteReport(p, text) ==
    /\ verified # {}
    /\ dirs[<<"predict", p>>].kind = "predict"
    /\ report' = [of |-> dirs[<<"predict", p>>], text |-> text]
    /\ report' # report
    /\ UNCHANGED <<shards, release, released, exports, dirs, proc, tracked,
                   verified>>

BeginTracking(w, a) ==
    /\ proc[w].kind = "idle"
    /\ a \in verified
    /\ Verifies(a.training, a.calibration, a.prediction, a.bundle)
    /\ report.of = a.prediction
    /\ report.text = "verified"
    /\ proc' = [proc EXCEPT ![w] =
            [kind |-> "track", step |-> "tags", accepted |-> a,
             snapshot |-> report]]
    /\ UNCHANGED <<world, dirs, tracked, verified>>

\* start_run: the run exists from its first tag on, whatever follows.
StartRun(w) ==
    /\ Work(w, "track", "tags")
    /\ proc' = [proc EXCEPT ![w].step = "upload"]
    /\ tracked' = tracked \cup
            {[kind |-> "evaluation", by |-> w, of |-> proc[w].accepted,
              metrics |-> proc[w].snapshot, status |-> "RUNNING",
              uploaded |-> NoArtifact]}
    /\ UNCHANGED <<world, dirs, verified>>

\* An upload that opens the report's file again.
UploadCurrent(w) == report

UploadSource(w) == proc[w].snapshot

FinishRun(w) ==
    /\ Work(w, "track", "upload")
    /\ Fail(w)
    /\ \E run \in tracked :
        /\ run.kind = "evaluation"
        /\ run.by = w
        /\ run.status = "RUNNING"
        /\ run.of = proc[w].accepted
        /\ tracked' = (tracked \ {run}) \cup
                {[run EXCEPT !.status = "FINISHED",
                             !.uploaded = UploadSource(w)]}
    /\ UNCHANGED <<world, dirs, verified>>

\* log_development_run: a calibration and the training run it is bound to.
LogDevelopment(w, t, c) ==
    LET training == dirs[<<"train", t>>]
        calibration == dirs[<<"calibrate", c>>]
    IN  /\ proc[w].kind = "idle"
        /\ training.kind = "train"
        /\ calibration.kind = "calibrate"
        /\ calibration.binding = training.binding
        /\ tracked' = tracked \cup
                {[kind |-> "development", training |-> training,
                  calibration |-> calibration]}
        /\ UNCHANGED <<world, dirs, proc, verified>>

\* A process dies; its staging directory is never looked at again, and what
\* it published stays published.
Crash(w) ==
    /\ proc[w].kind # "idle"
    /\ Fail(w)
    /\ UNCHANGED <<world, dirs, tracked, verified>>

DetNext ==
    \/ \E d \in Exported :
        \/ \E shape \in Shapes : Export(d, shape)
        \/ \E config \in 1..2 :
            WriteRelease(Domains, config) \/ WriteRelease(Domains \ {d}, config)
    \/ \E p \in Slots["predict"], text \in {"verified", "stale"} :
            WriteReport(p, text)
    \/ \E w \in Commands :
        \/ VerifyShard(w) \/ ReadShard(w) \/ Publish(w)
        \/ PublishBundle(w) \/ VerifyBundle(w)
        \/ StartRun(w) \/ FinishRun(w) \/ Crash(w)
        \/ /\ proc[w].kind = "idle"
           /\ \E t \in Slots["train"], c \in Slots["calibrate"],
                 p \in Slots["predict"], b \in Slots["bundle"] :
              \/ \E r \in released, seed \in Seeds :
                    BeginTraining(w, t, r, seed)
              \/ \E r \in released : BeginCalibration(w, c, r, t)
              \/ \E r \in released, mode \in Modes :
                    BeginPrediction(w, p, r, t, c, mode)
              \/ \E m \in Slots["calibrate"], k \in Slots["predict"] :
                    BeginBundle(w, b, t, c, p, m, k)
              \/ VerifyRelease(w, b, t, c, p)
              \/ \E mode \in Modes : ServeDetector(w, b, t, c, p, mode)
              \/ LogDevelopment(w, t, c)
        \/ \E a \in verified : BeginTracking(w, a)

DetSpec == DetInit /\ [][DetNext]_detVars

-----------------------------------------------------------------------------
(***************************************************************************)
(* Properties.                                                             *)
(***************************************************************************)
\* A release that was verified is one lineage: the model learned from the
\* very shards its manifest names although they are checked before they are
\* read and may be written again in between, the model of that training run
\* scored both the validation and the test rows, the test rows are those the
\* prediction manifest names, and training never named a test shard.
VerifiedIsOneLineage ==
    \A a \in verified :
        LET t == a.training
            c == a.calibration
            p == a.prediction
        IN  /\ t.read = t.named
            /\ p.read = p.named
            /\ {c.scoredBy, p.scoredBy} = {t.model}
            /\ p.threshold = c.points[p.mode]
            /\ DOMAIN t.named \cap DOMAIN p.named = {}
            /\ \A d \in DOMAIN p.named : ValidShard(d, p.named[d])

\* A tracking run shows the report that was compared with a recomputation,
\* in its metrics and in its upload alike, however often the report's file is
\* replaced while the run is being logged; a development run shows the
\* calibration of the model it names.
TrackedReportIsVerified ==
    \A run \in tracked :
        IF run.kind = "development"
        THEN run.calibration.scoredBy = run.training.model
        ELSE /\ run.of \in verified
             /\ run.metrics = [of |-> run.of.prediction, text |-> "verified"]
             /\ run.status = "FINISHED" => run.uploaded = run.metrics

(* A verified release is one lineage from training to bundle, and the      *)
(* report a tracked run holds is of a verified release, in whatever order  *)
(* the commands were run and repeated (lightgbm_v1.py).                    *)
ReleaseIsOneLineage == VerifiedIsOneLineage /\ TrackedReportIsVerified
=============================================================================
