-------------------------- MODULE GovernedEvaluation --------------------------
(***************************************************************************)
(* From recorded replays to governed results: the corpus that registers    *)
(* replay bundles (corpus/governance.py, scripts/build_governed_corpus.py),*)
(* the evidence prepared for it (scripts/generate_split_manifest.py,       *)
(* generate_features.py, benchmark_feature_streaming.py) and the           *)
(* evaluation that reads all of it (scripts/evaluate_governed_benchmark.py,*)
(* evaluation/canonical_bundle.py).                                        *)
(*                                                                         *)
(* The commands meet in files.  A corpus is its registry, a function from  *)
(* replays to the content registered for each: equal digests are equal     *)
(* registries.  A replay bundle is written once, into a new directory, and *)
(* never changes; every other file may be replaced at any time, also while *)
(* an evaluation reads.  There is one protocol and one fold, EvaluatedFold.*)
(***************************************************************************)
EXTENDS Integers, FiniteSets

CONSTANTS
    Replays, ControlReplays,       \* the replays of all sessions; the historical controls
    SessionOf,               \* [Replays -> session]
    EvaluatedFold,           \* the sessions of the evaluated fold; all others train
    Exported,                \* bundles on disk: <<replay, content>>
    FlawOf,                  \* [Exported -> what is wrong with the bundle, or "none"]
    NoBenefit,               \* those whose attack never had its realized benefit
    Registries,              \* what the operator may register
    MinReplays,              \* corpus minimums, as a number of replays
    Windows,                 \* adjudicated windows that reviewers may have written
    Reviewers, MinReviewers,
    Builders, MaxPreparations

ASSUME EvaluationAssumption ==
    /\ ControlReplays \subseteq Replays
    /\ \A b \in Exported : FlawOf[b] \in {"none", "manifest", "rows", "report", "events"}
    /\ MinReplays \in Nat /\ MinReviewers \in Nat

VARIABLES
    disk,        \* the corpus bundle: [manifest, validation, adjudications]
    builder,     \* [Builders -> [pc, manifest, validation, adjudications]]
    evidence,    \* [split, regime, streaming, predictions]: what each was made for
    features,    \* governed feature runs
    evaluation,  \* the command under way
    prepared     \* preparations so far

evaluationVars == <<disk, builder, evidence, features, evaluation, prepared>>

NoRegistry == <<>>
SessionsOf(reg) == {SessionOf[r] : r \in DOMAIN reg}
Expected(reg) == SessionsOf(reg) \cap EvaluatedFold
ReplaysOf(reg, sessions) == {r \in DOMAIN reg : SessionOf[r] \in sessions}

(***************************************************************************)
(* Validation of a corpus.                                                 *)
(***************************************************************************)
(* GovernedSession, GovernedCorpusManifest: every session has its control. *)
WellFormed(reg) ==
    /\ DOMAIN reg # {}
    /\ \A s \in SessionsOf(reg) : \E r \in ControlReplays \cap DOMAIN reg : SessionOf[r] = s

(* _coverage against the protocol's minimums.                              *)
CoverageMet(reg) == Cardinality(DOMAIN reg) >= MinReplays

(* _verify_references: without an artifact root everything verifies.       *)
ArtifactsVerify(reg, mode) ==
    mode = "local" => \A r \in DOMAIN reg : <<r, reg[r]>> \in Exported

(* _verify_validation_report_semantics: of the flaws a bundle may have,    *)
(* only a report that is not a pass shows here.                            *)
ReportsVerify(reg, mode) ==
    mode = "local" => \A r \in DOMAIN reg : <<r, reg[r]>> \in Exported => FlawOf[<<r, reg[r]>>] # "report"

(* validate_corpus                                                         *)
ValidateCorpus(reg, mode) ==
    [of |-> reg, mode |-> mode,
     pass |-> CoverageMet(reg) /\ ArtifactsVerify(reg, mode) /\ ReportsVerify(reg, mode)]

(***************************************************************************)
(* Adjudicated windows.  A window is [id, session, source, campaign, votes,*)
(* judge, judgeVote]: source is the control window it was transferred from.*)
(***************************************************************************)
Voted(w) == {v \in Reviewers : w.votes[v] # "absent"}

(* _validate_verified_clean: enough reviewers, all of them for clean, or   *)
(* an adjudicator who is not one of them.                                  *)
VerifiedClean(w) ==
    /\ Cardinality(Voted(w)) >= MinReviewers
    /\ \/ \A v \in Voted(w) : w.votes[v] = "clean"
       \/ w.judgeVote = "clean" /\ w.judge \notin Voted(w)

(* A transferred window repeats a verified control window of its session.  *)
Transferred(w) == w.source # "none"

ValidTransfer(w, windows, reg) ==
    /\ w.campaign \in DOMAIN reg \ ControlReplays /\ SessionOf[w.campaign] = w.session
    /\ \E u \in windows : u.id = w.source /\ ~Transferred(u) /\ u.session = w.session

(* validate_adjudications                                                  *)
ValidAdjudications(windows, reg) ==
    \A w \in windows :
      /\ w.session \in SessionsOf(reg) /\ VerifiedClean(w)
      /\ Transferred(w) => ValidTransfer(w, windows, reg)

(* merge_verified_clean_feature_labels: the negative labels of a replay.   *)
NegativeLabels(windows, r) ==
    {w \in windows : w.session = SessionOf[r] /\ (r \in ControlReplays <=> ~Transferred(w))}

(***************************************************************************)
(* build_governed_corpus: validated, staged, and three files replaced one  *)
(* after another.                                                          *)
(***************************************************************************)
Ended == [pc |-> "ended"]

BuildCorpusBundle(b, reg, mode, windows, allowIncomplete) ==
    LET report == ValidateCorpus(reg, mode)
    IN  /\ builder[b].pc = "idle" /\ WellFormed(reg)
        /\ ValidAdjudications(windows, reg)
        /\ report.pass \/ allowIncomplete
        /\ builder' = [builder EXCEPT ![b] = [pc |-> "manifest", manifest |-> reg,
                                              validation |-> report, adjudications |-> windows]]
        /\ UNCHANGED <<disk, evidence, features, evaluation, prepared>>

(* os.replace of each target, in the order of the targets.                 *)
ReplaceTarget(b) ==
    /\ builder[b].pc \in {"manifest", "validation", "adjudications"}
    /\ disk' = [disk EXCEPT ![builder[b].pc] = builder[b][builder[b].pc]]
    /\ builder' = [builder EXCEPT ![b] = CASE @.pc = "manifest" -> [@ EXCEPT !.pc = "validation"]
                                           [] @.pc = "validation" -> [@ EXCEPT !.pc = "adjudications"]
                                           [] OTHER -> Ended]
    /\ UNCHANGED <<evidence, features, evaluation, prepared>>

BuilderDies(b) ==
    /\ builder[b].pc \in {"manifest", "validation", "adjudications"}
    /\ builder' = [builder EXCEPT ![b] = Ended]
    /\ UNCHANGED <<disk, evidence, features, evaluation, prepared>>

(***************************************************************************)
(* What is prepared for a corpus.  Each command reads the manifest that is *)
(* on disk and writes one file.  What happens to a file after the          *)
(* evaluation has read it is of no interest.                               *)
(***************************************************************************)
ReadOrder == <<"idle", "corpus", "split", "validation", "predictions", "adjudications", "regime", "streaming">>

Before(file) ==
    \E i, j \in DOMAIN ReadOrder : i <= j /\ ReadOrder[i] = evaluation.pc /\ ReadOrder[j] = file

Prepare(kind, made) ==
    /\ prepared < MaxPreparations /\ Before(kind) /\ made # evidence[kind]
    /\ prepared' = prepared + 1
    /\ evidence' = [evidence EXCEPT ![kind] = made]
    /\ UNCHANGED <<disk, builder, features, evaluation>>

GenerateSplit == Prepare("split", [of |-> disk.manifest])

(* The threshold evidence names the sessions it was fitted on.             *)
FitRegimes == \E s \in SessionsOf(disk.manifest) : Prepare("regime", [of |-> disk.manifest, fit |-> {s}])

(* bind_replay_manifest_to_corpus_session: identity and digests.           *)
Bound(r, content, reg) == r \in DOMAIN reg /\ content = reg[r]

(* A bundle opens when its manifest is consistent, what it lists is there, *)
(* alerts, ground truth and snapshots are of this run and as many as       *)
(* listed, and the report is a pass for this run and stream.               *)
ManifestFits(b) == FlawOf[b] # "manifest"
RowsFit(b) == FlawOf[b] # "rows"
ReportFits(b) == FlawOf[b] # "report"

(* _iter_validated_events: the sequence is contiguous and never goes back  *)
(* in time, and its count and chained digest are those of the manifest.    *)
EventsFit(b) == FlawOf[b] # "events"

Opens(r, content) ==
    LET b == <<r, content>>
    IN  b \in Exported /\ ManifestFits(b) /\ RowsFit(b) /\ ReportFits(b) /\ EventsFit(b)

(* benchmark_feature_streaming: two runs of the features over one control  *)
(* replay agree, and the replay is the one of the corpus.                  *)
StreamingEvidence ==
    \E b \in Exported :
      /\ b[1] \in ControlReplays /\ SessionOf[b[1]] \in EvaluatedFold
      /\ Opens(b[1], b[2]) /\ Bound(b[1], b[2], disk.manifest)
      /\ Prepare("streaming", [evidence.streaming EXCEPT ![SessionOf[b[1]]] =
                                 [of |-> disk.manifest, control |-> b[2]]])

(* The predictions of a detector release: bound to a corpus, for the       *)
(* replays it scored, which it knows by name.                              *)
Predict ==
    \E missing \in SUBSET ReplaysOf(disk.manifest, EvaluatedFold) :
      /\ Cardinality(missing) <= 1
      /\ Prepare("predictions", [of |-> disk.manifest,
                                 runs |-> ReplaysOf(disk.manifest, EvaluatedFold) \ missing])

(* generate_features with governed labels: the corpus is validated again,  *)
(* locally, and the adjudications against it.  One run is followed, before *)
(* the evaluation begins.                                                  *)
GenerateFeatures(r, content) ==
    LET reg == disk.manifest
        windows == disk.adjudications
    IN  /\ evaluation.pc = "idle" /\ features = {} /\ Opens(r, content)
        /\ ValidateCorpus(reg, "local").pass
        /\ ValidAdjudications(windows, reg)
        /\ Bound(r, content, reg)
        /\ features' = features \cup {[replay |-> r, windows |-> windows,
                                       negatives |-> NegativeLabels(windows, r)]}
        /\ UNCHANGED <<disk, builder, evidence, evaluation, prepared>>

(***************************************************************************)
(* The evaluation.  Every read is a step; a read that fails its gate ends  *)
(* the command.                                                            *)
(***************************************************************************)
NotStarted == [pc |-> "idle", plan |-> {}, detector |-> FALSE, reg |-> NoRegistry, split |-> NoRegistry,
         windows |-> {}, runs |-> {}, streaming |-> <<>>, units |-> {}]

Pass(next, changes) == evaluation' = [changes EXCEPT !.pc = next]

(* GovernedEvaluationPlan: replay bundles, and a detector release or none. *)
(* The plan file is read here and its replays are first looked at by       *)
(* ReadRegime, which chooses them.                                         *)
StartEvaluation(detector) ==
    /\ evaluation.pc = "idle"
    /\ Pass("corpus", [evaluation EXCEPT !.detector = detector])
    /\ UNCHANGED <<disk, builder, evidence, features, prepared>>

Step(pc, gate, next, changes) ==
    /\ evaluation.pc = pc
    /\ IF gate THEN Pass(next, changes) ELSE Pass("refused", NotStarted)
    /\ UNCHANGED <<disk, builder, evidence, features, prepared>>

ReadCorpus == Step("corpus", TRUE, "split", [evaluation EXCEPT !.reg = disk.manifest])

ReadSplit == Step("split", TRUE, "validation", [evaluation EXCEPT !.split = evidence.split.of])

(* The corpus has a passing local validation, of this very corpus.         *)
ValidationBound ==
    /\ disk.validation.pass /\ disk.validation.mode = "local"
    /\ disk.validation.of = evaluation.reg

ReadValidation ==
    Step("validation", ValidationBound /\ evaluation.split = evaluation.reg,
         IF evaluation.detector THEN "predictions" ELSE "adjudications", evaluation)

(* _load_verified_detector_release, _load_detector_prediction_alerts       *)
ReadPredictions ==
    Step("predictions", evidence.predictions.of = evaluation.reg, "adjudications",
         [evaluation EXCEPT !.runs = evidence.predictions.runs])

ReadAdjudications ==
    Step("adjudications", ValidAdjudications(disk.adjudications, evaluation.reg), "regime",
         [evaluation EXCEPT !.windows = disk.adjudications])

(* The plan has every and only session of the fold; the thresholds were    *)
(* fitted on training sessions of this corpus.                             *)
ReadRegime(plan) ==
    Step("regime",
         /\ {SessionOf[b[1]] : b \in plan} = Expected(evaluation.reg)
         /\ evidence.regime.of = evaluation.reg
         /\ evidence.regime.fit \cap EvaluatedFold = {},
         "streaming", [evaluation EXCEPT !.plan = plan])

ReadStreaming ==
    Step("streaming", \A s \in Expected(evaluation.reg) : evidence.streaming[s].of = evaluation.reg,
         "replays", [evaluation EXCEPT !.streaming = evidence.streaming])

(* The clean windows by which the alerts of a replay are judged.           *)
AllWindows(windows, r) == {w \in windows : w.session = SessionOf[r]}

CleanWindowsOf(windows, r) ==
    {w \in windows : w.session = SessionOf[r] /\ (r \in ControlReplays <=> ~Transferred(w))}

(* One replay of the plan: bound, opened, and for a control the one that   *)
(* the streaming evidence names.                                           *)
ReadReplay ==
    \E b \in evaluation.plan :
      LET r == b[1]
          content == b[2]
      IN  /\ \A u \in evaluation.units : u.replay # r \/ u.content # content
          /\ Step("replays",
                  /\ Bound(r, content, evaluation.reg) /\ Opens(r, content)
                  /\ r \in ControlReplays => evaluation.streaming[SessionOf[r]].control = content
                  /\ \A u \in evaluation.units : u.replay # r,
                  "replays",
                  [evaluation EXCEPT !.units = @ \cup {[replay |-> r, content |-> content,
                                          clean |-> CleanWindowsOf(evaluation.windows, r)]}])

PlannedReplays == {b[1] : b \in evaluation.plan}

(* One control and every registered campaign, for each session.            *)
ExpectedReplays == ReplaysOf(evaluation.reg, Expected(evaluation.reg))

(* The gates after the replays, and the verdict of the release.            *)
Conclude ==
    LET seen == {u.replay : u \in evaluation.units}
    IN  /\ Cardinality(evaluation.units) = Cardinality(evaluation.plan)
        /\ Step("replays",
                /\ seen = ExpectedReplays
                /\ evaluation.detector => evaluation.runs = seen
                /\ \A u \in evaluation.units : <<u.replay, u.content>> \notin NoBenefit,
                IF \E w \in evaluation.windows : w.session \in Expected(evaluation.reg) THEN "passed" ELSE "failed",
                evaluation)

(***************************************************************************)
(* The specification.  At first the directory holds one corpus, validated  *)
(* locally, and the evidence made for it.                                  *)
(***************************************************************************)
EvaluationInit ==
    \E reg \in Registries :
      /\ WellFormed(reg) /\ ValidateCorpus(reg, "local").pass
      /\ disk = [manifest |-> reg, validation |-> ValidateCorpus(reg, "local"), adjudications |-> {}]
      /\ builder = [b \in Builders |-> [pc |-> "idle"]]
      /\ evidence = [split |-> [of |-> reg],
                     regime |-> [of |-> reg, fit |-> SessionsOf(reg) \ EvaluatedFold],
                     streaming |-> [s \in EvaluatedFold |->
                       IF s \in SessionsOf(reg)
                       THEN [of |-> reg, control |-> reg[CHOOSE r \in ControlReplays \cap DOMAIN reg : SessionOf[r] = s]]
                       ELSE [of |-> NoRegistry, control |-> 0]],
                     predictions |-> [of |-> NoRegistry, runs |-> {}]]
      /\ features = {} /\ evaluation = NotStarted /\ prepared = 0

CorpusStep ==
    \E b \in Builders :
      \/ builder[b].pc = "idle" /\ \E reg \in Registries, mode \in {"local", "metadata_only"},
              windows \in {w \in SUBSET Windows : Cardinality(w) <= 2}, a \in BOOLEAN :
           BuildCorpusBundle(b, reg, mode, windows, a)
      \/ ReplaceTarget(b) \/ BuilderDies(b)

EvaluationStep ==
    \/ \E d \in BOOLEAN : StartEvaluation(d)
    \/ ReadCorpus \/ ReadSplit \/ ReadValidation \/ ReadPredictions \/ ReadAdjudications
    \/ evaluation.pc = "regime" /\ \E plan \in SUBSET Exported : ReadRegime(plan)
    \/ ReadStreaming \/ ReadReplay \/ Conclude

EvaluationNext ==
    \/ Before("adjudications") /\ CorpusStep
    \/ GenerateSplit \/ FitRegimes \/ StreamingEvidence \/ Predict
    \/ \E b \in Exported : GenerateFeatures(b[1], b[2])
    \/ EvaluationStep

EvaluationSpec == EvaluationInit /\ [][EvaluationNext]_evaluationVars

(***************************************************************************)
(* Properties.                                                             *)
(***************************************************************************)
(* However the files of the directory were replaced while it read them, an *)
(* evaluation that ends with results is of one corpus whose registered     *)
(* bundles all exist with passing reports: it judged one control and every *)
(* campaign of every session of the fold, each with the registered content *)
(* and without a flaw, and a detector scored exactly these.                *)
ResultsAreOfOneCorpus ==
    evaluation.pc \in {"passed", "failed"} =>
      LET reg == evaluation.reg
      IN  /\ \A r \in DOMAIN reg : <<r, reg[r]>> \in Exported /\ FlawOf[<<r, reg[r]>>] # "report"
          /\ \A u \in evaluation.units : FlawOf[<<u.replay, u.content>>] = "none"
          /\ {<<u.replay, u.content>> : u \in evaluation.units}
               = {<<r, reg[r]>> : r \in ReplaysOf(reg, Expected(reg))}
          /\ evaluation.detector => evaluation.runs = {u.replay : u \in evaluation.units}
          /\ evaluation.split = reg

(* A detector is trained and judged by the same negatives: for a replay    *)
(* whose features and results come from the same corpus and adjudications, *)
(* the negative labels of the features are the clean windows of the        *)
(* evaluation, and every one was agreed on by enough reviewers.            *)
NegativesAgree ==
    /\ \A f \in features, u \in evaluation.units :
         u.replay = f.replay /\ f.windows = evaluation.windows => u.clean = f.negatives
    /\ \A u \in evaluation.units : \A w \in u.clean :
         Cardinality({v \in Reviewers : w.votes[v] # "absent"}) >= MinReviewers
===============================================================================
