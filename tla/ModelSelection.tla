-------------------------- MODULE ModelSelection --------------------------
(***************************************************************************)
(* How one candidate comes to be evaluated on the test fold: the repeats   *)
(* of the baseline (G5, backend/app/ml/lightgbm/reproducibility.py), the   *)
(* planned campaign of search and confirmation trials (G6, g6_campaign.py),*)
(* the frozen candidate and its authorization (G7, g7_candidate.py), and   *)
(* what the final evaluation demands of both (G8, g8_evaluation.py,        *)
(* g8_replacement.py, cloud_runner.py).                                    *)
(*                                                                         *)
(* A trial is its run id, and its result prefix is written once, so a      *)
(* result's candidate hash is its trial.  The lexicographic keys of the    *)
(* two selections are one number each, smaller being better; experiment    *)
(* hashes are the numbers of the search trials.  Operators pass whatever   *)
(* directory they like to every command.                                   *)
(***************************************************************************)
EXTENDS Naturals, FiniteSets

CONSTANTS
    Repeats,      \* G5 repeats of the baseline (three in the code)
    Search,       \* search trials, numbers from 1; 0 is the baseline
    SeedTrials,   \* confirmation trials with another seed
    Keys,         \* values of a selection key
    Tolerance,    \* largest range over the seeds
    MaxErrors     \* bound on drifting runs and wrongly staged experiments

ASSUME ModelSelectionAssumption ==
    /\ Repeats # {}
    /\ Search \subseteq Nat \ {0} /\ Keys \subseteq Nat /\ Tolerance \in Nat

Methods == {"isotonic", "platt", "raw"}
Absent == [kind |-> "none"]

SearchTrials == {<<"search", n>> : n \in Search}
Seeded == {<<"seed", s>> : s \in SeedTrials}
Calibrations == {<<"calibration", m>> : m \in Methods}
Trials == SearchTrials \cup Seeded \cup Calibrations

Experiments == [base : Search \cup {0}, method : Methods]

(* The three calibration trials override the method of the selected        *)
(* experiment, the seed trials keep it.                                    *)
SearchExperiment(n) == [base |-> n, method |-> "platt"]

VARIABLES
    repeat,      \* [Repeats -> result]
    g5,          \* the formal comparison of the repeats
    result,      \* [Trials -> result]
    selection,   \* the written confirmation plan
    report,      \* the campaign comparison
    freeze, authorization, preflight,
    evaluated,   \* candidates scored on the test fold
    errors

selVars == <<repeat, g5, result, selection, report, freeze, authorization, preflight,
             evaluated, errors>>

SelInit ==
    /\ repeat = [b \in Repeats |-> Absent] /\ g5 = Absent
    /\ result = [t \in Trials |-> Absent]
    /\ selection = Absent /\ report = Absent /\ freeze = Absent /\ authorization = Absent
    /\ preflight = Absent
    /\ evaluated = {} /\ errors = 0

(***************************************************************************)
(* A development run: it reads the training and validation folds only and  *)
(* is a function of experiment, seed and image, unless it drifts.          *)
(***************************************************************************)
Outcomes == [key : Keys, worse : {{}, {"brier", "ece"}}]

DevelopmentResult(experiment, seed, outcome, drift) ==
    [kind |-> "result", experiment |-> experiment, seed |-> seed,
     model |-> <<experiment.base, seed, drift>>, key |-> outcome.key, worse |-> outcome.worse]

RunRepeat(b, outcome, drift) ==
    /\ repeat[b] = Absent
    /\ \A c \in Repeats : repeat[c] # Absent /\ drift = 0 =>
         outcome = [key |-> repeat[c].key, worse |-> repeat[c].worse]
    /\ errors + drift <= MaxErrors /\ errors' = errors + drift
    /\ repeat' = [repeat EXCEPT ![b] = DevelopmentResult(SearchExperiment(0), 42, outcome, drift)]
    /\ UNCHANGED <<g5, result, selection, report, freeze, authorization, preflight, evaluated>>

(* _g5_result_record: a verified development result with its collection    *)
(* receipt.                                                                *)
G5Recorded(b) == repeat[b] # Absent

(* compare_g5_results: the deterministic evidence of all repeats agrees.   *)
CompareG5 ==
    /\ g5 = Absent
    /\ \A b \in Repeats : G5Recorded(b)
    /\ \A b, c \in Repeats : repeat[b] = repeat[c]
    /\ g5' = repeat[CHOOSE b \in Repeats : TRUE]
    /\ UNCHANGED <<repeat, result, selection, report, freeze, authorization, preflight, evaluated, errors>>

(* verify_g6_plan binds the campaign to this comparison.                   *)
PlanVerified == g5 # Absent

SeedOf(t) == IF t \in Seeded THEN t[2] ELSE 42

(* A trial of the plan is run, with the experiment the operator staged:    *)
(* that of the plan or of the confirmation plan, or by mistake another.    *)
RunTrial(t, experiment, outcome, drift) ==
    LET planned == IF t \in SearchTrials THEN SearchExperiment(t[2])
                   ELSE IF selection = Absent THEN Absent ELSE selection.experiments[t]
        mistake == IF planned = experiment THEN 0 ELSE 1
    IN  /\ PlanVerified /\ result[t] = Absent
        /\ errors + drift + mistake <= MaxErrors
        /\ errors' = errors + drift + mistake
        /\ result' = [result EXCEPT ![t] = DevelopmentResult(experiment, SeedOf(t), outcome, drift)]
        /\ UNCHANGED <<repeat, g5, selection, report, freeze, authorization, preflight, evaluated>>

(***************************************************************************)
(* G6.                                                                     *)
(***************************************************************************)
(* collect_validation_record: a verified development result of the planned *)
(* run, experiment and seed.                                               *)
Collects(t, experiment) ==
    /\ result[t] # Absent
    /\ result[t].experiment = experiment /\ result[t].seed = SeedOf(t)

(* Worse on both scores than the raw predictions.                          *)
CalibrationEligible(r) == r.worse # {"brier", "ece"}

(* The baseline's record and those of the collected search trials.         *)
SearchRecord(n) == IF n = 0 THEN g5 ELSE result[<<"search", n>>]
Collected == {n \in Search : Collects(<<"search", n>>, SearchExperiment(n))}

Best(S, key(_), tie(_)) ==
    CHOOSE x \in S : \A y \in S :
        key(x) < key(y) \/ (key(x) = key(y) /\ tie(x) <= tie(y))

(* select_model: the best eligible record, the experiment hash last.       *)
EligibleModels == {n \in Collected \cup {0} : CalibrationEligible(SearchRecord(n))}
SelectModel == Best(EligibleModels, LAMBDA n : SearchRecord(n).key, LAMBDA n : n)

(* resolve_confirmation_experiment.                                        *)
ConfirmationExperiment(n, t) ==
    [base |-> n, method |-> IF t \in Calibrations THEN t[2] ELSE SearchExperiment(n).method]

DeriveEarly ==
    /\ selection = Absent
    /\ PlanVerified /\ EligibleModels # {}
    /\ selection' = [kind |-> "selection", model |-> SelectModel,
                     experiments |-> [t \in Seeded \cup Calibrations |->
                                        ConfirmationExperiment(SelectModel, t)]]
    /\ UNCHANGED <<repeat, g5, result, report, freeze, authorization, preflight, evaluated, errors>>

(* derive_confirmation_plan, written once: every search trial must have    *)
(* been collected.                                                         *)
DeriveConfirmation ==
    /\ selection = Absent
    /\ PlanVerified /\ Collected = Search
    /\ EligibleModels # {}
    /\ selection' = [kind |-> "selection", model |-> SelectModel,
                     experiments |-> [t \in Seeded \cup Calibrations |->
                                        ConfirmationExperiment(SelectModel, t)]]
    /\ UNCHANGED <<repeat, g5, result, report, freeze, authorization, preflight, evaluated, errors>>

MethodOrder == [m \in Methods |-> CASE m = "isotonic" -> 1 [] m = "platt" -> 2 [] m = "raw" -> 3]

EligibleCalibrations == {t \in Calibrations : CalibrationEligible(result[t])}
SelectCalibration ==
    Best(EligibleCalibrations, LAMBDA t : result[t].key, LAMBDA t : MethodOrder[t[2]])

(* seed_stability_gates over the selected search result and its repeats.   *)
SeedsStable(n) ==
    LET keys == {SearchRecord(n).key} \cup {result[t].key : t \in Seeded} IN
    \A k, l \in keys : k <= l + Tolerance

OneModel == \A t, u \in Calibrations : result[t].model = result[u].model

(* complete_g6_campaign: every planned run, the search selection computed  *)
(* again, and the confirmation trials collected against it.                *)
CompleteCampaign ==
    /\ report = Absent
    /\ PlanVerified /\ Collected = Search /\ EligibleModels # {}
    /\ \A t \in Seeded \cup Calibrations : Collects(t, ConfirmationExperiment(SelectModel, t))
    /\ EligibleCalibrations # {}
    /\ report' = [kind |-> "report", passed |-> SeedsStable(SelectModel) /\ OneModel,
                  model |-> SelectModel, candidate |-> SelectCalibration]
    /\ UNCHANGED <<repeat, g5, result, selection, freeze, authorization, preflight, evaluated, errors>>

(***************************************************************************)
(* G7 and G8.                                                              *)
(***************************************************************************)
(* _load_g6_report: a passed report, whatever file the operator names.     *)
PassedReport == report # Absent /\ report.passed

(* create_g7_candidate_freeze of a result directory: that of the report's  *)
(* candidate, and an isotonic one.                                         *)
CreateFreeze(t, at) ==
    /\ freeze = Absent
    /\ PassedReport
    /\ result[t] # Absent /\ t = report.candidate
    /\ result[t].experiment.method = "isotonic"
    /\ freeze' = [kind |-> "freeze", candidate |-> t, at |-> at]
    /\ UNCHANGED <<repeat, g5, result, selection, report, authorization, preflight, evaluated, errors>>

(* authorize_g7_candidate: the statement names the frozen candidate and is *)
(* not older than the freeze.                                              *)
Authorize(t, at) ==
    /\ authorization = Absent
    /\ freeze # Absent
    /\ t = freeze.candidate /\ at >= freeze.at
    /\ authorization' = [kind |-> "authorization", candidate |-> t, at |-> at]
    /\ UNCHANGED <<repeat, g5, result, selection, report, freeze, preflight, evaluated, errors>>

(* _verify_authorization_binding.                                          *)
AuthorizationBinds ==
    authorization # Absent /\ freeze # Absent /\ authorization.candidate = freeze.candidate

(* The final publication and the dataset lineage receipt, each named by    *)
(* the operator, are of one frozen release.                                *)
PublicationMatches(publication, lineage) == publication = lineage

(* prepare_g8_preflight writes the one final request: the frozen candidate *)
(* with its own experiment on the published release.                       *)
PreparePreflight(publication, lineage) ==
    /\ preflight = Absent
    /\ AuthorizationBinds /\ PublicationMatches(publication, lineage)
    /\ preflight' = [kind |-> "preflight", candidate |-> freeze.candidate,
                     experiment |-> result[freeze.candidate].experiment]
    /\ UNCHANGED <<repeat, g5, result, selection, report, freeze, authorization, evaluated, errors>>

(* verify_g8_preflight and _run_final: the candidate directory the job is  *)
(* given, the request and the signed authorization are of one candidate    *)
(* and one experiment.                                                     *)
MayEvaluate(t) ==
    /\ preflight # Absent /\ result[t] # Absent
    /\ preflight.candidate = t /\ authorization.candidate = t
    /\ result[t].experiment = preflight.experiment

Evaluate(t) ==
    /\ MayEvaluate(t)
    /\ t \notin evaluated
    /\ evaluated' = evaluated \cup {t}
    /\ UNCHANGED <<repeat, g5, result, selection, report, freeze, authorization, preflight, errors>>

Times == 1..2
Releases == 1..2

SelNext ==
    \/ \E b \in Repeats, o \in Outcomes, drift \in 0..1 : RunRepeat(b, o, drift)
    \/ CompareG5 \/ DeriveConfirmation \/ CompleteCampaign
    \/ \E t \in Trials, e \in Experiments, o \in Outcomes, drift \in 0..1 : RunTrial(t, e, o, drift)
    \/ \E t \in Trials, at \in Times : CreateFreeze(t, at) \/ Authorize(t, at)
    \/ \E publication, lineage \in Releases : PreparePreflight(publication, lineage)
    \/ \E t \in Trials : Evaluate(t)

SelSpec == SelInit /\ [][SelNext]_selVars

(***************************************************************************)
(* Properties.                                                             *)
(***************************************************************************)
(* Of the records a campaign compares, the baseline's included.            *)
RecordOf(n) == IF n = 0 THEN g5 ELSE result[<<"search", n>>]
Worsened(r) == r.worse = {"brier", "ece"}
BestOfSearch(n) ==
    /\ ~Worsened(RecordOf(n))
    /\ \A m \in Search \cup {0} :
         /\ RecordOf(m) # Absent
         /\ ~Worsened(RecordOf(m)) =>
              \/ RecordOf(m).key > RecordOf(n).key
              \/ RecordOf(m).key = RecordOf(n).key /\ m >= n

(* Whatever the order of the runs, the mistakes in staging and the runs    *)
(* that drift, what is evaluated on the test fold is the isotonic          *)
(* calibration of the best eligible model of the whole plan, itself the    *)
(* best of its three calibrations, of one model and stable over the seeds  *)
(* (complete_g6_campaign, create_g7_candidate_freeze, _run_final).         *)
EvaluatedIsSelected ==
    \A t \in evaluated :
        LET base == result[t].experiment.base IN
        /\ t = <<"calibration", "isotonic">>
        /\ BestOfSearch(base)
        /\ \A c \in Calibrations :
             /\ result[c].model = result[t].model
             /\ ~Worsened(result[c]) => result[c].key >= result[t].key
        /\ \A s \in Seeded :
             /\ result[s].experiment.base = base
             /\ RecordOf(base).key <= result[s].key + Tolerance
             /\ result[s].key <= RecordOf(base).key + Tolerance

(* The confirmation plan is of the model the whole search selects, however *)
(* early it is asked for: a search trial that finishes later cannot make   *)
(* the confirmation runs those of a loser (derive_confirmation_plan).      *)
SelectionStands ==
    selection # Absent => BestOfSearch(selection.model)

(* The selection binds: it names the best model of the whole search, and   *)
(* what later steps evaluate is the model it named, though results are     *)
(* staged and derived in any order (lightgbm_wave1.py).                    *)
SelectionIsBinding == EvaluatedIsSelected /\ SelectionStands
=============================================================================
