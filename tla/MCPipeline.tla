---------------------------- MODULE MCPipeline ----------------------------
(***************************************************************************)
(* The stages a recorded session goes through before a model sees it, side *)
(* by side: normalization of the exchange's file, the import service, the  *)
(* feature stream and its files, the governed split, scoring and release.  *)
(* They meet only in finished files, so a behaviour is one of one stage.   *)
(***************************************************************************)
EXTENDS ItchNormalization, DataIngestion, FeatureStream, GovernedBenchmark

VARIABLE scene

allVars == <<itchVars, ingestVars, featureVars, benchmarkVars, scene>>

\* Two attacks so near that one alert reaches both, and a campaign whose
\* benefit comes after its attack.
PipelineAttacks ==
    [c \in Campaigns |->
       IF c = 1 THEN {[start |-> 1, end |-> 1, benefit |-> 1], [start |-> 2, end |-> 2, benefit |-> 2]}
       ELSE {[start |-> 4, end |-> 4, benefit |-> 5]}]

PipelineCausal == [c \in Campaigns |-> IF c = 1 THEN [start |-> 1, end |-> 3] ELSE [start |-> 4, end |-> 5]]

PipelineFractions == {<<6, 2, 2>>, <<5, 3, 2>>}

PipelineInit ==
    /\ ItchInit /\ IngestInit /\ FeatureInit /\ BenchmarkInit
    /\ scene \in {"itch", "import", "stream", "files", "split", "score", "release"}
    /\ scene # "itch" => \A l \in Locates : directory[l] = NoSymbol
    /\ scene # "import" => pair.rows = <<>> /\ pair.even
    /\ scene # "score" => replay = Control

PipelineNext ==
    /\ UNCHANGED scene
    /\ \/ scene = "itch" /\ ItchNext /\ UNCHANGED <<ingestVars, featureVars, benchmarkVars>>
       \/ scene = "import" /\ IngestNext /\ UNCHANGED <<itchVars, featureVars, benchmarkVars>>
       \/ scene = "stream" /\ Observe /\ UNCHANGED <<itchVars, ingestVars, benchmarkVars>>
       \/ scene = "files" /\ WriteFiles /\ UNCHANGED <<itchVars, ingestVars, benchmarkVars>>
       \/ scene = "split" /\ SplitNext /\ UNCHANGED <<itchVars, ingestVars, featureVars>>
       \/ scene = "score" /\ ScoreNext /\ UNCHANGED <<itchVars, ingestVars, featureVars>>
       \/ scene = "release" /\ ReleaseNext /\ UNCHANGED <<itchVars, ingestVars, featureVars>>

PipelineSpec == PipelineInit /\ [][PipelineNext]_allVars
=============================================================================
