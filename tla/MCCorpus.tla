------------------------------ MODULE MCCorpus ------------------------------
(***************************************************************************)
(* How a governed corpus comes about, side by side: the data campaign, the *)
(* comparison and export of replays, and the corpus with its evaluation.   *)
(* They meet only in finished files, so a behaviour is one of one stage.   *)
(***************************************************************************)
EXTENDS DataCampaign, ReplayComparison, GovernedEvaluation

VARIABLE scene

allVars == <<vars, comparisonVars, evaluationVars, scene>>

CorpusSymbols == <<"AAPL", "MSFT">>

\* Session 1 is evaluated, session 2 only trains.  One campaign was exported
\* twice, once without its benefit; some bundles have a flaw.
CorpusSessionOf == [r \in Replays |-> IF r \in {"k2", "a2"} THEN 2 ELSE 1]
CorpusExported ==
    {<<"k1", 1>>, <<"a1", 1>>, <<"a1", 2>>, <<"a1", 3>>, <<"a2", 1>>, <<"k2", 1>>}
CorpusFlawOf ==
    [b \in Exported |-> CASE b = <<"a2", 1>> -> "report" [] b = <<"a1", 3>> -> "events" [] OTHER -> "none"]
CorpusNoBenefit == {<<"a1", 2>>}

CorpusRegistries ==
    LET first == [r \in {"k1", "a1", "k2"} |-> 1]
    IN  {first, [first EXCEPT !["a1"] = 2], [first EXCEPT !["a1"] = 3], [r \in Replays |-> 1]}

\* A window on which reviewers disagreed, its transfer, and one with a
\* single review.
Reviewed(id, source, campaign, first, second, judgeVote) ==
    [id |-> id, session |-> 1, source |-> source, campaign |-> campaign,
     votes |-> [v \in Reviewers |-> CASE v = "v1" -> first [] v = "v2" -> second [] OTHER -> "absent"],
     judge |-> "v3", judgeVote |-> judgeVote]

CorpusWindows ==
    {Reviewed("w1", "none", "none", "clean", "not_clean", "clean"),
     Reviewed("w2", "w1", "a1", "clean", "clean", "none"),
     Reviewed("w3", "none", "none", "clean", "absent", "none")}

CorpusInit ==
    /\ Init /\ ComparisonInit /\ EvaluationInit
    /\ scene \in {"campaign", "attack", "export", "bundle", "evaluation"}
    /\ scene # "attack" => label.start = 1 /\ label.end = 1 /\ report.source /\ report.schedule /\ report.repeat
    /\ Cardinality({f \in DOMAIN report : ~report[f]}) <= 1
    /\ disk.manifest["a1"] = 1

CorpusNext ==
    /\ UNCHANGED scene
    /\ \/ scene = "campaign" /\ Next /\ UNCHANGED <<comparisonVars, evaluationVars>>
       \/ scene = "attack" /\ AttackNext /\ UNCHANGED <<vars, evaluationVars>>
       \/ scene = "export" /\ ExportNext /\ UNCHANGED <<vars, evaluationVars>>
       \/ scene = "bundle" /\ BundleNext /\ UNCHANGED <<vars, evaluationVars>>
       \/ scene = "evaluation" /\ EvaluationNext /\ UNCHANGED <<vars, comparisonVars>>

CorpusSpec == CorpusInit /\ [][CorpusNext]_allVars
=============================================================================
