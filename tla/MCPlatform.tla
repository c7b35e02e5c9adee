----------------------------- MODULE MCPlatform -----------------------------
(***************************************************************************)
(* Four parts side by side, a behaviour being one of them: the AI          *)
(* services, the commands that lead to a verified detector release, what   *)
(* calibration derives from the validation rows, and the comparison of a   *)
(* release with the rules.                                                 *)
(***************************************************************************)
EXTENDS AiServices, DetectorRelease, OperatingPoints, C4Comparison

VARIABLE scene

platformVars == <<aiVars, detVars, pointVars, c4Vars, scene>>

\* Two directories for training, so that runs can be mixed up.
MCSlots == [train |-> {1, 2}, calibrate |-> {1}, predict |-> {1}, bundle |-> {1}]
MCExported == {<<"train", "campaign">>, <<"test", "control">>}

\* The held-out observations: an attack with two snapshots and a trade between
\* them, and its control.
MCCampaignOf == [atk |-> "campaign", ctl |-> "none"]
Snapshot(tick, ts) == [snapshot |-> TRUE, tick |-> tick, ts |-> ts]
MCEvents ==
    [atk |-> <<Snapshot(1, 1), [snapshot |-> FALSE, tick |-> 1, ts |-> 2], Snapshot(2, 3)>>,
     ctl |-> <<Snapshot(1, 1)>>]
Observation(seq, tick, label) ==
    [seq |-> seq, tick |-> tick, ts |-> seq, label |-> label,
     source |-> IF label = 1 THEN "synthetic_scenario" ELSE "research_control_assumption"]
MCShardRows ==
    [atk |-> {{Observation(1, 1, l), Observation(3, 2, 1)} : l \in {0, 1}}
             \cup {{Observation(1, 1, 0)}, {Observation(2, 1, 1)}, {Observation(4, 2, 1)},
                   {Observation(1, 1, 0), Observation(1, 1, 1)}},
     ctl |-> {{Observation(1, 1, 0)}}]
Prediction(run, seq, label, score, alert) ==
    [run |-> run, seq |-> seq, ts |-> seq, label |-> label, score |-> score, alert |-> alert,
     campaign |-> MCCampaignOf[run]]
Sound(run, seq, label, score) == Prediction(run, seq, label, score, score >= 1)
\* Rows of all kinds: joined by a profile, missing, superfluous, repeated, and
\* with a decision that is not the threshold's.
MCTables ==
    {{Sound("atk", 1, l, 1), Sound("atk", 3, 1, 0), Sound("ctl", 1, 0, 1)} : l \in {0, 1}}
    \cup {{Sound("atk", 1, 0, 1), Sound("ctl", 1, 0, 1)},
          {Prediction("atk", 1, 0, 0, TRUE), Sound("ctl", 1, 0, 0)},
          {Sound("atk", 2, 1, 1), Sound("ctl", 1, 0, 0)},
          {Sound("atk", 4, 1, 1), Sound("ctl", 1, 0, 0)},
          {Sound("atk", 1, 0, 0), Sound("atk", 1, 0, 1), Sound("ctl", 1, 0, 0)}}
MCPackages == {{[hybrid |-> "atk", control |-> {"ctl"}]}, {[hybrid |-> "atk", control |-> {}]}}
MCProfiles ==
    {[rows |-> [atk |-> r, ctl |-> {Observation(1, 1, 0)}],
      alerts |-> [atk |-> a, ctl |-> {1}], package |-> p] :
        r \in MCShardRows["atk"], a \in {{1, 2}, {2}, {3}}, p \in MCPackages}
MCPredictions ==
    {[p1 |-> t, p2 |-> {Sound("atk", 1, 0, 0), Sound("atk", 3, 1, 1), Sound("ctl", 1, 0, 0)}] :
        t \in MCTables}

\* A fold for the scenes that do not look at it.
NoRows == <<>>

PlatformInit ==
    /\ scene \in {"ai", "release", "points", "comparison"}
    /\ DetInit
    /\ IF scene = "ai" THEN AiInit ELSE AiInit /\ endpointMode = "mock" /\ configured = {}
    /\ IF scene = "points" THEN PointsInit
       ELSE /\ rows = NoRows /\ at = 0 /\ lengths = <<>> /\ masks = <<>>
            /\ points = Undecided
    /\ IF scene = "comparison" THEN C4Init
       ELSE /\ frozen = <<>> /\ table = <<>> /\ shard = <<>> /\ cache = <<>> /\ call = NoCall
            /\ comparisons = {} /\ calls = 0

PlatformNext ==
    /\ UNCHANGED scene
    /\ \/ scene = "ai" /\ AiNext /\ UNCHANGED <<detVars, pointVars, c4Vars>>
       \/ scene = "release" /\ DetNext /\ UNCHANGED <<aiVars, pointVars, c4Vars>>
       \/ scene = "points" /\ PointsNext /\ UNCHANGED <<aiVars, detVars, c4Vars>>
       \/ scene = "comparison" /\ C4Next /\ UNCHANGED <<aiVars, detVars, pointVars>>

PlatformSpec == PlatformInit /\ [][PlatformNext]_platformVars
=============================================================================
