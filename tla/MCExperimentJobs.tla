-------------------------- MODULE MCExperimentJobs --------------------------
(***************************************************************************)
(* Three parts side by side, a behaviour being one of them: the jobs of an *)
(* experiment, sign-in to the demo, and the demo's research journey.       *)
(***************************************************************************)
EXTENDS ExperimentJobs, CeoAccess, CeoJourney

VARIABLE scene

studyVars == <<vars, accessVars, journeyVars, scene>>

Deployment(submit, artifacts, uri, mounted) ==
    [submit |-> submit, status |-> submit, artifacts |-> artifacts, uri |-> uri,
     mounted |-> mounted]

\* The ways of getting results back from the platform, and none.
Deployments ==
    {Deployment(TRUE, FALSE, TRUE, FALSE), Deployment(TRUE, FALSE, FALSE, TRUE),
     Deployment(TRUE, TRUE, FALSE, FALSE), Deployment(FALSE, FALSE, FALSE, FALSE)}

\* Two runs interleaved in the publication, with alerts of either detector
\* inside and outside the prepared window.
Scored(target, run, transformer, lightgbm) ==
    [target |-> target, run |-> run, transformer |-> transformer, lightgbm |-> lightgbm]
MCPredictions ==
    <<Scored("p", "east", FALSE, TRUE), Scored("q", "west", FALSE, TRUE),
      Scored("r", "east", FALSE, FALSE), Scored("s", "east", TRUE, FALSE),
      Scored("t", "west", TRUE, FALSE), Scored("u", "east", FALSE, TRUE)>>

\* Request threads are interchangeable.
Threads == Permutations(Handlers)

StudyInit ==
    /\ scene \in {"experiment", "access", "journey"}
    /\ AccessInit /\ JourneyInit
    /\ IF scene = "experiment" THEN Init
       ELSE Init /\ settings = Deployment(FALSE, FALSE, FALSE, FALSE)

StudyNext ==
    /\ UNCHANGED scene
    /\ \/ scene = "experiment" /\ Next /\ UNCHANGED <<accessVars, journeyVars>>
       \/ scene = "access" /\ AccessNext /\ UNCHANGED <<vars, journeyVars>>
       \/ scene = "journey" /\ JourneyNext /\ UNCHANGED <<vars, accessVars>>

StudySpec == StudyInit /\ [][StudyNext]_studyVars
=============================================================================
