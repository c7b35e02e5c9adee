--------------------------- MODULE MCTransformer ---------------------------
(***************************************************************************)
(* The Transformer's development campaign and its held-out evaluation,     *)
(* side by side: they share no object, so a behaviour is one of either.    *)
(***************************************************************************)
EXTENDS TransformerCampaign, TransformerHoldout

VARIABLE scene

allVars == <<tcVars, hoVars, scene>>

TransformerInit == TcInit /\ HoInit /\ scene \in {"campaign", "holdout"}

TransformerNext ==
    /\ UNCHANGED scene
    /\ \/ scene = "campaign" /\ TcNext /\ UNCHANGED hoVars
       \/ scene = "holdout" /\ HoNext /\ UNCHANGED tcVars

\* The watcher's calls return and the clock runs.
TransformerSpec ==
    /\ TransformerInit /\ [][TransformerNext]_allVars
    /\ WF_hoVars(scene = "holdout" /\ WatchStep) /\ WF_hoVars(scene = "holdout" /\ Tick)
=============================================================================
